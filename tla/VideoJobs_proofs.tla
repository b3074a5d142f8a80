--------------------------- MODULE VideoJobs_proofs ---------------------------
(***************************************************************************)
(* Proofs about VideoJobs, for any jobs, any number of client polls beside *)
(* the reconciling loop, any batch size, any costs and any crashes; and     *)
(* about the agents' team whose members order such videos (Film, TeamRoom). *)
(***************************************************************************)
EXTENDS VideoJobs, SequenceTheorems, WellFoundedInduction, TLAPS

\* a stands between two transactions of one job, the job named j.
Busy(a)       == actor[a].step \in {"record", "adjust", "refund", "grant"}
At(a, step, j) == actor[a].step = step /\ Head(actor[a].todo) = j

\* A poll that is under way has a job to work on.
HasWork == \A a \in Actors : actor[a].step # "idle" => actor[a].todo # <<>>

TypeInv == TypeOK /\ HasWork

\* The event loop runs one handler at a time.
OneAtATime ==
    /\ \A a, b \in Actors : Busy(a) /\ Busy(b) => a = b
    /\ \A a \in Actors, j \in Jobs : ~(Busy(a) /\ submit[j] = "charged")

\* The mark comes before the money: a refund is paid by the one poll that has
\* set the mark, and not before.
MarkFirst ==
    \A j \in Jobs :
        /\ refunds[j]["failure"] <= 1
        /\ refunds[j]["failure"] = 1 => refunded[j]
        /\ \A a \in Actors : At(a, "grant", j) => refunded[j] /\ refunds[j]["failure"] = 0

\* A failed job has its refund, or the poll that failed it is about to see to
\* it; a marked one has its refund, or the poll that marked it is about to pay.
RefundComing ==
    crashes = 0 => \A j \in Jobs :
        /\ status[j] = "failed" =>
              \/ refunds[j]["failure"] = 1
              \/ \E a \in Actors : At(a, "refund", j) \/ At(a, "grant", j)
        /\ refunded[j] =>
              refunds[j]["failure"] = 1 \/ \E a \in Actors : At(a, "grant", j)

Adjusted(j) ==
    /\ Delta[j] = "more" => "adj" \in usage[j]
    /\ Delta[j] = "less" => refunds[j]["adjust"] > 0

\* A job that ended well is settled, in its row and in the ledger, or about to be.
Settled(j) == (Delta[j] # "fixed" => recorded[j]) /\ Adjusted(j)

AdjustComing ==
    crashes = 0 => \A j \in Jobs : status[j] = "succeeded" =>
        \/ Settled(j)
        \/ \E a \in Actors : At(a, "record", j) \/ (recorded[j] /\ At(a, "adjust", j))

JobsInv == TypeInv /\ OneAtATime /\ MarkFirst /\ RefundComing /\ AdjustComing

-----------------------------------------------------------------------------
\* A poll that is under way is a full record, with a job at its head.
LEMMA AtWork ==
    ASSUME TypeInv, NEW a \in Actors, actor[a].step # "idle"
    PROVE  /\ actor[a] \in Polls
           /\ actor[a].todo \in Seq(Jobs) /\ actor[a].todo # <<>>
           /\ Head(actor[a].todo) \in Jobs
<1>1. actor[a] \in Polls /\ actor[a].todo # <<>>
  BY DEF TypeInv, TypeOK, HasWork, Idle
<1>2. actor[a].todo \in Seq(Jobs)
  BY <1>1 DEF Polls
<1>3. QED
  BY <1>1, <1>2

\* What is left after the first of several jobs.
LEMMA OneLess ==
    ASSUME NEW todo \in Seq(Jobs), todo # <<>>, Len(todo) # 1
    PROVE  Tail(todo) \in Seq(Jobs) /\ Tail(todo) # <<>>
<1>1. Len(todo) # 0
  OBVIOUS
<1>2. Tail(todo) \in Seq(Jobs) /\ Len(Tail(todo)) # 0
  BY <1>1
<1>3. ASSUME Tail(todo) = <<>>
      PROVE  FALSE
  BY <1>2, <1>3
<1>4. QED
  BY <1>2, <1>3

\* Continue moves one poll: within the job it is at, or on from it.
LEMMA ContinueFacts ==
    ASSUME TypeInv, NEW a \in Actors, actor[a].step # "idle",
           NEW step \in {"", "record", "adjust", "refund", "grant"}, Continue(a, step)
    PROVE  /\ actor' \in [Actors -> {Idle} \union Polls]
           /\ HasWork'
           /\ \A b \in Actors : b # a => actor'[b] = actor[b]
           /\ step = "" => actor'[a].step \in {"idle", "ask"}
           /\ step # "" => actor'[a].step = step /\ actor'[a].todo = actor[a].todo
<1> DEFINE old == actor[a]
           new == IF step # "" THEN [old EXCEPT !.step = step]
                  ELSE IF Len(old.todo) = 1 THEN Idle
                  ELSE [step |-> "ask", todo |-> Tail(old.todo), answer |-> "none"]
<1>1. old \in Polls /\ old.todo \in Seq(Jobs) /\ old.todo # <<>>
  BY AtWork
<1>2. actor' = [actor EXCEPT ![a] = new] /\ actor \in [Actors -> {Idle} \union Polls]
  BY DEF Continue, TypeInv, TypeOK
<1>3. CASE step # ""
  <2>1. /\ new \in Polls /\ new.todo = old.todo /\ new.step = step
    BY <1>1, <1>3 DEF Polls
  <2> HIDE DEF new
  <2>2. QED
    BY <1>1, <1>2, <1>3, <2>1 DEF TypeInv, HasWork
<1>4. CASE step = "" /\ Len(old.todo) = 1
  <2>1. new = Idle
    BY <1>4
  <2> HIDE DEF new
  <2>2. QED
    BY <1>2, <1>4, <2>1 DEF TypeInv, HasWork, Idle
<1>5. CASE step = "" /\ Len(old.todo) # 1
  <2>1. new = [step |-> "ask", todo |-> Tail(old.todo), answer |-> "none"]
    BY <1>5
  <2>2. Tail(old.todo) \in Seq(Jobs) /\ Tail(old.todo) # <<>>
    BY <1>1, <1>5, OneLess
  <2> HIDE DEF new
  <2>3. new \in Polls
    BY <2>1, <2>2 DEF Polls
  <2>4. new.step = "ask" /\ new.todo # <<>>
    BY <2>1, <2>2
  <2>5. QED
    BY <1>2, <1>5, <2>3, <2>4 DEF TypeInv, HasWork
<1>6. QED
  BY <1>3, <1>4, <1>5

\* Before the first job nothing is owed.
LEMMA JobsInvInit == Init => JobsInv
BY BatchAssumption
   DEF Init, JobsInv, TypeInv, TypeOK, HasWork, OneAtATime, MarkFirst, RefundComing,
       AdjustComing, Busy, At, Idle

\* Steps of create_video, of the upstream and of the clock: no poll moves, and
\* a job is charged only while the event loop is free.
LEMMA WorldStep ==
    ASSUME JobsInv, NEW j \in Jobs,
           Accept(j) \/ Charge(j) \/ Store(j) \/ Finish(j) \/ Age(j)
    PROVE  JobsInv'
<1> USE DEF JobsInv, TypeInv
<1>1. TypeOK'
  <2>1. CASE Accept(j)
    BY <2>1 DEF Accept, TypeOK, rows, ledger
  <2>2. CASE Charge(j)
    BY <2>2 DEF Charge, TypeOK, rows
  <2>3. CASE Store(j)
    BY <2>3 DEF Store, TypeOK, ledger
  <2>4. CASE Finish(j)
    BY <2>4 DEF Finish, TypeOK, rows, ledger
  <2>5. CASE Age(j)
    BY <2>5 DEF Age, TypeOK, rows, ledger
  <2>6. QED
    BY <2>1, <2>2, <2>3, <2>4, <2>5
<1>2. /\ UNCHANGED <<actor, crashes, refunded, refunds>>
      /\ \A k \in Jobs : status'[k] = status[k] \/ status'[k] = "processing"
      /\ \A k \in Jobs : usage[k] \subseteq usage'[k]
      /\ recorded' = recorded
  <2>1. CASE Accept(j) \/ Finish(j) \/ Age(j)
    BY <2>1 DEF Accept, Finish, Age, rows, ledger
  <2>2. CASE Charge(j)
    BY <2>2 DEF Charge, TypeOK, rows
  <2>3. CASE Store(j)
    BY <2>3 DEF Store, TypeOK, ledger
  <2>4. QED
    BY <2>1, <2>2, <2>3
<1>3. HasWork'
  BY <1>2 DEF HasWork
<1>4. OneAtATime'
  <2>1. CASE Charge(j)
    BY <2>1, <1>2 DEF Charge, LoopFree, OneAtATime, Busy
  <2>2. CASE Accept(j) \/ Store(j) \/ Finish(j) \/ Age(j)
    <3>1. \A k \in Jobs : submit'[k] = "charged" => submit[k] = "charged"
      BY <2>2 DEF Accept, Store, Finish, Age, TypeOK
    <3>2. QED
      BY <3>1, <1>2 DEF OneAtATime, Busy
  <2>3. QED
    BY <2>1, <2>2
<1>5. MarkFirst'
  BY <1>2 DEF MarkFirst, At
<1>6. RefundComing'
  BY <1>2 DEF RefundComing, At
<1>7. AdjustComing'
  <2>1. \A k \in Jobs : Settled(k) => Settled(k)'
    BY <1>2 DEF Adjusted, Settled
  <2>2. QED
    BY <1>2, <2>1 DEF AdjustComing, At
<1>8. QED
  BY <1>1, <1>3, <1>4, <1>5, <1>6, <1>7

\* Steps that only move one poll, between steps that are not between two
\* transactions of a job.
LEMMA QuietStep ==
    ASSUME JobsInv, NEW a \in Actors, UNCHANGED <<world, rows, ledger>>,
           actor' \in [Actors -> {Idle} \union Polls], HasWork',
           \A b \in Actors : b # a => actor'[b] = actor[b],
           ~Busy(a), ~Busy(a)'
    PROVE  JobsInv'
<1> USE DEF JobsInv, TypeInv
<1>1. TypeOK'
  BY DEF TypeOK, world, rows, ledger
<1>2. \A b \in Actors : Busy(b)' <=> Busy(b)
  BY DEF Busy
<1>3. \A b \in Actors, j \in Jobs, step \in {"record", "adjust", "refund", "grant"} :
         At(b, step, j)' <=> At(b, step, j)
  BY DEF Busy, At
<1>4. UNCHANGED <<submit, crashes, status, refunded, recorded, usage, refunds>>
  BY DEF world, rows, ledger
<1>5. OneAtATime' /\ MarkFirst' /\ RefundComing'
  BY <1>2, <1>3, <1>4 DEF OneAtATime, MarkFirst, RefundComing
<1>6. AdjustComing'
  BY <1>3, <1>4 DEF AdjustComing, Adjusted, Settled
<1>7. QED
  BY <1>1, <1>5, <1>6

\* A poll takes up its work, of client or loop, when no other is in the middle.
LEMMA StartStep ==
    ASSUME JobsInv, NEW a \in Actors, NEW todo \in Seq(Jobs), Start(a, todo)
    PROVE  JobsInv'
<1> DEFINE new == [step |-> "ask", todo |-> todo, answer |-> "none"]
<1>1. /\ actor[a] = Idle /\ todo # <<>> /\ actor' = [actor EXCEPT ![a] = new]
      /\ UNCHANGED <<world, rows, ledger>>
  BY DEF Start
<1>2. actor \in [Actors -> {Idle} \union Polls] /\ HasWork
  BY DEF JobsInv, TypeInv, TypeOK
<1>3. new \in Polls /\ new.step = "ask" /\ new.todo # <<>>
  BY <1>1 DEF Polls
<1> HIDE DEF new
<1>4. /\ actor' \in [Actors -> {Idle} \union Polls] /\ HasWork'
      /\ \A b \in Actors : b # a => actor'[b] = actor[b]
      /\ ~Busy(a) /\ ~Busy(a)'
  BY <1>1, <1>2, <1>3 DEF HasWork, Busy, Idle
<1>5. QED
  BY <1>1, <1>4, QuietStep

\* A tick's rows are rows of the table.
LEMMA TickStep ==
    ASSUME JobsInv, Tick
    PROVE  JobsInv'
<1>1. PICK n \in 1..Batch :
         \E at \in [1..n -> Unsettled] : Start(Loop, [k \in 1..n |-> created[at[k]]])
  BY DEF Tick
<1>2. PICK at \in [1..n -> Unsettled] : Start(Loop, [k \in 1..n |-> created[at[k]]])
  BY <1>1
<1>3. created \in Seq(Jobs) /\ n \in Nat
  BY BatchAssumption DEF JobsInv, TypeInv, TypeOK
<1>4. \A k \in 1..n : created[at[k]] \in Jobs
  BY <1>3 DEF Unsettled
<1>5. [k \in 1..n |-> created[at[k]]] \in Seq(Jobs)
  BY <1>3, <1>4, IsASeq
<1>6. Loop \in Actors
  BY DEF Actors
<1>7. QED
  BY <1>2, <1>5, <1>6, StartStep

\* The answer of the upstream arrives.
LEMMA AskStep ==
    ASSUME JobsInv, NEW a \in Actors, Ask(a)
    PROVE  JobsInv'
<1> DEFINE old == actor[a]
<1>1. old \in Polls /\ old.step = "ask" /\ old.todo # <<>> /\ Head(old.todo) \in Jobs
  BY AtWork DEF Ask, JobsInv
<1>2. PICK answer \in {"processing", "succeeded", "failed"} :
         actor' = [actor EXCEPT ![a] = [old EXCEPT !.step = "answered", !.answer = answer]]
  <2>1. upstream[Head(old.todo)] \in {"running", "succeeded", "failed"}
    BY <1>1 DEF JobsInv, TypeInv, TypeOK, Terminal
  <2>2. QED
    BY <1>1, <2>1 DEF Ask, Reading, JobsInv, TypeInv, TypeOK
<1> DEFINE new == [old EXCEPT !.step = "answered", !.answer = answer]
<1>3. new \in Polls /\ new.step = "answered" /\ new.todo # <<>>
  BY <1>1 DEF Polls
<1>4. actor \in [Actors -> {Idle} \union Polls] /\ HasWork /\ actor' = [actor EXCEPT ![a] = new]
  BY <1>2 DEF JobsInv, TypeInv, TypeOK
<1> HIDE DEF new
<1>5. /\ actor' \in [Actors -> {Idle} \union Polls] /\ HasWork'
      /\ \A b \in Actors : b # a => actor'[b] = actor[b]
      /\ ~Busy(a) /\ ~Busy(a)'
  BY <1>1, <1>3, <1>4 DEF HasWork, Busy
<1>6. QED
  BY <1>5, QuietStep DEF Ask

\* Nothing to settle yet.
LEMMA StillRunningStep ==
    ASSUME JobsInv, NEW a \in Actors, NEW j \in Jobs, StillRunning(a, j)
    PROVE  JobsInv'
<1>1. /\ actor[a].step = "answered" /\ Continue(a, "") /\ UNCHANGED <<world, rows, ledger>>
  BY DEF StillRunning, Answered
<1>2. /\ actor' \in [Actors -> {Idle} \union Polls] /\ HasWork'
      /\ \A b \in Actors : b # a => actor'[b] = actor[b]
      /\ actor'[a].step \in {"idle", "ask"}
  BY <1>1, ContinueFacts DEF JobsInv
<1>3. ~Busy(a) /\ ~Busy(a)'
  BY <1>1, <1>2 DEF Busy
<1>4. QED
  BY <1>1, <1>2, <1>3, QuietStep

\* The answer is a verdict: the row is closed, and the poll goes on to adjust
\* the charge or to refund it.
LEMMA LandStep ==
    ASSUME JobsInv, NEW a \in Actors, NEW j \in Jobs, LandSuccess(a, j) \/ LandFailure(a, j)
    PROVE  JobsInv'
<1> USE DEF JobsInv, TypeInv
<1>1. PICK step \in {"", "record", "refund"}, verdict \in Terminal :
         /\ status' = [status EXCEPT ![j] = verdict] /\ Continue(a, step)
         /\ verdict = "failed" <=> step = "refund"
         /\ verdict = "succeeded" /\ step = "" =>
               status[j] = "succeeded" \/ Delta[j] = "fixed"
  BY DEF LandSuccess, LandFailure, NewlySucceeded, Terminal
<1>2. /\ LoopFree /\ actor[a].step = "answered" /\ Head(actor[a].todo) = j
      /\ UNCHANGED <<world, created, refunded, recorded, ledger>>
  BY DEF LandSuccess, LandFailure, Answered
<1>3. /\ actor' \in [Actors -> {Idle} \union Polls] /\ HasWork'
      /\ \A b \in Actors : b # a => actor'[b] = actor[b]
      /\ step = "" => actor'[a].step \in {"idle", "ask"}
      /\ step # "" => At(a, step, j)'
  BY <1>1, <1>2, ContinueFacts DEF At
<1>4. /\ UNCHANGED <<submit, upstream, aged, created, crashes, refunded, recorded, usage, refunds>>
      /\ status' \in [Jobs -> {"none", "processing"} \union Terminal]
      /\ status'[j] = verdict /\ \A k \in Jobs : k # j => status'[k] = status[k]
  BY <1>1, <1>2 DEF world, ledger, TypeOK
<1>5. TypeOK'
  BY <1>3, <1>4 DEF TypeOK
<1>6. \A b \in Actors : ~Busy(b) /\ (Busy(b)' => b = a) /\ actor'[b].step # "grant"
  BY <1>1, <1>2, <1>3 DEF LoopFree, Busy, At
<1>7. OneAtATime'
  BY <1>2, <1>4, <1>6 DEF OneAtATime, LoopFree
<1>8. MarkFirst'
  BY <1>4, <1>6 DEF MarkFirst, At
<1>9. RefundComing'
  <2> SUFFICES ASSUME crashes = 0, NEW k \in Jobs
               PROVE  /\ status'[k] = "failed" =>
                           refunds[k]["failure"] = 1 \/ \E b \in Actors : At(b, "refund", k)'
                      /\ refunded[k] => refunds[k]["failure"] = 1
    BY <1>4 DEF RefundComing
  <2>1. /\ status[k] = "failed" => refunds[k]["failure"] = 1
        /\ refunded[k] => refunds[k]["failure"] = 1
    BY <1>6 DEF RefundComing, Busy, At
  <2>2. k = j /\ status'[k] = "failed" => At(a, "refund", k)'
    BY <1>1, <1>3, <1>4
  <2>3. QED
    BY <1>4, <2>1, <2>2
<1>10. AdjustComing'
  <2> SUFFICES ASSUME crashes = 0, NEW k \in Jobs, status'[k] = "succeeded"
               PROVE  Settled(k)' \/ At(a, "record", k)'
    BY <1>4 DEF AdjustComing
  <2>1. status[k] = "succeeded" => Settled(k)
    BY <1>6 DEF AdjustComing, Busy, At
  <2>2. Settled(k) => Settled(k)'
    BY <1>4 DEF Adjusted, Settled
  <2>3. Delta[k] = "fixed" => Settled(k)'
    BY DEF Adjusted, Settled
  <2>4. k = j => step = "record" \/ status[k] = "succeeded" \/ Delta[k] = "fixed"
    BY <1>1, <1>4 DEF Terminal
  <2>5. QED
    BY <1>3, <1>4, <2>1, <2>2, <2>3, <2>4
<1>11. QED
  BY <1>3, <1>5, <1>7, <1>8, <1>9, <1>10

\* The row gets the real cost.
LEMMA RecordStep ==
    ASSUME JobsInv, NEW a \in Actors, NEW j \in Jobs, Record(a, j)
    PROVE  JobsInv'
<1> USE DEF JobsInv, TypeInv
<1> DEFINE step == IF Delta[j] = "same" THEN "" ELSE "adjust"
<1>1. /\ actor[a].step = "record" /\ Head(actor[a].todo) = j /\ Continue(a, step)
      /\ recorded' = [recorded EXCEPT ![j] = TRUE]
      /\ UNCHANGED <<submit, upstream, aged, created, crashes, status, refunded, usage, refunds>>
  BY DEF Record, world, ledger
<1>2. step \in {"", "adjust"} /\ (step = "" <=> Delta[j] = "same")
  OBVIOUS
<1> HIDE DEF step
<1>3. /\ actor' \in [Actors -> {Idle} \union Polls] /\ HasWork'
      /\ \A b \in Actors : b # a => actor'[b] = actor[b]
      /\ Delta[j] = "same" => actor'[a].step \in {"idle", "ask"}
      /\ Delta[j] # "same" => At(a, "adjust", j)'
  BY <1>1, <1>2, ContinueFacts DEF At
<1>4. /\ recorded' \in [Jobs -> BOOLEAN]
      /\ recorded'[j] /\ \A k \in Jobs : k # j => recorded'[k] = recorded[k]
  BY <1>1 DEF TypeOK
<1>5. TypeOK'
  BY <1>1, <1>3, <1>4 DEF TypeOK
<1>6. \A b \in Actors : /\ (Busy(b) => b = a) /\ (Busy(b)' => b = a)
                        /\ actor[b].step \notin {"grant", "refund", "adjust"}
                        /\ actor'[b].step \notin {"grant", "refund", "record"}
  BY <1>1, <1>3 DEF OneAtATime, Busy, At
<1>7. OneAtATime'
  BY <1>1, <1>6 DEF OneAtATime, Busy
<1>8. MarkFirst'
  BY <1>1, <1>6 DEF MarkFirst, At
<1>9. RefundComing'
  BY <1>1, <1>6 DEF RefundComing, At
<1>10. AdjustComing'
  <2> SUFFICES ASSUME crashes = 0, NEW k \in Jobs, status[k] = "succeeded"
               PROVE  Settled(k)' \/ (recorded'[k] /\ At(a, "adjust", k)')
    BY <1>1 DEF AdjustComing
  <2>1. CASE k = j
    BY <1>1, <1>3, <1>4, <2>1 DEF Settled, Adjusted
  <2>2. CASE k # j
    <3>1. \A b \in Actors : ~At(b, "record", k) /\ ~At(b, "adjust", k)
      BY <1>1, <1>6, <2>2 DEF At, Busy
    <3>2. QED
      BY <1>1, <1>4, <2>2, <3>1 DEF AdjustComing, Settled, Adjusted
  <2>3. QED
    BY <2>1, <2>2
<1>11. QED
  BY <1>3, <1>5, <1>7, <1>8, <1>9, <1>10

\* The difference to the estimate is charged or given back.
LEMMA AdjustStep ==
    ASSUME JobsInv, NEW a \in Actors, NEW j \in Jobs, Adjust(a, j)
    PROVE  JobsInv'
<1> USE DEF JobsInv, TypeInv
<1>1. /\ actor[a].step = "adjust" /\ Continue(a, "") /\ UNCHANGED <<world, rows>>
  BY DEF Adjust
<1>2. /\ actor' \in [Actors -> {Idle} \union Polls] /\ HasWork'
      /\ \A b \in Actors : b # a => actor'[b] = actor[b]
      /\ actor'[a].step \in {"idle", "ask"}
  BY <1>1, ContinueFacts
<1>3. UNCHANGED <<submit, upstream, aged, created, crashes, status, refunded, recorded>>
  BY <1>1 DEF world, rows
<1>4. /\ usage' \in [Jobs -> SUBSET {"job", "adj"}]
      /\ refunds' \in [Jobs -> [{"failure", "adjust"} -> Nat]]
      /\ \A k \in Jobs : refunds'[k]["failure"] = refunds[k]["failure"]
      /\ \A k \in Jobs : k # j => refunds'[k] = refunds[k] /\ usage'[k] = usage[k]
      /\ Adjusted(j)'
  <2>1. CASE Delta[j] = "more"
    <3>1. usage' = [usage EXCEPT ![j] = @ \union {"adj"}] /\ UNCHANGED refunds
      BY <2>1 DEF Adjust
    <3>2. QED
      BY <2>1, <3>1 DEF TypeOK, Adjusted
  <2>2. CASE Delta[j] = "less"
    <3>1. refunds' = [refunds EXCEPT ![j]["adjust"] = @ + 1] /\ UNCHANGED usage
      BY <2>2 DEF Adjust
    <3>2. refunds[j] \in [{"failure", "adjust"} -> Nat] /\ refunds[j]["adjust"] + 1 > 0
      BY DEF TypeOK
    <3>3. QED
      BY <2>2, <3>1, <3>2 DEF TypeOK, Adjusted
  <2>3. QED
    BY <2>1, <2>2 DEF Adjust
<1>5. TypeOK'
  BY <1>2, <1>3, <1>4 DEF TypeOK
<1>6. \A b \in Actors : ~Busy(b)' /\ (Busy(b) => b = a)
  BY <1>1, <1>2 DEF OneAtATime, Busy
<1>7. OneAtATime'
  BY <1>6 DEF OneAtATime
<1>8. MarkFirst'
  BY <1>3, <1>4, <1>6 DEF MarkFirst, At, Busy
<1>9. \A b \in Actors : actor[b].step \notin {"refund", "grant"}
  BY <1>1, <1>6 DEF Busy
<1>10. RefundComing'
  BY <1>3, <1>4, <1>9 DEF RefundComing, At
<1>11. AdjustComing'
  <2> SUFFICES ASSUME crashes = 0, NEW k \in Jobs, status[k] = "succeeded"
               PROVE  Settled(k)'
    BY <1>3 DEF AdjustComing
  <2>1. CASE k = j
    <3>1. \A b \in Actors : ~At(b, "record", k)
      BY <1>1, <1>6 DEF At, Busy
    <3>2. Delta[k] # "fixed" => recorded[k]
      BY <3>1 DEF AdjustComing, Settled
    <3>3. QED
      BY <1>3, <1>4, <2>1, <3>2 DEF Settled
  <2>2. CASE k # j
    <3>1. \A b \in Actors : ~At(b, "adjust", k) /\ ~At(b, "record", k)
      BY <1>1, <1>6, <2>2 DEF Adjust, At, Busy
    <3>2. QED
      BY <1>3, <1>4, <2>2, <3>1 DEF AdjustComing, Settled, Adjusted
  <2>3. QED
    BY <2>1, <2>2
<1>12. QED
  BY <1>2, <1>5, <1>7, <1>8, <1>10, <1>11

\* The mark: who finds it already set has nothing to pay.
LEMMA MarkRefundedStep ==
    ASSUME JobsInv, NEW a \in Actors, NEW j \in Jobs, MarkRefunded(a, j)
    PROVE  JobsInv'
<1> USE DEF JobsInv, TypeInv
<1> DEFINE step == IF refunded[j] THEN "" ELSE "grant"
<1>1. /\ actor[a].step = "refund" /\ Head(actor[a].todo) = j /\ Continue(a, step)
      /\ refunded' = [refunded EXCEPT ![j] = TRUE]
      /\ UNCHANGED <<submit, upstream, aged, created, crashes, status, recorded, usage, refunds>>
  BY DEF MarkRefunded, world, ledger
<1>2. step \in {"", "grant"} /\ (step = "" <=> refunded[j])
  OBVIOUS
<1> HIDE DEF step
<1>3. /\ actor' \in [Actors -> {Idle} \union Polls] /\ HasWork'
      /\ \A b \in Actors : b # a => actor'[b] = actor[b]
      /\ refunded[j] => actor'[a].step \in {"idle", "ask"}
      /\ ~refunded[j] => At(a, "grant", j)'
  BY <1>1, <1>2, ContinueFacts DEF At
<1>4. /\ refunded' \in [Jobs -> BOOLEAN]
      /\ refunded'[j] /\ \A k \in Jobs : k # j => refunded'[k] = refunded[k]
  BY <1>1 DEF TypeOK
<1>5. TypeOK'
  BY <1>1, <1>3, <1>4 DEF TypeOK
<1>6. \A b \in Actors : (Busy(b) => b = a) /\ (Busy(b)' => b = a) /\ actor[b].step \notin {"grant", "adjust", "record"}
  BY <1>1, <1>3 DEF OneAtATime, Busy
<1>7. OneAtATime'
  BY <1>1, <1>6 DEF OneAtATime, Busy
<1>8. MarkFirst'
  <2> SUFFICES ASSUME NEW k \in Jobs
               PROVE  /\ refunds[k]["failure"] <= 1
                      /\ refunds[k]["failure"] = 1 => refunded'[k]
                      /\ \A b \in Actors : At(b, "grant", k)' => refunded'[k] /\ refunds[k]["failure"] = 0
    BY <1>1 DEF MarkFirst
  <2>1. refunds[k]["failure"] <= 1 /\ (refunds[k]["failure"] = 1 => refunded[k])
    BY DEF MarkFirst
  <2>2. refunds[k]["failure"] \in Nat
    BY DEF TypeOK
  <2>3. ASSUME NEW b \in Actors, At(b, "grant", k)'
        PROVE  k = j /\ ~refunded[j]
    BY <1>1, <1>2, <1>3, <1>6, <2>3, ContinueFacts DEF At, Busy
  <2>4. QED
    BY <1>4, <2>1, <2>2, <2>3
<1>9. RefundComing'
  <2> SUFFICES ASSUME crashes = 0, NEW k \in Jobs
               PROVE  /\ status[k] = "failed" =>
                           refunds[k]["failure"] = 1 \/ At(a, "grant", k)'
                      /\ refunded'[k] => refunds[k]["failure"] = 1 \/ At(a, "grant", k)'
    BY <1>1 DEF RefundComing
  <2>1. refunded[k] => refunds[k]["failure"] = 1
    BY <1>6 DEF RefundComing, At
  <2>2. CASE k = j
    BY <1>3, <2>1, <2>2
  <2>3. CASE k # j
    <3>1. \A b \in Actors : ~At(b, "refund", k) /\ ~At(b, "grant", k)
      BY <1>1, <1>6, <2>3 DEF At, Busy
    <3>2. QED
      BY <1>4, <2>1, <2>3, <3>1 DEF RefundComing
  <2>4. QED
    BY <2>2, <2>3
<1>10. AdjustComing'
  <2>1. \A b \in Actors, k \in Jobs : ~At(b, "adjust", k) /\ ~At(b, "record", k)
    BY <1>6 DEF At
  <2>2. QED
    BY <1>1, <2>1 DEF AdjustComing, Settled, Adjusted
<1>11. QED
  BY <1>3, <1>5, <1>7, <1>8, <1>9, <1>10

\* The refund is paid by the poll that has set the mark.
LEMMA GrantRefundStep ==
    ASSUME JobsInv, NEW a \in Actors, NEW j \in Jobs, GrantRefund(a, j)
    PROVE  JobsInv'
<1> USE DEF JobsInv, TypeInv
<1>1. /\ actor[a].step = "grant" /\ At(a, "grant", j) /\ Continue(a, "")
      /\ refunds' = [refunds EXCEPT ![j]["failure"] = @ + 1]
      /\ UNCHANGED <<submit, upstream, aged, created, crashes, status, refunded, recorded, usage>>
  BY DEF GrantRefund, At, world, rows
<1>2. /\ actor' \in [Actors -> {Idle} \union Polls] /\ HasWork'
      /\ \A b \in Actors : b # a => actor'[b] = actor[b]
      /\ actor'[a].step \in {"idle", "ask"}
  BY <1>1, ContinueFacts
<1>3. /\ refunds[j]["failure"] = 0 /\ refunded[j]
      /\ refunds[j] \in [{"failure", "adjust"} -> Nat]
  BY <1>1 DEF MarkFirst, TypeOK
<1>4. /\ refunds' \in [Jobs -> [{"failure", "adjust"} -> Nat]]
      /\ refunds'[j]["failure"] = 1
      /\ \A k \in Jobs : refunds'[k]["adjust"] = refunds[k]["adjust"]
      /\ \A k \in Jobs : k # j => refunds'[k] = refunds[k]
  <2> DEFINE paid == [refunds[j] EXCEPT !["failure"] = @ + 1]
  <2>1. /\ paid \in [{"failure", "adjust"} -> Nat]
        /\ paid["failure"] = 1 /\ paid["adjust"] = refunds[j]["adjust"]
    BY <1>3
  <2>2. refunds' = [refunds EXCEPT ![j] = paid]
    BY <1>1
  <2> HIDE DEF paid
  <2>3. QED
    BY <2>1, <2>2 DEF TypeOK
<1>5. TypeOK'
  BY <1>1, <1>2, <1>4 DEF TypeOK
<1>6. \A b \in Actors : ~Busy(b)' /\ (Busy(b) => b = a) /\ actor[b].step \notin {"record", "adjust", "refund"}
  BY <1>1, <1>2 DEF OneAtATime, Busy
<1>7. OneAtATime'
  BY <1>6 DEF OneAtATime
<1>8. MarkFirst'
  <2>1. \A b \in Actors, k \in Jobs : ~At(b, "grant", k)'
    BY <1>6 DEF At, Busy
  <2>2. \A k \in Jobs : refunds'[k]["failure"] <= 1 /\ (refunds'[k]["failure"] = 1 => refunded[k])
    BY <1>3, <1>4 DEF MarkFirst
  <2>3. QED
    BY <1>1, <2>1, <2>2 DEF MarkFirst
<1>9. RefundComing'
  <2> SUFFICES ASSUME crashes = 0, NEW k \in Jobs, status[k] = "failed" \/ refunded[k]
               PROVE  refunds'[k]["failure"] = 1
    BY <1>1 DEF RefundComing
  <2>1. CASE k = j
    BY <1>4, <2>1
  <2>2. CASE k # j
    <3>1. \A b \in Actors : ~At(b, "refund", k) /\ ~At(b, "grant", k)
      BY <1>1, <1>6, <2>2 DEF At, Busy
    <3>2. QED
      BY <1>4, <2>2, <3>1 DEF RefundComing
  <2>3. QED
    BY <2>1, <2>2
<1>10. AdjustComing'
  <2>1. \A b \in Actors, k \in Jobs : ~At(b, "adjust", k) /\ ~At(b, "record", k)
    BY <1>6 DEF At
  <2>2. QED
    BY <1>1, <1>4, <2>1 DEF AdjustComing, Settled, Adjusted
<1>11. QED
  BY <1>2, <1>5, <1>7, <1>8, <1>9, <1>10

\* The process dies: no poll is left, and from here on a refund may be lost.
LEMMA CrashStep ==
    ASSUME JobsInv, Crash
    PROVE  JobsInv'
<1> USE DEF JobsInv, TypeInv
<1>1. /\ crashes' = crashes + 1 /\ crashes < MaxCrashes
      /\ actor' = [b \in Actors |-> Idle]
      /\ submit' = [j \in Jobs |-> IF submit[j] = "new" THEN "new" ELSE "over"]
      /\ UNCHANGED <<upstream, aged, created, status, refunded, recorded, usage, refunds>>
  BY DEF Crash, rows, ledger
<1>2. crashes' \in 1..MaxCrashes
  BY <1>1, BatchAssumption DEF TypeOK
<1>3. TypeOK' /\ HasWork'
  BY <1>1, <1>2 DEF TypeOK, HasWork, Idle
<1>4. OneAtATime' /\ MarkFirst'
  BY <1>1 DEF OneAtATime, MarkFirst, Busy, At, Idle
<1>5. RefundComing' /\ AdjustComing'
  BY <1>2 DEF RefundComing, AdjustComing
<1>6. QED
  BY <1>3, <1>4, <1>5

\* The invariant is inductive.
LEMMA JobsInvStep == JobsInv /\ [Next]_vars => JobsInv'
<1> SUFFICES ASSUME JobsInv, [Next]_vars
             PROVE  JobsInv'
  OBVIOUS
<1>1. CASE UNCHANGED vars
  BY <1>1
     DEF vars, JobsInv, TypeInv, TypeOK, HasWork, OneAtATime, MarkFirst, RefundComing,
         AdjustComing, Settled, Adjusted, Busy, At
<1>2. ASSUME NEW j \in Jobs, Accept(j) \/ Charge(j) \/ Store(j) \/ Finish(j) \/ Age(j)
      PROVE  JobsInv'
  BY <1>2, WorldStep
<1>3. ASSUME NEW a \in Clients, NEW j \in Jobs, Poll(a, j)
      PROVE  JobsInv'
  <2>1. a \in Actors /\ <<j>> \in Seq(Jobs)
    BY DEF Actors
  <2>2. QED
    BY <1>3, <2>1, StartStep DEF Poll
<1>4. CASE Tick
  BY <1>4, TickStep
<1>5. ASSUME NEW a \in Actors, Ask(a)
      PROVE  JobsInv'
  BY <1>5, AskStep
<1>6. ASSUME NEW a \in Actors, Settle(a)
      PROVE  JobsInv'
  BY <1>6, StillRunningStep, LandStep, RecordStep, AdjustStep, MarkRefundedStep, GrantRefundStep DEF Settle
<1>7. CASE Crash
  BY <1>7, CrashStep
<1>8. QED
  BY <1>1, <1>2, <1>3, <1>4, <1>5, <1>6, <1>7 DEF Next

\* The invariant holds in every reachable state.
LEMMA JobsInvAlways == Spec => []JobsInv
BY JobsInvInit, JobsInvStep, PTL DEF Spec

\* Every reachable state is well-typed: polls in flight, rows, usage log and
\* grants (media.py:475-816).
THEOREM TypeCorrect == Spec => []TypeOK
<1>1. JobsInv => TypeOK
  BY DEF JobsInv, TypeInv
<1>2. QED
  BY <1>1, JobsInvAlways, PTL

\* _refund_once: however many polls give up on a job, on however stale a row,
\* and whenever the process dies, the estimate is paid back at most once.
THEOREM NeverRefundedTwice == Spec => []RefundedAtMostOnce
<1>1. JobsInv => RefundedAtMostOnce
  BY DEF JobsInv, MarkFirst, RefundedAtMostOnce
<1>2. QED
  BY <1>1, JobsInvAlways, PTL

\* As long as the process has not died, a failed job is refunded as soon as no
\* handler is between two of its transactions.
THEOREM FailuresArePaidBack == Spec => []FailedIsRefunded
<1>1. JobsInv => FailedIsRefunded
  BY DEF JobsInv, RefundComing, FailedIsRefunded, LoopFree, At
<1>2. QED
  BY <1>1, JobsInvAlways, PTL

-----------------------------------------------------------------------------
\* Time is up for the job, or the upstream has given it up.
Doomed(j) == aged[j] \/ upstream[j] = "failed"

\* What polls say and rows hold about the end of a job is what the upstream has
\* said, and nobody pays a job back that is not doomed.
HonestInv ==
    /\ \A a \in Actors : actor[a].step \notin {"idle", "ask"} /\ actor[a].answer \in Terminal =>
                           upstream[Head(actor[a].todo)] = actor[a].answer
    /\ \A j \in Jobs : status[j] = "succeeded" => upstream[j] = "succeeded"
    /\ \A j \in Jobs : refunds[j]["failure"] > 0 => Doomed(j)
    /\ \A a \in Actors, j \in Jobs : At(a, "refund", j) \/ At(a, "grant", j) => Doomed(j)

LEMMA HonestInvInit == Init => HonestInv
BY DEF Init, HonestInv, Idle, At

\* What Continue does to what a poll remembers of the upstream's word.
LEMMA ContinueRemembers ==
    ASSUME TypeInv, NEW a \in Actors, actor[a].step # "idle",
           NEW step \in {"", "record", "adjust", "refund", "grant"}, Continue(a, step)
    PROVE  step # "" => actor'[a].answer = actor[a].answer
<1>1. actor[a] \in Polls /\ actor \in [Actors -> {Idle} \union Polls]
  BY AtWork DEF TypeInv, TypeOK
<1>2. QED
  BY <1>1 DEF Continue, Polls

\* Every step keeps the upstream's word: it is given once and for all.
LEMMA HonestInvStep == TypeInv /\ HonestInv /\ [Next]_vars => HonestInv'
<1> SUFFICES ASSUME TypeInv, HonestInv, [Next]_vars PROVE HonestInv'
  OBVIOUS
<1>1. CASE UNCHANGED vars
  BY <1>1 DEF vars, HonestInv, Doomed, At
<1>2. ASSUME NEW j \in Jobs, Accept(j) \/ Charge(j) \/ Store(j) \/ Finish(j) \/ Age(j)
      PROVE  HonestInv'
  <2>1. /\ UNCHANGED <<actor, refunds>>
        /\ \A k \in Jobs : status'[k] = status[k] \/ status'[k] = "processing"
        /\ \A k \in Jobs : upstream'[k] = upstream[k] \/ upstream[k] = "running"
        /\ \A k \in Jobs : aged[k] => aged'[k]
    <3>1. CASE Accept(j) \/ Charge(j)
      BY <3>1 DEF Accept, Charge, rows, ledger
    <3>2. CASE Store(j)
      BY <3>2 DEF Store, ledger, TypeInv, TypeOK
    <3>3. CASE Finish(j)
      BY <3>3 DEF Finish, rows, ledger, TypeInv, TypeOK
    <3>4. CASE Age(j)
      BY <3>4 DEF Age, rows, ledger, TypeInv, TypeOK
    <3>5. QED
      BY <1>2, <3>1, <3>2, <3>3, <3>4
  <2>2. \A k \in Jobs : Doomed(k) => Doomed(k)'
    BY <2>1 DEF Doomed
  <2>3. \A a \in Actors : actor[a].step # "idle" => Head(actor[a].todo) \in Jobs
    BY AtWork
  <2>4. QED
    BY <2>1, <2>2, <2>3 DEF HonestInv, At, Terminal
<1>3. ASSUME NEW a \in Actors, NEW todo, Start(a, todo)
      PROVE  HonestInv'
  <2>1. /\ UNCHANGED <<upstream, aged, status, refunds>>
        /\ \A b \in Actors : b # a => actor'[b] = actor[b]
        /\ actor'[a].step = "ask"
    BY <1>3 DEF Start, world, rows, ledger, TypeInv, TypeOK
  <2>2. QED
    BY <2>1 DEF HonestInv, Doomed, At
<1>4. ASSUME NEW a \in Actors, Ask(a)
      PROVE  HonestInv'
  <2>1. /\ actor[a] \in Polls /\ actor[a].step = "ask" /\ Head(actor[a].todo) \in Jobs
        /\ actor \in [Actors -> {Idle} \union Polls]
    BY <1>4, AtWork DEF Ask, TypeInv, TypeOK
  <2>2. PICK answer \in {upstream[Head(actor[a].todo)], "running"} :
          actor' = [actor EXCEPT ![a].step = "answered",
                                 ![a].answer = IF answer = "running" THEN "processing" ELSE answer]
    BY <1>4 DEF Ask, Reading
  <2>3. /\ UNCHANGED <<upstream, aged, status, refunds>>
        /\ \A b \in Actors : b # a => actor'[b] = actor[b]
        /\ actor'[a].step = "answered" /\ actor'[a].todo = actor[a].todo
        /\ actor'[a].answer \in Terminal => upstream[Head(actor[a].todo)] = actor'[a].answer
    BY <1>4, <2>1, <2>2 DEF Ask, world, rows, ledger, Terminal, Polls
  <2>4. QED
    BY <2>3 DEF HonestInv, Doomed, At
<1>5. ASSUME NEW a \in Actors, NEW j \in Jobs, NEW step \in {"", "record", "adjust", "refund", "grant"},
             Continue(a, step), j = Head(actor[a].todo), actor[a].step \notin {"idle", "ask"},
             UNCHANGED <<upstream, aged>>,
             \A k \in Jobs : status'[k] = "succeeded" => status[k] = "succeeded" \/ upstream[k] = "succeeded",
             \A k \in Jobs : refunds'[k]["failure"] > 0 => refunds[k]["failure"] > 0 \/ Doomed(k),
             step \in {"refund", "grant"} => Doomed(j)
      PROVE  HonestInv'
  <2>1. /\ \A b \in Actors : b # a => actor'[b] = actor[b]
        /\ step = "" => actor'[a].step \in {"idle", "ask"}
        /\ step # "" => /\ actor'[a].step = step /\ actor'[a].todo = actor[a].todo
                         /\ actor'[a].answer = actor[a].answer
    BY <1>5, ContinueFacts, ContinueRemembers
  <2>2. \A k \in Jobs : Doomed(k)' <=> Doomed(k)
    BY <1>5 DEF Doomed
  <2>3. QED
    BY <1>5, <2>1, <2>2 DEF HonestInv, At
<1>6. ASSUME NEW a \in Actors, NEW j \in Jobs, LandSuccess(a, j) \/ LandFailure(a, j)
      PROVE  HonestInv'
  <2>1. /\ actor[a].step = "answered" /\ j = Head(actor[a].todo)
        /\ UNCHANGED <<upstream, aged, refunds>>
    BY <1>6 DEF LandSuccess, LandFailure, Answered, world, ledger
  <2>2. CASE LandSuccess(a, j)
    <3>1. upstream[j] = "succeeded"
      BY <2>1, <2>2 DEF LandSuccess, Answered, HonestInv, Terminal
    <3>2. \A k \in Jobs : k # j => status'[k] = status[k]
      BY <2>2 DEF LandSuccess, TypeInv, TypeOK
    <3>3. PICK step \in {"", "record"} : Continue(a, step)
      BY <2>2 DEF LandSuccess
    <3>4. QED
      BY <1>5, <2>1, <3>1, <3>2, <3>3
  <2>3. CASE LandFailure(a, j)
    <3>1. Doomed(j)
      BY <2>1, <2>3 DEF LandFailure, Answered, HonestInv, Terminal, Doomed
    <3>2. \A k \in Jobs : status'[k] = status[k] \/ status'[k] = "failed"
      BY <2>3 DEF LandFailure, TypeInv, TypeOK
    <3>3. Continue(a, "refund")
      BY <2>3 DEF LandFailure
    <3>4. QED
      BY <1>5, <2>1, <3>1, <3>2, <3>3
  <2>4. QED
    BY <1>6, <2>2, <2>3
<1>7. ASSUME NEW a \in Actors, NEW j \in Jobs,
             StillRunning(a, j) \/ Record(a, j) \/ Adjust(a, j)
      PROVE  HonestInv'
  <2>1. /\ actor[a].step \notin {"idle", "ask"} /\ j = Head(actor[a].todo)
        /\ UNCHANGED <<upstream, aged, status>>
    BY <1>7 DEF StillRunning, Answered, Record, Adjust, world, rows
  <2>2. PICK step \in {"", "adjust"} : Continue(a, step)
    BY <1>7 DEF StillRunning, Record, Adjust
  <2>3. \A k \in Jobs : refunds'[k]["failure"] = refunds[k]["failure"]
    <3>1. refunds' = refunds \/ refunds' = [refunds EXCEPT ![j]["adjust"] = @ + 1]
      BY <1>7 DEF StillRunning, Record, Adjust, ledger
    <3>2. refunds \in [Jobs -> [{"failure", "adjust"} -> Nat]]
      BY DEF TypeInv, TypeOK
    <3>3. QED
      BY <3>1, <3>2
  <2>4. QED
    BY <1>5, <2>1, <2>2, <2>3
<1>8. ASSUME NEW a \in Actors, NEW j \in Jobs, MarkRefunded(a, j) \/ GrantRefund(a, j)
      PROVE  HonestInv'
  <2>1. /\ actor[a].step \in {"refund", "grant"} /\ j = Head(actor[a].todo)
        /\ UNCHANGED <<upstream, aged, status>>
    BY <1>8 DEF MarkRefunded, GrantRefund, world, rows
  <2>2. Doomed(j)
    BY <2>1 DEF HonestInv, At
  <2>3. PICK step \in {"", "grant"} : Continue(a, step)
    BY <1>8 DEF MarkRefunded, GrantRefund
  <2>4. \A k \in Jobs : k # j => refunds'[k] = refunds[k]
    BY <1>8 DEF MarkRefunded, GrantRefund, ledger, TypeInv, TypeOK
  <2>5. QED
    BY <1>5, <2>1, <2>2, <2>3, <2>4
<1>9. CASE Crash
  <2>1. /\ actor' = [b \in Actors |-> Idle]
        /\ UNCHANGED <<upstream, aged, status, refunds>>
    BY <1>9 DEF Crash, rows, ledger
  <2>2. QED
    BY <2>1 DEF HonestInv, Doomed, At, Idle
<1>10. CASE \E a \in Clients, j \in Jobs : Poll(a, j)
  BY <1>3, <1>10 DEF Poll, Actors
<1>11. CASE Tick
  BY <1>3, <1>11 DEF Tick, Actors
<1>12. CASE \E a \in Actors : Settle(a)
  BY <1>6, <1>7, <1>8, <1>12 DEF Settle
<1>13. QED
  BY <1>1, <1>2, <1>4, <1>9, <1>10, <1>11, <1>12 DEF Next

\* A job that ended well is paid for: its row and the ledger agree on the real
\* cost as long as the process has not died, and its price is given back only
\* if time had run out on it before a poll brought the success.
THEOREM SuccessesArePaidFor == Spec => []SuccessIsPaidFor
<1>1. JobsInv /\ HonestInv => SuccessIsPaidFor
  <2> SUFFICES ASSUME JobsInv, HonestInv, NEW j \in Jobs, status[j] = "succeeded", LoopFree
               PROVE  /\ crashes = 0 => Settled(j)
                      /\ refunds[j]["failure"] > 0 => aged[j]
    BY DEF SuccessIsPaidFor, Settled, Adjusted
  <2>1. crashes = 0 => Settled(j)
    BY DEF JobsInv, AdjustComing, LoopFree, At
  <2>2. refunds[j]["failure"] > 0 => aged[j]
    BY DEF HonestInv, Doomed
  <2>3. QED
    BY <2>1, <2>2
<1>2. JobsInv /\ HonestInv /\ [Next]_vars => HonestInv'
  BY HonestInvStep DEF JobsInv
<1>3. QED
  BY <1>1, <1>2, HonestInvInit, JobsInvAlways, PTL DEF Spec

-----------------------------------------------------------------------------
(* Film.                                                                    *)

CONSTANTS Hands, Shots, UploadTries, PollGiveUp, MaxPaid
VARIABLES clip, pic, film, call, bill, told, outlay, progress, page, adrift, misled
Movie == INSTANCE Film WITH paid <- outlay

Placed   == Hands \X Shots
FilmJobs     == [step : Movie!Steps \union {"idle"}, shot : Shots \union {"no shot"}, tries : Int, fails : Int]
Answers  == {"nothing", "free", "maybe", "wait", "there"}
Bills    == {"none", "working", "made", "failed", "fetched"}
Shooting == {"upload", "submit", "poll", "download", "write"}

FilmTypes ==
    /\ call \in [Hands -> FilmJobs] /\ bill \in [Placed -> Bills] /\ told \in [Placed -> Answers]
    /\ \A h \in Hands : call[h].step # "idle" => call[h].shot \in Shots

\* The member waits for the very film of its order.
Fetching(h, s) == call[h].step \in {"poll", "download", "write"} /\ call[h].shot = s

\* An order that is being made, or whose film waits, is one that the member waits
\* for, or one it has been told not to repeat, or one that was hidden from it or
\* forgotten; and what it shoots it was not told to leave.
FilmInv ==
    /\ FilmTypes
    /\ \A h \in Hands, s \in Shots :
          bill[<<h, s>>] \in {"working", "made"} =>
              Fetching(h, s) \/ told[<<h, s>>] \in {"maybe", "wait"} \/ <<h, s>> \in misled
    /\ \A h \in Hands :
          call[h].step \in Shooting => told[<<h, call[h].shot>>] \notin {"maybe", "wait"}

\* Of the other orders nothing is hidden, and nothing comes out.
LeavesOthers(h, s) == \A k \in Placed \ {<<h, s>>} : k \in misled' <=> k \in misled

\* Nothing is ordered yet.
LEMMA FilmBegins == Movie!Init => FilmInv
<1>1. SUFFICES ASSUME Movie!Init PROVE FilmInv
  OBVIOUS
<1>2. Movie!Idle \in FilmJobs /\ Movie!Idle.step = "idle"
  BY DEF Movie!Idle, FilmJobs
<1>3. FilmTypes
  BY <1>1, <1>2 DEF Movie!Init, Movie!Keys, FilmTypes, Placed, Bills, Answers
<1>4. QED
  BY <1>1, <1>2, <1>3 DEF Movie!Init, Movie!Keys, FilmInv, Shooting, Placed

\* One member goes on with one shot: whatever else it has ordered and been told
\* stays, and so for the others.
LEMMA OneShot ==
    ASSUME FilmInv, NEW h \in Hands, NEW s \in Shots, NEW job \in FilmJobs, NEW b \in Bills, NEW a \in Answers,
           call' = [call EXCEPT ![h] = job], bill' = [bill EXCEPT ![<<h, s>>] = b],
           told' = [told EXCEPT ![<<h, s>>] = a],
           call[h].step = "idle" \/ call[h].shot = s,
           job.step # "idle" => job.shot = s, LeavesOthers(h, s),
           b \in {"working", "made"} =>
               \/ job.step \in {"poll", "download", "write"} \/ a \in {"maybe", "wait"}
               \/ <<h, s>> \in misled',
           job.step \in Shooting => a \notin {"maybe", "wait"}
    PROVE  FilmInv'
<1>1. <<h, s>> \in Placed
  BY DEF Placed
<1>2. /\ call' \in [Hands -> FilmJobs] /\ bill' \in [Placed -> Bills] /\ told' \in [Placed -> Answers]
      /\ call'[h] = job /\ bill'[<<h, s>>] = b /\ told'[<<h, s>>] = a
      /\ \A g \in Hands \ {h} : call'[g] = call[g]
      /\ \A k \in Placed \ {<<h, s>>} : bill'[k] = bill[k] /\ told'[k] = told[k]
  BY <1>1 DEF FilmInv, FilmTypes
<1>3. FilmTypes'
  BY <1>2 DEF FilmInv, FilmTypes
<1>4. ASSUME NEW g \in Hands, NEW t \in Shots, bill'[<<g, t>>] \in {"working", "made"}
      PROVE  Fetching(g, t)' \/ told'[<<g, t>>] \in {"maybe", "wait"} \/ <<g, t>> \in misled'
  <2>1. CASE g = h /\ t = s
    BY <1>2, <1>4, <2>1 DEF Fetching
  <2>2. CASE g # h \/ t # s
    <3>1. <<g, t>> \in Placed \ {<<h, s>>}
      BY <2>2 DEF Placed
    <3>2. Fetching(g, t) \/ told[<<g, t>>] \in {"maybe", "wait"} \/ <<g, t>> \in misled
      BY <1>2, <1>4, <3>1 DEF FilmInv
    <3>3. Fetching(g, t) => Fetching(g, t)'
      BY <1>2, <2>2 DEF Fetching
    <3>4. QED
      BY <1>2, <3>1, <3>2, <3>3 DEF LeavesOthers
  <2>3. QED
    BY <2>1, <2>2
<1>5. ASSUME NEW g \in Hands, call'[g].step \in Shooting
      PROVE  told'[<<g, call'[g].shot>>] \notin {"maybe", "wait"}
  <2>1. CASE g = h
    BY <1>2, <1>5, <2>1 DEF Shooting
  <2>2. CASE g # h
    <3>1. call'[g] = call[g] /\ call[g].shot \in Shots
      BY <1>2, <1>5, <2>2 DEF FilmInv, FilmTypes, Shooting
    <3>2. <<g, call[g].shot>> \in Placed \ {<<h, s>>}
      BY <2>2, <3>1 DEF Placed
    <3>3. QED
      BY <1>2, <1>5, <3>1, <3>2 DEF FilmInv
  <2>3. QED
    BY <2>1, <2>2
<1>6. QED
  BY <1>3, <1>4, <1>5 DEF FilmInv

\* What a member has ordered and been told of a shot.
LEMMA ShotIs ==
    ASSUME FilmInv, NEW h \in Hands, NEW s \in Shots
    PROVE  /\ call[h] \in FilmJobs /\ bill[<<h, s>>] \in Bills /\ told[<<h, s>>] \in Answers
           /\ call = [call EXCEPT ![h] = call[h]]
           /\ bill = [bill EXCEPT ![<<h, s>>] = bill[<<h, s>>]]
           /\ told = [told EXCEPT ![<<h, s>>] = told[<<h, s>>]]
BY DEF FilmInv, FilmTypes, Placed

\* The record of a call that goes on.
LEMMA JobIs ==
    ASSUME NEW step \in Movie!Steps, NEW job \in FilmJobs
    PROVE  /\ [job EXCEPT !.step = step, !.fails = 0] \in FilmJobs
           /\ [job EXCEPT !.step = step, !.fails = 0].step = step
           /\ [job EXCEPT !.step = step, !.fails = 0].shot = job.shot
<1>1. step \in Movie!Steps \union {"idle"} /\ 0 \in Int
  OBVIOUS
<1>2. ASSUME NEW n \in Int
      PROVE  /\ [job EXCEPT !.step = step, !.fails = n] \in FilmJobs
             /\ [job EXCEPT !.step = step, !.fails = n].step = step
             /\ [job EXCEPT !.step = step, !.fails = n].shot = job.shot
  BY <1>1, <1>2 DEF FilmJobs
<1>3. QED
  BY <1>1, <1>2

LEMMA TriesIs ==
    ASSUME NEW job \in FilmJobs
    PROVE  /\ [job EXCEPT !.fails = job.fails + 1] \in FilmJobs
           /\ [job EXCEPT !.fails = job.fails + 1].step = job.step
           /\ [job EXCEPT !.fails = job.fails + 1].shot = job.shot
           /\ [job EXCEPT !.tries = job.tries + 1] \in FilmJobs
           /\ [job EXCEPT !.tries = job.tries + 1].step = job.step
           /\ [job EXCEPT !.tries = job.tries + 1].shot = job.shot
<1>1. job.fails + 1 \in Int /\ job.tries + 1 \in Int
  <2>1. job.fails \in Int /\ job.tries \in Int
    BY DEF FilmJobs
  <2>2. \A n \in Int : n + 1 \in Int
    OBVIOUS
  <2>3. QED
    BY <2>1, <2>2
<1>2. ASSUME NEW n \in Int
      PROVE  /\ [job EXCEPT !.fails = n] \in FilmJobs
             /\ [job EXCEPT !.fails = n].step = job.step
             /\ [job EXCEPT !.fails = n].shot = job.shot
  BY <1>2 DEF FilmJobs
<1>3. ASSUME NEW n \in Int
      PROVE  /\ [job EXCEPT !.tries = n] \in FilmJobs
             /\ [job EXCEPT !.tries = n].step = job.step
             /\ [job EXCEPT !.tries = n].shot = job.shot
  BY <1>3 DEF FilmJobs
<1>4. QED
  BY <1>1, <1>2, <1>3

LEMMA IdleIs == Movie!Idle \in FilmJobs /\ Movie!Idle.step = "idle"
BY DEF FilmJobs, Movie!Idle

LEMMA CallBegun ==
    ASSUME NEW way \in Movie!Steps, NEW s \in Shots
    PROVE  LET job == [Movie!Idle EXCEPT !.step = way, !.shot = s]
           IN  job \in FilmJobs /\ job.step = way /\ job.shot = s
BY IdleIs DEF FilmJobs

\* A member that is idle begins a call, is told of something, or works by itself.
LEMMA FilmIdle ==
    ASSUME FilmInv, NEW h \in Hands, NEW s \in Shots,
           \/ Movie!Draw(h, s) \/ Movie!Skip(h, s) \/ Movie!Look(h, s) \/ Movie!Fetch(h, s)
           \/ Movie!Remove(h, s) \/ \E step \in {"upload", "submit"} : Movie!Shoot(h, s, step)
    PROVE  FilmInv'
<1>1. /\ call[h] \in FilmJobs /\ bill[<<h, s>>] \in Bills /\ told[<<h, s>>] \in Answers
      /\ call = [call EXCEPT ![h] = call[h]]
      /\ bill = [bill EXCEPT ![<<h, s>>] = bill[<<h, s>>]]
      /\ told = [told EXCEPT ![<<h, s>>] = told[<<h, s>>]]
  BY ShotIs
<1>2. call[h] = Movie!Idle /\ call[h].step = "idle"
  <2>1. call[h] = Movie!Idle
    BY DEF Movie!Draw, Movie!Skip, Movie!Look, Movie!Fetch, Movie!Remove, Movie!Shoot
  <2>2. QED
    BY <2>1, IdleIs
<1>3. bill[<<h, s>>] \in {"working", "made"} => told[<<h, s>>] \in {"maybe", "wait"} \/ <<h, s>> \in misled
  BY <1>2 DEF FilmInv, Fetching
<1>4. ASSUME NEW way \in {"draw", "upload", "submit"}, Movie!Begin(h, s, way), UNCHANGED <<bill, told, misled>>,
             way = "draw" \/ told[<<h, s>>] \notin {"maybe", "wait"}
      PROVE  FilmInv'
  <2> DEFINE job == [Movie!Idle EXCEPT !.step = way, !.shot = s]
  <2>1. job \in FilmJobs /\ job.step = way /\ job.shot = s
    <3>1. way \in Movie!Steps
      BY <1>4 DEF Movie!Steps
    <3>2. QED
      BY <3>1, CallBegun
  <2>2. call' = [call EXCEPT ![h] = job]
    BY <1>4 DEF Movie!Begin
  <2> HIDE DEF job
  <2>3. /\ bill' = [bill EXCEPT ![<<h, s>>] = bill[<<h, s>>]]
        /\ told' = [told EXCEPT ![<<h, s>>] = told[<<h, s>>]]
        /\ job.step \in Shooting => told[<<h, s>>] \notin {"maybe", "wait"}
        /\ misled' = misled /\ LeavesOthers(h, s)
    BY <1>1, <1>4, <2>1 DEF Shooting, LeavesOthers
  <2>4. QED
    BY <1>1, <1>2, <1>3, <2>1, <2>2, <2>3, OneShot
<1>5. ASSUME NEW b \in Bills, NEW a \in Answers, UNCHANGED call,
             bill' = [bill EXCEPT ![<<h, s>>] = b], told' = [told EXCEPT ![<<h, s>>] = a],
             misled' = misled \/ misled' = misled \ {<<h, s>>},
             b \in {"working", "made"} => a \in {"maybe", "wait"} \/ <<h, s>> \in misled'
      PROVE  FilmInv'
  <2>1. /\ call' = [call EXCEPT ![h] = call[h]] /\ call[h].step \notin Shooting
        /\ LeavesOthers(h, s)
    BY <1>1, <1>2, <1>5 DEF Shooting, LeavesOthers
  <2>2. QED
    BY <1>1, <1>2, <1>5, <2>1, OneShot
<1>6. CASE Movie!Draw(h, s)
  BY <1>4, <1>6 DEF Movie!Draw, Movie!orders
<1>7. CASE \E step \in {"upload", "submit"} : Movie!Shoot(h, s, step)
  BY <1>4, <1>7 DEF Movie!Shoot, Movie!orders
<1>8. CASE Movie!Skip(h, s)
  <2>1. "there" \in Answers /\ told[<<h, s>>] \notin {"maybe", "wait"}
    BY <1>8 DEF Answers, Movie!Skip
  <2>2. QED
    BY <1>1, <1>3, <1>5, <1>8, <2>1 DEF Movie!Skip, Movie!orders
<1>9. CASE Movie!Look(h, s)
  <2> DEFINE a == IF Movie!IsOpen(<<h, s>>) THEN "wait" ELSE "free"
  <2>1. a \in Answers /\ (bill[<<h, s>>] \in {"working", "made"} => a \in {"maybe", "wait"})
    BY DEF Answers, Movie!IsOpen
  <2>2. /\ UNCHANGED <<call, bill>> /\ told' = [told EXCEPT ![<<h, s>>] = a]
        /\ misled' = misled \ {<<h, s>>}
    BY <1>9 DEF Movie!Look
  <2> HIDE DEF a
  <2>3. QED
    BY <1>1, <1>5, <2>1, <2>2
<1>10. CASE Movie!Fetch(h, s)
  <2>1. {"there", "free"} \subseteq Answers /\ "fetched" \in Bills
    BY DEF Answers, Bills
  <2>2. CASE bill[<<h, s>>] = "made"
    BY <1>1, <1>5, <1>10, <2>1, <2>2 DEF Movie!Fetch
  <2>3. CASE bill[<<h, s>>] # "made"
    <3>1. UNCHANGED <<call, bill>> /\ told' = [told EXCEPT ![<<h, s>>] = "free"] /\ bill[<<h, s>>] = "failed"
          /\ misled' = misled
      BY <1>10, <2>3 DEF Movie!Fetch
    <3>2. QED
      BY <1>1, <1>5, <2>1, <3>1
  <2>4. QED
    BY <2>2, <2>3
<1>11. CASE Movie!Remove(h, s)
  <2>1. "nothing" \in Answers
    BY DEF Answers
  <2>2. UNCHANGED <<call, bill>> /\ told' = [told EXCEPT ![<<h, s>>] = "nothing"] /\ told[<<h, s>>] = "there"
        /\ misled' = misled
    BY <1>11 DEF Movie!Remove, Movie!orders
  <2>3. QED
    BY <1>1, <1>3, <1>5, <2>1, <2>2
<1>12. QED
  BY <1>6, <1>7, <1>8, <1>9, <1>10, <1>11

\* A call ends with an answer, and the order has come to something.
LEMMA CallEnds ==
    ASSUME FilmInv, NEW h \in Hands, call[h].step # "idle", NEW a \in Answers,
           Movie!Ended(h), told' = [told EXCEPT ![<<h, call[h].shot>>] = a],
           NEW b \in Bills, bill' = [bill EXCEPT ![<<h, call[h].shot>>] = b],
           LeavesOthers(h, call[h].shot),
           b \in {"working", "made"} => a \in {"maybe", "wait"} \/ <<h, call[h].shot>> \in misled'
    PROVE  FilmInv'
<1>1. call[h].shot \in Shots /\ call[h] \in FilmJobs
  BY DEF FilmInv, FilmTypes
<1>2. Movie!Idle \in FilmJobs /\ Movie!Idle.step = "idle"
  BY DEF FilmJobs, Movie!Idle
<1>3. call' = [call EXCEPT ![h] = Movie!Idle]
  BY DEF Movie!Ended
<1>4. Movie!Idle.step \notin Shooting
  BY <1>2 DEF Shooting
<1>5. QED
  BY <1>1, <1>2, <1>3, <1>4, OneShot

\* It goes on, with the order as it is or with a new one.
LEMMA CallGoes ==
    ASSUME FilmInv, NEW h \in Hands, call[h].step \in Shooting, NEW job \in FilmJobs,
           call' = [call EXCEPT ![h] = job], job.shot = call[h].shot, job.step \in Shooting, UNCHANGED told,
           NEW b \in Bills, bill' = [bill EXCEPT ![<<h, call[h].shot>>] = b],
           LeavesOthers(h, call[h].shot),
           b \in {"working", "made"} =>
               job.step \in {"poll", "download", "write"} \/ <<h, call[h].shot>> \in misled'
    PROVE  FilmInv'
<1>1. call[h].shot \in Shots /\ told[<<h, call[h].shot>>] \notin {"maybe", "wait"}
  BY DEF FilmInv, FilmTypes, Shooting
<1>2. /\ told[<<h, call[h].shot>>] \in Answers
      /\ told' = [told EXCEPT ![<<h, call[h].shot>>] = told[<<h, call[h].shot>>]]
  BY <1>1, ShotIs
<1>3. QED
  BY <1>1, <1>2, OneShot

\* What a call's end or progress says of the orders that are hidden.
LEMMA OthersLeft ==
    ASSUME NEW h \in Hands,
           \/ misled' = misled \/ misled' = misled \union {<<h, call[h].shot>>}
           \/ misled' = misled \ {<<h, call[h].shot>>}
    PROVE  LeavesOthers(h, call[h].shot)
BY DEF LeavesOthers

\* A picture is drawn; an upload, an order, a poll, a download ends or goes on.
LEMMA FilmCalls ==
    ASSUME FilmInv, NEW h \in Hands, NEW ok \in BOOLEAN,
           \/ Movie!Drawn(h, ok) \/ Movie!PollFails(h, ok) \/ Movie!PollAnswers(h)
           \/ Movie!PollGarbled(h) \/ Movie!Download(h, ok)
           \/ \E answer \in {"ok", "transient", "no"} : Movie!Upload(h, answer)
           \/ \E answer \in {"refused", "hidden", "accepted", "broken", "unsent"} : Movie!Submit(h, answer)
           \/ \E what \in {"more", "end", "breaks"} : Movie!WriteClip(h, what)
    PROVE  FilmInv'
<1> DEFINE s == call[h].shot
<1>1. call[h] \in FilmJobs /\ (call[h].step # "idle" => s \in Shots)
  BY DEF FilmInv, FilmTypes
<1>2. {"free", "maybe", "wait", "there"} \subseteq Answers /\ Bills = {"none", "working", "made", "failed", "fetched"}
  BY DEF Answers, Bills
<1>3. ASSUME call[h].step # "idle"
      PROVE  /\ bill[<<h, s>>] \in Bills /\ told[<<h, s>>] \in Answers
             /\ bill = [bill EXCEPT ![<<h, s>>] = bill[<<h, s>>]]
             /\ told = [told EXCEPT ![<<h, s>>] = told[<<h, s>>]]
  BY <1>1, <1>3, ShotIs
<1>4. ASSUME call[h].step \in {"upload", "submit"}, bill[<<h, s>>] \in {"working", "made"}
      PROVE  <<h, s>> \in misled
  <2>1. s \in Shots /\ ~Fetching(h, s) /\ told[<<h, s>>] \notin {"maybe", "wait"}
    BY <1>1, <1>4 DEF FilmInv, Shooting, Fetching
  <2>2. QED
    BY <1>4, <2>1 DEF FilmInv
<1>5. ASSUME call[h].step \in Shooting, NEW step \in Shooting, Movie!GoOn(h, step), LeavesOthers(h, s),
             NEW b \in Bills, bill' = [bill EXCEPT ![<<h, s>>] = b],
             b \in {"working", "made"} => step \in {"poll", "download", "write"} \/ <<h, s>> \in misled'
      PROVE  FilmInv'
  <2> DEFINE job == [call[h] EXCEPT !.step = step, !.fails = 0]
  <2>1. job \in FilmJobs /\ job.step = step /\ job.shot = s
    <3>1. step \in Movie!Steps /\ s \in Shots /\ call[h] \in FilmJobs
      BY <1>1, <1>5 DEF Movie!Steps, Shooting
    <3>2. job \in FilmJobs /\ job.step = step /\ job.shot = call[h].shot
      BY ONLY <3>1, JobIs
    <3>3. QED
      BY <3>2
  <2>2. call \in [Hands -> FilmJobs]
    BY DEF FilmInv, FilmTypes
  <2>3. call' = [call EXCEPT ![h] = job] /\ UNCHANGED told
    BY <1>5, <2>2 DEF Movie!GoOn
  <2> HIDE DEF job
  <2>4. QED
    BY <1>5, <2>1, <2>3, CallGoes
<1>6. ASSUME call[h].step \in Shooting, NEW job \in FilmJobs, call' = [call EXCEPT ![h] = job],
             job.step = call[h].step, job.shot = s, UNCHANGED <<told, bill, misled>>
      PROVE  FilmInv'
  <2>1. /\ bill[<<h, s>>] \in Bills /\ bill' = [bill EXCEPT ![<<h, s>>] = bill[<<h, s>>]]
    BY <1>3, <1>6 DEF Shooting
  <2>2. bill[<<h, s>>] \in {"working", "made"} =>
           job.step \in {"poll", "download", "write"} \/ <<h, s>> \in misled'
    BY <1>4, <1>6 DEF Shooting
  <2>3. LeavesOthers(h, s)
    BY <1>6, OthersLeft
  <2>4. QED
    BY <1>6, <2>1, <2>2, <2>3, CallGoes
<1>7. ASSUME call[h].step # "idle", NEW a \in Answers, Movie!Finish(h, a), LeavesOthers(h, s),
             NEW b \in Bills, bill' = [bill EXCEPT ![<<h, s>>] = b],
             b \in {"working", "made"} => a \in {"maybe", "wait"} \/ <<h, s>> \in misled'
      PROVE  FilmInv'
  BY <1>7, CallEnds DEF Movie!Finish, Movie!Key
<1>m. Movie!Misleads(h) => Movie!Finish(h, "free") /\ misled' = misled \union {<<h, s>>}
  BY DEF Movie!Misleads, Movie!Key
<1>u. UNCHANGED misled => LeavesOthers(h, s)
  BY OthersLeft
<1>h. misled' = misled \union {<<h, s>>} => LeavesOthers(h, s) /\ <<h, s>> \in misled'
  BY OthersLeft
<1>s. Movie!Straight(h) => LeavesOthers(h, s)
  BY OthersLeft DEF Movie!Straight, Movie!Key
<1>b. \A b : Movie!SetBill(h, b) => bill' = [bill EXCEPT ![<<h, s>>] = b]
  BY DEF Movie!SetBill, Movie!Key
<1> HIDE DEF s
<1>8. CASE Movie!Drawn(h, ok)
  <2>1. call[h].step = "draw" /\ Movie!Ended(h) /\ UNCHANGED <<bill, told, misled>>
    BY <1>8 DEF Movie!Drawn, Movie!orders
  <2>2. bill[<<h, s>>] \in {"working", "made"} => told[<<h, s>>] \in {"maybe", "wait"} \/ <<h, s>> \in misled'
    BY <1>1, <2>1 DEF FilmInv, Fetching
  <2>3. QED
    BY <1>3, <1>u, <2>1, <2>2, CallEnds DEF s
<1>9. CASE Movie!PollFails(h, ok)
  <2>1. call[h].step = "poll" /\ UNCHANGED <<bill, misled>>
    BY <1>9 DEF Movie!PollFails, Movie!orders
  <2>2. CASE Movie!Finish(h, "wait")
    BY <1>2, <1>3, <1>7, <1>u, <2>1, <2>2
  <2>3. CASE call' = [call EXCEPT ![h].fails = @ + 1] /\ UNCHANGED told
    <3> DEFINE job == [call[h] EXCEPT !.fails = call[h].fails + 1]
    <3>1. job \in FilmJobs /\ job.step = call[h].step /\ job.shot = s
      BY <1>1, TriesIs DEF s
    <3>2. call' = [call EXCEPT ![h] = job]
      BY <2>3 DEF FilmInv, FilmTypes
    <3> HIDE DEF job
    <3>3. QED
      BY <1>6, <2>1, <2>3, <3>1, <3>2 DEF Shooting
  <2>4. QED
    BY <1>9, <2>2, <2>3 DEF Movie!PollFails
<1>10. CASE Movie!PollAnswers(h)
  <2>1. call[h].step = "poll" /\ call[h].step \in Shooting /\ UNCHANGED <<bill, misled>>
    BY <1>10 DEF Movie!PollAnswers, Movie!orders, Shooting
  <2>2. CASE \E step \in {"download", "poll"} : Movie!GoOn(h, step)
    BY <1>3, <1>5, <1>u, <2>1, <2>2 DEF Shooting
  <2>3. CASE bill[<<h, s>>] = "failed" /\ Movie!Finish(h, "free")
    BY <1>2, <1>3, <1>7, <1>u, <2>1, <2>3
  <2>4. QED
    BY <1>10, <2>2, <2>3 DEF Movie!PollAnswers, Movie!Key, s
<1>11. CASE Movie!PollGarbled(h)
  <2>1. call[h].step = "poll" /\ UNCHANGED bill
    BY <1>11 DEF Movie!PollGarbled
  <2>2. CASE Movie!Misleads(h)
    BY <1>2, <1>3, <1>7, <1>m, <1>h, <2>1, <2>2
  <2>3. CASE bill[<<h, s>>] \notin {"working", "made"} /\ Movie!Finish(h, "free") /\ UNCHANGED misled
    BY <1>2, <1>3, <1>7, <1>u, <2>1, <2>3
  <2>4. QED
    BY <1>11, <2>2, <2>3 DEF Movie!PollGarbled, Movie!IsOpen, Movie!Key, s
<1>12. CASE Movie!Download(h, ok)
  <2>1. call[h].step = "download" /\ call[h].step \in Shooting /\ UNCHANGED bill
    BY <1>12 DEF Movie!Download, Shooting
  <2>2. CASE Movie!GoOn(h, "write") /\ UNCHANGED misled
    BY <1>3, <1>5, <1>u, <2>1, <2>2 DEF Shooting
  <2>3. CASE Movie!Misleads(h)
    BY <1>2, <1>3, <1>7, <1>m, <1>h, <2>1, <2>3
  <2>4. QED
    BY <1>12, <2>2, <2>3 DEF Movie!Download
<1>13. ASSUME NEW what \in {"more", "end", "breaks"}, Movie!WriteClip(h, what) PROVE FilmInv'
  <2>1. call[h].step = "write" /\ call[h].step \in Shooting
    BY <1>13 DEF Movie!WriteClip, Shooting
  <2>2. CASE Movie!GoOn(h, "write") /\ UNCHANGED <<bill, misled>>
    BY <1>3, <1>5, <1>u, <2>1, <2>2 DEF Shooting
  <2>3. CASE Movie!Misleads(h) /\ UNCHANGED bill
    BY <1>2, <1>3, <1>7, <1>m, <1>h, <2>1, <2>3
  <2>4. CASE Movie!Finish(h, "there") /\ Movie!SetBill(h, "fetched") /\ UNCHANGED misled
    BY <1>2, <1>7, <1>u, <1>b, <2>1, <2>4
  <2>5. QED
    BY <1>13, <2>2, <2>3, <2>4 DEF Movie!WriteClip
<1>14. ASSUME NEW answer \in {"ok", "transient", "no"}, Movie!Upload(h, answer) PROVE FilmInv'
  <2>1. call[h].step = "upload" /\ call[h].step \in Shooting /\ UNCHANGED <<bill, misled>>
    BY <1>14 DEF Movie!Upload, Movie!orders, Shooting
  <2>2. bill[<<h, s>>] \in {"working", "made"} => <<h, s>> \in misled'
    BY <1>4, <2>1
  <2>3. CASE Movie!GoOn(h, "submit")
    BY <1>3, <1>5, <1>u, <2>1, <2>2, <2>3 DEF Shooting
  <2>4. CASE Movie!Finish(h, "free")
    BY <1>2, <1>3, <1>7, <1>u, <2>1, <2>2, <2>4
  <2>5. CASE call' = [call EXCEPT ![h].tries = @ + 1] /\ UNCHANGED told
    <3> DEFINE job == [call[h] EXCEPT !.tries = call[h].tries + 1]
    <3>1. job \in FilmJobs /\ job.step = call[h].step /\ job.shot = s
      BY <1>1, TriesIs DEF s
    <3>2. call' = [call EXCEPT ![h] = job]
      BY <2>5 DEF FilmInv, FilmTypes
    <3> HIDE DEF job
    <3>3. QED
      BY <1>6, <2>1, <2>5, <3>1, <3>2
  <2>6. QED
    BY <1>14, <2>3, <2>4, <2>5 DEF Movie!Upload
<1>15. ASSUME NEW answer \in {"refused", "hidden", "accepted", "broken", "unsent"}, Movie!Submit(h, answer)
       PROVE  FilmInv'
  <2>1. call[h].step = "submit" /\ call[h].step \in Shooting
    BY <1>15 DEF Movie!Submit, Shooting
  <2>2. bill[<<h, s>>] \in {"working", "made"} => <<h, s>> \in misled
    BY <1>4, <2>1
  <2>3. CASE \E a \in {"free", "maybe"} : Movie!Finish(h, a) /\ UNCHANGED <<bill, misled>>
    BY <1>2, <1>3, <1>7, <1>u, <2>1, <2>2, <2>3
  <2>4. CASE Movie!Misleads(h) /\ Movie!SetBill(h, "working")
    BY <1>2, <1>7, <1>m, <1>h, <1>b, <2>1, <2>4
  <2>5. CASE Movie!GoOn(h, "poll") /\ Movie!SetBill(h, "working") /\ Movie!Straight(h)
    BY <1>2, <1>5, <1>s, <1>b, <2>1, <2>5 DEF Shooting
  <2>6. CASE Movie!Finish(h, "maybe") /\ Movie!SetBill(h, "working") /\ Movie!Straight(h)
    BY <1>2, <1>7, <1>s, <1>b, <2>1, <2>6
  <2>7. QED
    BY <1>15, <2>3, <2>4, <2>5, <2>6 DEF Movie!Submit
<1>16. QED
  BY <1>8, <1>9, <1>10, <1>11, <1>12, <1>13, <1>14, <1>15

\* Members whose turns have gone remember nothing, and what is open is counted as
\* forgotten.
LEMMA FilmForgets ==
    ASSUME FilmInv, NEW hands \in SUBSET Hands, Movie!Forgets(hands),
           call' \in [Hands -> FilmJobs], \A h \in Hands \ hands : call'[h] = call[h],
           \A h \in hands : call'[h] = Movie!Idle,
           bill' \in [Placed -> Bills], \A k \in Placed \ (hands \X Shots) : bill'[k] = bill[k]
    PROVE  FilmInv'
<1>1. /\ told' \in [Placed -> Answers]
      /\ \A k \in Placed \ (hands \X Shots) : told'[k] = told[k]
      /\ \A k \in hands \X Shots : bill'[k] \in {"working", "made"} => k \in misled'
      /\ misled \subseteq misled'
  BY DEF Movie!Forgets, Movie!Keys, Placed, FilmInv, FilmTypes, Answers
<1>2. \A h \in hands : call'[h].step = "idle"
  BY IdleIs
<1>3. FilmTypes'
  BY <1>1, <1>2 DEF FilmInv, FilmTypes
<1>4. ASSUME NEW h \in Hands, NEW s \in Shots, bill'[<<h, s>>] \in {"working", "made"}
      PROVE  Fetching(h, s)' \/ told'[<<h, s>>] \in {"maybe", "wait"} \/ <<h, s>> \in misled'
  <2>1. CASE h \in hands
    BY <1>1, <1>4, <2>1
  <2>2. CASE h \notin hands
    <3>1. <<h, s>> \in Placed \ (hands \X Shots)
      BY <2>2 DEF Placed
    <3>2. Fetching(h, s) \/ told[<<h, s>>] \in {"maybe", "wait"} \/ <<h, s>> \in misled
      BY <1>4, <3>1 DEF FilmInv
    <3>3. Fetching(h, s) => Fetching(h, s)'
      BY <2>2 DEF Fetching
    <3>4. QED
      BY <1>1, <3>1, <3>2, <3>3
  <2>3. QED
    BY <2>1, <2>2
<1>5. ASSUME NEW h \in Hands, call'[h].step \in Shooting
      PROVE  told'[<<h, call'[h].shot>>] \notin {"maybe", "wait"}
  <2>1. h \notin hands
    BY <1>2, <1>5 DEF Shooting
  <2>2. call'[h] = call[h] /\ call[h].shot \in Shots
    BY <1>5, <2>1 DEF FilmInv, FilmTypes, Shooting
  <2>3. <<h, call[h].shot>> \in Placed \ (hands \X Shots)
    BY <2>1, <2>2 DEF Placed
  <2>4. QED
    BY <1>1, <1>5, <2>2, <2>3 DEF FilmInv
<1>6. QED
  BY <1>3, <1>4, <1>5 DEF FilmInv

\* A turn ends, is cut off, or all are.
LEMMA FilmBreaks ==
    ASSUME FilmInv, Movie!Restart \/ \E h \in Hands : Movie!TurnEnds(h) \/ Movie!Unheard(h)
    PROVE  FilmInv'
<1>1. call \in [Hands -> FilmJobs] /\ bill \in [Placed -> Bills] /\ Movie!Idle \in FilmJobs
  BY IdleIs DEF FilmInv, FilmTypes
<1>2. CASE Movie!Restart
  <2>1. /\ call' = [h \in Hands |-> Movie!Idle] /\ bill' = bill /\ Movie!Forgets(Hands)
    BY <1>2 DEF Movie!Restart
  <2>2. QED
    BY <1>1, <2>1, FilmForgets
<1>3. ASSUME NEW h \in Hands, Movie!TurnEnds(h) PROVE FilmInv'
  <2>1. /\ call' = call /\ call[h] = Movie!Idle /\ bill' = bill /\ Movie!Forgets({h})
    BY <1>3 DEF Movie!TurnEnds
  <2>2. QED
    BY <1>1, <2>1, FilmForgets
<1>4. ASSUME NEW h \in Hands, Movie!Unheard(h) PROVE FilmInv'
  <2>1. call' = [call EXCEPT ![h] = Movie!Idle] /\ Movie!Forgets({h})
    BY <1>4 DEF Movie!Unheard
  <2>2. bill' = bill \/ (bill' = [bill EXCEPT ![<<h, call[h].shot>>] = "working"] /\ call[h].step = "submit")
    BY <1>4 DEF Movie!Unheard, Movie!SetBill, Movie!Key
  <2>3. CASE bill' = bill
    BY <1>1, <2>1, <2>3, FilmForgets
  <2>4. CASE bill' = [bill EXCEPT ![<<h, call[h].shot>>] = "working"] /\ call[h].step = "submit"
    <3>1. call[h].shot \in Shots /\ "working" \in Bills
      BY <2>4 DEF FilmInv, FilmTypes, Bills
    <3>2. <<h, call[h].shot>> \in {h} \X Shots
      BY <3>1
    <3>3. bill' \in [Placed -> Bills] /\ \A k \in Placed \ ({h} \X Shots) : bill'[k] = bill[k]
      BY <1>1, <2>4, <3>1, <3>2
    <3>4. QED
      BY <1>1, <2>1, <3>3, FilmForgets
  <2>5. QED
    BY <2>2, <2>3, <2>4
<1>5. QED
  BY <1>2, <1>3, <1>4

\* The upstream, and a call that nobody hears, bring an order on; they open none.
LEMMA FilmElsewhere ==
    ASSUME FilmInv, NEW k \in Placed, NEW b \in Bills, bill' = [bill EXCEPT ![k] = b],
           b \in {"working", "made"} => bill[k] \in {"working", "made"},
           UNCHANGED <<call, told, misled>>
    PROVE  FilmInv'
<1>1. /\ bill' \in [Placed -> Bills] /\ \A l \in Placed \ {k} : bill'[l] = bill[l]
      /\ bill'[k] = b
  BY DEF FilmInv, FilmTypes
<1>2. FilmTypes'
  BY <1>1 DEF FilmInv, FilmTypes
<1>3. ASSUME NEW g \in Hands, NEW t \in Shots, bill'[<<g, t>>] \in {"working", "made"}
      PROVE  bill[<<g, t>>] \in {"working", "made"}
  <2>1. <<g, t>> \in Placed
    BY DEF Placed
  <2>2. QED
    BY <1>1, <1>3, <2>1
<1>4. QED
  BY <1>2, <1>3 DEF FilmInv, Fetching

\* Every step of Next.
LEMMA FilmStep == FilmInv /\ [Movie!Next]_Movie!filmVars => FilmInv'
<1>1. SUFFICES ASSUME FilmInv, [Movie!Next]_Movie!filmVars PROVE FilmInv'
  OBVIOUS
<1>2. ASSUME NEW h \in Hands, NEW s \in Shots, NEW ok \in BOOLEAN, Movie!Make(h, s, ok) PROVE FilmInv'
  <2> DEFINE b == IF ok THEN "made" ELSE "failed"
  <2>1. <<h, s>> \in Placed /\ b \in Bills /\ bill[<<h, s>>] = "working"
    BY <1>2 DEF Placed, Bills, Movie!Make
  <2>2. bill' = [bill EXCEPT ![<<h, s>>] = b] /\ UNCHANGED <<call, told, misled>>
    BY <1>2 DEF Movie!Make
  <2> HIDE DEF b
  <2>3. QED
    BY <1>1, <2>1, <2>2, FilmElsewhere
<1>3. ASSUME NEW k \in Movie!Keys, NEW got \in {"none", "empty", "part", "whole"}, Movie!GoesOn(k, got)
      PROVE  FilmInv'
  <2>1. k \in Placed /\ bill[k] \in Bills /\ "fetched" \in Bills /\ UNCHANGED <<call, told, misled>>
    BY <1>1, <1>3 DEF Movie!Keys, Placed, Movie!GoesOn, FilmInv, FilmTypes, Bills
  <2>2. bill' = [bill EXCEPT ![k] = bill[k]] \/ bill' = [bill EXCEPT ![k] = "fetched"]
    BY <1>1, <1>3, <2>1 DEF Movie!GoesOn, FilmInv, FilmTypes
  <2>3. QED
    BY <1>1, <2>1, <2>2, FilmElsewhere
<1>4. CASE \/ UNCHANGED Movie!filmVars
           \/ \E h \in Hands : \/ Movie!OpenPage(h) \/ Movie!Click(h)
                               \/ \E ok \in BOOLEAN : Movie!Concat(h, ok)
  <2>1. UNCHANGED <<call, bill, told, misled>>
    BY <1>4 DEF Movie!filmVars, Movie!OpenPage, Movie!Click, Movie!Concat, Movie!orders
  <2>2. QED
    BY <1>1, <2>1 DEF FilmInv, FilmTypes, Fetching
<1>5. QED
  BY <1>1, <1>2, <1>3, <1>4, FilmIdle, FilmCalls, FilmBreaks DEF Movie!Next

\* media.py, generate_video and _paid_but_unpolled: while an order of a member's is
\* being made, or has a film waiting, the member does not pay for the shot again -
\* unless a tool hid that order from it (an error of the proxy, an answer that is
\* not JSON, a download that fails), or its turn or the container ended, and with
\* them what the tool had said.
THEOREM NoOrderBesideOneKnown == Movie!Spec => Movie!OrderedOnce
<1>1. FilmInv /\ [Movie!Next]_Movie!filmVars => FilmInv'
  BY FilmStep
<1>2. FilmInv /\ [Movie!Next]_Movie!filmVars => [Movie!OrdersAnew]_Movie!filmVars
  <2>1. SUFFICES ASSUME FilmInv, NEW h \in Hands, call[h].step = "submit"
                 PROVE  \/ bill[<<h, call[h].shot>>] \notin {"working", "made"}
                        \/ <<h, call[h].shot>> \in misled
    BY DEF Movie!OrdersAnew, Movie!IsOpen, Movie!Key
  <2>2. call[h].shot \in Shots /\ told[<<h, call[h].shot>>] \notin {"maybe", "wait"}
    BY <2>1 DEF FilmInv, FilmTypes, Shooting
  <2>3. QED
    BY <2>1, <2>2 DEF FilmInv, Fetching
<1>3. QED
  BY <1>1, <1>2, FilmBegins, PTL DEF Movie!Spec, Movie!OrderedOnce

-----------------------------------------------------------------------------
(* TeamRoom.                                                                *)

CONSTANTS Bots, Crew, Rosters, Turns
VARIABLES members, resume, lock, started, turn, handed, meddled
Team == INSTANCE TeamRoom

\* The rosters are lists of members.
Lists == Crew \in Seq(Bots) /\ Rosters \subseteq Seq(Bots)

Active(x) == x.step \in {"works"} \union Team!Ends

\* A turn that goes on is at a place of its list.
RoomTypes ==
    /\ members \in Seq(Bots) /\ resume \in Nat /\ meddled \in BOOLEAN
    /\ turn = [t \in Turns |-> turn[t]]
    /\ \A t \in Turns : Active(turn[t]) =>
          turn[t].list \in Seq(Bots) /\ turn[t].at \in 1..Len(turn[t].list)

\* Whoever is before the next one of a roster has delivered.
BeforeHanded(list, k, who) == \A i \in 1..(k - 1) : list[i] \in who

\* What goes on at x goes by the room's own list, and those before have delivered.
Follows(x, list) == Active(x) => x.list = list /\ BeforeHanded(x.list, x.at, x.done)

RoomInv ==
    /\ RoomTypes
    /\ ~meddled =>
          /\ resume \in 1..Len(members) => BeforeHanded(members, resume, handed)
          /\ \A t \in Turns : Follows(turn[t], members)

\* No message has been sent yet.
LEMMA RoomBegins == Lists /\ Team!Init => RoomInv
<1>1. SUFFICES ASSUME Lists, Team!Init PROVE RoomInv
  OBVIOUS
<1>2. \A t \in Turns : ~Active(turn[t])
  BY <1>1 DEF Team!Init, Team!Unsent, Active, Team!Ends
<1>3. RoomTypes
  BY <1>1, <1>2 DEF Team!Init, RoomTypes, Lists
<1>4. QED
  BY <1>1, <1>2, <1>3 DEF Team!Init, RoomInv, Follows

\* One turn goes on, and the room stays as it is.
LEMMA OneGoesOn ==
    ASSUME RoomInv, NEW t \in Turns, NEW x, turn' = [turn EXCEPT ![t] = x],
           UNCHANGED <<members, resume, handed>>, meddled' = meddled,
           Active(x) => x.list \in Seq(Bots) /\ x.at \in 1..Len(x.list),
           ~meddled => Follows(x, members)
    PROVE  RoomInv'
<1>1. turn'[t] = x /\ \A u \in Turns \ {t} : turn'[u] = turn[u]
  BY DEF RoomInv, RoomTypes
<1>2. turn' = [u \in Turns |-> turn'[u]]
  BY DEF RoomInv, RoomTypes
<1>3. RoomTypes'
  BY <1>1, <1>2 DEF RoomInv, RoomTypes, Active
<1>4. QED
  BY <1>1, <1>3 DEF RoomInv, Follows, Active, BeforeHanded

\* A turn is over, and the room remembers who is next.
LEMMA OneStops ==
    ASSUME RoomInv, NEW t \in Turns, Active(turn[t]), NEW k \in Nat, Team!Stop(t, k),
           UNCHANGED <<members, meddled>>,
           ~meddled /\ k \in 1..Len(members) => BeforeHanded(members, k, handed')
    PROVE  RoomInv'
<1>1. /\ turn'[t] = Team!Over /\ ~Active(Team!Over)
      /\ \A u \in Turns \ {t} : turn'[u] = turn[u]
      /\ turn' = [u \in Turns |-> turn'[u]]
  BY DEF RoomInv, RoomTypes, Team!Stop, Team!Over, Active, Team!Ends
<1>2. resume' \in Nat /\ (resume' = k \/ resume' = 0)
  BY DEF Team!Stop
<1>3. RoomTypes'
  BY <1>1, <1>2 DEF RoomInv, RoomTypes, Active
<1>4. \A u \in Turns : ~meddled => Follows(turn'[u], members)
  BY <1>1 DEF RoomInv, Follows
<1>5. ~meddled /\ resume' \in 1..Len(members) => BeforeHanded(members, resume', handed')
  BY <1>2 DEF RoomInv, RoomTypes
<1>6. QED
  BY <1>3, <1>4, <1>5 DEF RoomInv, Follows, Active, BeforeHanded

\* A message starts a turn where the last one stopped, by the room's own list.
LEMMA RoomSends == ASSUME RoomInv, NEW t \in Turns, Team!Send(t) PROVE RoomInv'
<1>1. members' = members /\ ~Active(turn[t]) /\ ~Active(Team!Over)
  BY DEF Team!Send, Team!Unsent, Team!Over, Active, Team!Ends
<1>2. CASE lock /\ started # "stale"
  <2>1. turn' = [turn EXCEPT ![t] = Team!Over] /\ UNCHANGED <<resume, handed, meddled>>
    BY <1>2 DEF Team!Send
  <2>2. QED
    BY <1>1, <2>1, OneGoesOn DEF Follows
<1>3. CASE ~(lock /\ started # "stale") /\ members = <<>>
  <2>1. /\ turn' = [turn EXCEPT ![t] = Team!Over]
        /\ resume' = 0 /\ meddled' = meddled
    BY <1>3 DEF Team!Send
  <2>2. /\ \A u \in Turns : Active(turn'[u]) => turn'[u] = turn[u] /\ Active(turn[u])
        /\ turn' = [u \in Turns |-> turn'[u]]
    BY <1>1, <2>1 DEF RoomInv, RoomTypes
  <2>3. RoomTypes'
    BY <1>1, <2>1, <2>2 DEF RoomInv, RoomTypes, Active
  <2>4. \A u \in Turns : ~meddled => Follows(turn'[u], members)
    BY <2>2 DEF RoomInv, Follows
  <2>5. QED
    BY <1>1, <2>1, <2>3, <2>4 DEF RoomInv, Follows, Active, BeforeHanded
<1>4. CASE ~(lock /\ started # "stale") /\ members # <<>>
  <2> DEFINE x == [step |-> "works", list |-> members, at |-> Team!Start, asks |-> 0,
                   done |-> IF Team!Start = 1 THEN {} ELSE handed, leg |-> Team!NewLeg]
  <2>1. /\ turn' = [turn EXCEPT ![t] = x] /\ UNCHANGED <<resume, handed>>
        /\ meddled' = (meddled /\ (Team!Start # 1 \/ \E u \in Turns : Team!Going(u)))
    BY <1>4 DEF Team!Send
  <2>2. members \in Seq(Bots) /\ resume \in Nat
    BY DEF RoomInv, RoomTypes
  <2>3. /\ Team!Start \in 1..Len(members)
        /\ Team!Start # 1 => Team!Start = resume /\ resume \in 1..Len(members)
    <3>1. Len(members) \in Nat \ {0}
      BY <1>4, <2>2
    <3>2. QED
      BY <2>2, <3>1 DEF Team!Start
  <2>4. /\ Active(x) /\ x.list = members /\ x.at = Team!Start
        /\ Team!Start # 1 => x.done = handed
    BY DEF Active
  <2> HIDE DEF x
  <2>5. Active(x) => x.list \in Seq(Bots) /\ x.at \in 1..Len(x.list)
    BY <2>2, <2>3, <2>4
  <2>6. ~meddled => Follows(x, members)
    <3>1. CASE Team!Start = 1
      BY <2>4, <3>1 DEF Follows, BeforeHanded
    <3>2. CASE Team!Start # 1
      BY <2>3, <2>4, <3>2 DEF Follows, RoomInv
    <3>3. QED
      BY <3>1, <3>2
  <2>7. CASE meddled' = meddled
    BY <1>1, <2>1, <2>5, <2>6, <2>7, OneGoesOn
  <2>8. CASE meddled' # meddled
    <3>1. Team!Start = 1 /\ ~(\E u \in Turns : Team!Going(u))
      BY <2>1, <2>8 DEF RoomInv, RoomTypes
    <3>2. /\ turn'[t] = x /\ \A u \in Turns \ {t} : turn'[u] = turn[u]
          /\ turn' = [u \in Turns |-> turn'[u]]
      BY <2>1 DEF RoomInv, RoomTypes
    <3>3. \A u \in Turns : ~Active(turn[u])
      BY <3>1 DEF Team!Going, Active
    <3>4. \A u \in Turns : Active(turn'[u]) => turn'[u] = x
      BY <3>2, <3>3
    <3>5. meddled' \in BOOLEAN
      BY <2>1, <2>8
    <3>6. RoomTypes'
      BY <1>1, <2>1, <2>5, <3>2, <3>4, <3>5 DEF RoomInv, RoomTypes, Active
    <3>7. Follows(x, members)
      BY <2>4, <3>1 DEF Follows, BeforeHanded
    <3>8. \A u \in Turns : Follows(turn'[u], members)
      BY <3>4, <3>7 DEF Follows
    <3>9. resume \in 1..Len(members) => BeforeHanded(members, resume, handed)
      <4>1. resume \in 1..Len(members) => resume = 1
        BY <3>1 DEF Team!Start
      <4>2. QED
        BY <4>1 DEF BeforeHanded
    <3>10. QED
      BY <1>1, <2>1, <3>6, <3>8, <3>9 DEF RoomInv, Follows, Active, BeforeHanded
  <2>9. QED
    BY <2>7, <2>8
<1>5. QED
  BY <1>2, <1>3, <1>4

\* The work of a member goes on or ends: its place does not change.
LEMMA RoomWorks ==
    ASSUME RoomInv, NEW t \in Turns, NEW x, turn' = [turn EXCEPT ![t] = x], Active(turn[t]),
           UNCHANGED Team!Roster, x.list = turn[t].list, x.at = turn[t].at, x.done = turn[t].done
    PROVE  RoomInv'
<1>1. Active(x) => x.list \in Seq(Bots) /\ x.at \in 1..Len(x.list)
  BY DEF RoomInv, RoomTypes
<1>2. ~meddled => Follows(x, members)
  BY DEF RoomInv, Follows
<1>3. UNCHANGED <<members, resume, handed>> /\ meddled' = meddled
  BY DEF Team!Roster
<1>4. QED
  BY <1>1, <1>2, <1>3, OneGoesOn

\* Whoever has delivered has done so before the next one begins.
LEMMA BatonPassed ==
    ASSUME RoomInv, NEW t \in Turns, turn[t].step \in Team!Ends, ~Team!Undone(t), ~meddled
    PROVE  BeforeHanded(turn[t].list, turn[t].at + 1, Team!Delivered(t))
<1>1. Active(turn[t]) /\ turn[t].at \in Nat
  BY DEF Active, RoomInv, RoomTypes
<1>2. turn[t].step = "end" /\ ~Team!Empty(turn[t].leg)
  BY DEF Team!Undone, Team!Ends
<1>3. Team!Delivered(t) = turn[t].done \union {turn[t].list[turn[t].at]}
  BY <1>2 DEF Team!Delivered
<1>4. \A i \in 1..(turn[t].at - 1) : turn[t].list[i] \in turn[t].done
  BY <1>1 DEF RoomInv, Follows, BeforeHanded
<1>5. QED
  BY <1>1, <1>3, <1>4 DEF BeforeHanded

LEMMA RoomEnds ==
    ASSUME RoomInv, NEW t \in Turns, Team!Broken(t) \/ Team!Halted(t) \/ Team!Passed(t)
    PROVE  RoomInv'
<1>1. turn[t].step \in Team!Ends /\ Active(turn[t])
  BY DEF Team!Broken, Team!Halted, Team!Passed, Active
<1>2. /\ turn[t].list \in Seq(Bots) /\ turn[t].at \in 1..Len(turn[t].list)
      /\ turn[t].at \in Nat /\ turn[t].at + 1 \in Nat /\ Len(turn[t].list) \in Nat
  BY <1>1 DEF RoomInv, RoomTypes
<1>3. UNCHANGED <<members, meddled>>
  BY DEF Team!Broken, Team!Halted, Team!Passed
<1>4. ~meddled => turn[t].list = members /\ BeforeHanded(turn[t].list, turn[t].at, turn[t].done)
  BY <1>1 DEF RoomInv, Follows
<1>5. CASE Team!Broken(t)
  <2>1. Team!Stop(t, turn[t].at) /\ handed' = turn[t].done
    BY <1>5 DEF Team!Broken
  <2>2. QED
    BY <1>1, <1>2, <1>3, <1>4, <2>1, OneStops
<1>6. ASSUME ~Team!Undone(t), Team!Stop(t, turn[t].at + 1), handed' = Team!Delivered(t) PROVE RoomInv'
  <2>1. ~meddled => BeforeHanded(members, turn[t].at + 1, handed')
    BY <1>1, <1>4, <1>6, BatonPassed
  <2>2. QED
    BY <1>1, <1>2, <1>3, <1>6, <2>1, OneStops
<1>7. CASE Team!Halted(t)
  BY <1>6, <1>7 DEF Team!Halted
<1>8. CASE Team!Passed(t)
  <2>1. ~Team!Undone(t)
    BY <1>8 DEF Team!Passed
  <2>2. CASE turn[t].at = Len(turn[t].list)
    BY <1>6, <1>8, <2>1, <2>2 DEF Team!Passed
  <2>3. CASE turn[t].at # Len(turn[t].list)
    <3> DEFINE later == IF Team!Summary(Team!HALT_TOOL) \in turn[t].leg.used THEN turn[t].at ELSE turn[t].asks
               x == [turn[t] EXCEPT !.step = "works", !.at = turn[t].at + 1,
                                    !.done = Team!Delivered(t), !.leg = Team!NewLeg, !.asks = later]
    <3>1. turn' = [turn EXCEPT ![t] = x] /\ UNCHANGED <<resume, handed>>
      BY <1>8, <2>3 DEF Team!Passed
    <3>2. x.list = turn[t].list
      OBVIOUS
    <3>3. Active(x) => x.at = turn[t].at + 1 /\ x.done = Team!Delivered(t)
      OBVIOUS
    <3> HIDE DEF x
    <3>4. Active(x) => x.list \in Seq(Bots) /\ x.at \in 1..Len(x.list)
      BY <1>2, <2>3, <3>2, <3>3
    <3>5. ~meddled => Follows(x, members)
      BY <1>1, <1>4, <2>1, <3>2, <3>3, BatonPassed DEF Follows
    <3>6. QED
      BY <1>3, <3>1, <3>4, <3>5, OneGoesOn
  <2>4. QED
    BY <2>2, <2>3
<1>9. QED
  BY <1>5, <1>7, <1>8

\* Who is in a list is at a first place of it.
LEMMA FirstPlace ==
    ASSUME NEW list \in Seq(Bots), NEW b, \E i \in 1..Len(list) : list[i] = b
    PROVE  \E i \in 1..Len(list) : list[i] = b /\ \A j \in 1..(i - 1) : list[j] # b
<1> DEFINE Places == {i \in 1..Len(list) : list[i] = b}
<1>1. Places \subseteq Nat /\ Places # {} /\ Len(list) \in Nat
  OBVIOUS
<1>2. PICK i \in Places : \A j \in Places : ~(<<j, i>> \in OpToRel(<, Nat))
  <2> HIDE DEF Places
  <2>1. QED
    BY <1>1, WFMin, NatLessThanWellFounded
<1>3. \A j \in Places : ~(j < i)
  BY <1>1, <1>2 DEF OpToRel
<1>4. QED
  BY <1>1, <1>3

\* One is taken from the roster: the next one keeps those before it, but for
\* the one that is gone.
LEMMA RoomRemoves == ASSUME RoomInv, NEW b \in Bots, Team!RemoveMember(b) PROVE RoomInv'
<1>1. PICK n \in Nat : n = Len(members) /\ n > 1
  BY DEF RoomInv, RoomTypes, Team!RemoveMember
<1>2. members \in Seq(Bots) /\ resume \in Nat /\ meddled \in BOOLEAN
  BY DEF RoomInv, RoomTypes
<1>3. PICK k \in 1..n : k = Team!Place(b)
  <2>1. \E i \in 1..Len(members) : members[i] = b /\ \A j \in 1..(i - 1) : members[j] # b
    BY <1>2, FirstPlace DEF Team!RemoveMember
  <2>2. Team!Place(b) \in 1..Len(members)
    BY <2>1 DEF Team!Place
  <2>3. QED
    BY <1>1, <2>2
<1>4. members' = [i \in 1..(n - 1) |-> IF i < k THEN members[i] ELSE members[i + 1]]
  BY <1>1, <1>3 DEF Team!RemoveMember, Team!Without
<1>5. members' \in Seq(Bots) /\ Len(members') = n - 1
  <2>1. \A i \in 1..(n - 1) : i \in 1..n /\ i + 1 \in 1..n
    BY <1>1
  <2>2. \A i \in 1..n : members[i] \in Bots
    BY <1>1, <1>2
  <2>3. \A i \in 1..(n - 1) : (IF i < k THEN members[i] ELSE members[i + 1]) \in Bots
    BY <2>1, <2>2
  <2>4. n - 1 \in Nat
    BY <1>1
  <2>5. QED
    BY <1>4, <2>3, <2>4
<1>6. UNCHANGED <<turn, handed>>
  BY DEF Team!RemoveMember
<1>7. PICK m \in Nat :
         /\ resume' = m
         /\ (k < resume /\ m = resume - 1) \/ (k >= resume /\ m = resume) \/ m = 0
  <2>1. resume' = CASE resume > k -> resume - 1
                    [] resume = k /\ resume = n -> 0
                    [] OTHER -> resume
    BY <1>1, <1>3 DEF Team!RemoveMember
  <2>2. CASE resume > k
    BY <1>2, <2>1, <2>2
  <2>3. CASE resume = k /\ resume = n
    BY <1>2, <2>1, <2>3
  <2>4. CASE ~(resume > k) /\ ~(resume = k /\ resume = n)
    BY <1>2, <2>1, <2>4
  <2>5. QED
    BY <2>2, <2>3, <2>4
<1>8. /\ meddled' \in BOOLEAN
      /\ ~meddled' => ~meddled /\ \A t \in Turns : ~Active(turn[t])
  BY <1>2 DEF Team!RemoveMember, Team!Meddle, Team!Going, Active
<1>9. ASSUME ~meddled, m \in 1..(n - 1) PROVE BeforeHanded(members', m, handed)
  <2>1. ASSUME NEW i \in 1..(m - 1) PROVE members'[i] \in handed
    <3>1. i \in 1..(n - 1)
      BY <1>1, <1>9
    <3>2. resume \in 1..n
      BY <1>1, <1>2, <1>7, <1>9
    <3>3. \A j \in 1..(resume - 1) : members[j] \in handed
      BY <1>1, <1>9, <3>2 DEF RoomInv, BeforeHanded
    <3>4. CASE i < k
      <4>1. i \in 1..(resume - 1)
        BY <1>1, <1>2, <1>7, <1>9, <3>4
      <4>2. QED
        BY <1>4, <3>1, <3>3, <3>4, <4>1
    <3>5. CASE ~(i < k)
      <4>1. i + 1 \in 1..(resume - 1)
        BY <1>1, <1>2, <1>7, <1>9, <3>5
      <4>2. QED
        BY <1>4, <3>1, <3>3, <3>5, <4>1
    <3>6. QED
      BY <3>4, <3>5
  <2>2. QED
    BY <2>1 DEF BeforeHanded
<1>10. RoomTypes'
  BY <1>5, <1>6, <1>7, <1>8 DEF RoomInv, RoomTypes, Active
<1>11. QED
  BY <1>5, <1>6, <1>7, <1>8, <1>9, <1>10 DEF RoomInv, Follows, Active, BeforeHanded

LEMMA RoomStep == ASSUME Lists, RoomInv, [Team!Next]_(Team!roomVars) PROVE RoomInv'
<1>1. ASSUME NEW t \in Turns, Team!Disconnect(t) \/ Team!Collect(t) PROVE RoomInv'
  <2>1. PICK x \in {Team!Lost, Team!Over} : turn' = [turn EXCEPT ![t] = x]
    BY <1>1 DEF Team!Disconnect, Team!Collect
  <2>2. ~Active(x)
    BY DEF Team!Lost, Team!Over, Active, Team!Ends
  <2>3. UNCHANGED <<members, resume, handed>> /\ meddled' = meddled
    BY <1>1 DEF Team!Disconnect, Team!Collect, Team!Roster
  <2>4. QED
    BY <2>1, <2>2, <2>3, OneGoesOn DEF Follows
<1>2. ASSUME NEW t \in Turns, NEW tool \in Team!ToolNames, NEW said \in BOOLEAN, NEW last \in BOOLEAN,
             Team!Tool(t, tool, said, last)
      PROVE  RoomInv'
  <2> DEFINE leg == [said |-> turn[t].leg.said \/ said,
                     used |-> turn[t].leg.used \union {Team!Summary(tool)}]
             x   == [turn[t] EXCEPT !.leg = leg, !.step = IF last THEN "capped" ELSE "works"]
  <2>1. turn' = [turn EXCEPT ![t] = x]
    BY <1>2 DEF Team!Tool, RoomInv, RoomTypes
  <2>2. x.list = turn[t].list /\ x.at = turn[t].at /\ x.done = turn[t].done
    OBVIOUS
  <2>3. Active(turn[t]) /\ UNCHANGED Team!Roster
    BY <1>2 DEF Team!Tool, Team!Works, Active, Team!Roster
  <2> HIDE DEF x
  <2>4. QED
    BY <2>1, <2>2, <2>3, RoomWorks
<1>3. ASSUME NEW t \in Turns, NEW said \in BOOLEAN, Team!Says(t, said) PROVE RoomInv'
  <2> DEFINE leg == [turn[t].leg EXCEPT !.said = @ \/ said]
             x   == [turn[t] EXCEPT !.step = "end", !.leg = leg]
  <2>1. turn' = [turn EXCEPT ![t] = x]
    BY <1>3 DEF Team!Says, RoomInv, RoomTypes
  <2>2. x.list = turn[t].list /\ x.at = turn[t].at /\ x.done = turn[t].done
    OBVIOUS
  <2>3. Active(turn[t]) /\ UNCHANGED Team!Roster
    BY <1>3 DEF Team!Says, Team!Works, Active, Team!Roster
  <2> HIDE DEF x
  <2>4. QED
    BY <2>1, <2>2, <2>3, RoomWorks
<1>4. ASSUME NEW t \in Turns, NEW how \in {"error", "raised"}, Team!Fails(t, how) PROVE RoomInv'
  <2> DEFINE x == [turn[t] EXCEPT !.step = how]
  <2>1. turn' = [turn EXCEPT ![t] = x]
    BY <1>4 DEF Team!Fails
  <2>2. x.list = turn[t].list /\ x.at = turn[t].at /\ x.done = turn[t].done
    OBVIOUS
  <2>3. Active(turn[t]) /\ UNCHANGED Team!Roster
    BY <1>4 DEF Team!Fails, Team!Works, Active, Team!Roster
  <2> HIDE DEF x
  <2>4. QED
    BY <2>1, <2>2, <2>3, RoomWorks
<1>5. ASSUME NEW list \in Rosters, Team!SetMembers(list) PROVE RoomInv'
  <2>1. members' = list /\ list \in Seq(Bots) /\ UNCHANGED <<resume, turn, handed>> /\ resume \in Nat
    BY <1>5 DEF Team!SetMembers, Lists, RoomInv, RoomTypes
  <2>2. /\ meddled' \in BOOLEAN
        /\ ~meddled' => resume = 0 /\ \A t \in Turns : ~Active(turn[t])
    BY <1>5, <2>1 DEF Team!SetMembers, Team!Meddle, Team!Going, Active, RoomInv, RoomTypes
  <2>3. RoomTypes'
    BY <2>1, <2>2 DEF RoomInv, RoomTypes, Active
  <2>4. QED
    BY <2>1, <2>2, <2>3 DEF RoomInv, Follows, Active
<1>6. CASE Team!GrowsOld \/ UNCHANGED Team!roomVars
  <2>1. UNCHANGED <<members, resume, turn, handed, meddled>>
    BY <1>6 DEF Team!GrowsOld, Team!roomVars, Team!Roster
  <2>2. QED
    BY <2>1 DEF RoomInv, RoomTypes, Follows, Active, BeforeHanded
<1>7. QED
  BY <1>1, <1>2, <1>3, <1>4, <1>5, <1>6, RoomSends, RoomEnds, RoomRemoves DEF Team!Next

\* In a relay a member works only when all before it have delivered, in this
\* turn or in those it continues, whatever broke off in between, unless the
\* roster was changed under the relay (rooms.py:82-84 and main.py's _run_relay).
THEOREM BatonInOrder == Lists /\ Team!Spec => []Team!DeliveredInOrder
<1>1. SUFFICES ASSUME Lists PROVE Team!Spec => []Team!DeliveredInOrder
  OBVIOUS
<1>2. Team!Init => RoomInv
  BY <1>1, RoomBegins
<1>3. RoomInv /\ [Team!Next]_(Team!roomVars) => RoomInv'
  BY <1>1, RoomStep
<1>4. RoomInv => Team!DeliveredInOrder
  BY DEF RoomInv, Follows, Active, BeforeHanded, Team!DeliveredInOrder, Team!Going
<1>5. QED
  BY <1>2, <1>3, <1>4, PTL DEF Team!Spec
=============================================================================
