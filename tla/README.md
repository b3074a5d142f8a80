# DeepSeek Harness Cloud: TLA+ models, checks and proofs

This directory holds TLA+ modules for the server of this repository (`server/app`, paths below are
relative to it unless they start with another directory): what the modules model, what TLC checks
about them on small instances, and what TLAPS proves for every instance. Around the server it takes in
the applications of the workspace images, the agents' team among them, and the tools a user or
operator runs (`deploy`, `packages`, `scripts`). `PROJECT.json` lists the runs, the source lines behind every definition, and the hazards the properties are for.

    tlc -workers 2 -config orders_race.cfg MCOrders.tla      # one run; the others alike
    tlapm Orders_proofs.tla                                  # one module of proofs

## 1. The system

The service is one FastAPI process: `Dockerfile:50` starts uvicorn without `--workers`, the
self-hosting guide does the same. `async` handlers and the background loops share one event loop and
give way only at an `await`; plain `def` routes run in a thread pool beside it. The database is SQLite
or PostgreSQL; on PostgreSQL several instances may share it, and `credits.py:97-98` is written for that.
Every `db.tx()` block is one transaction, and most operations of interest consist of several.

Part | State | Operations | Interacts with
---- | ----- | ---------- | --------------
Orders and settlement (`payments/base.py`, `payments/api.py`) | `orders` rows; what an order granted | create, expiry sweep, `mark_paid`, `mark_refunded`, `fulfil`, `revoke` | providers by webhook; grants, passes, plans, teams by calls
Payment providers (`payments/*_provider.py`) | none; the money is at the provider | verify a notice, ask again, acknowledge | webhooks in, queries out
Credit ledger (`credits.py`) | `credit_grants`, `usage_log`, advisory locks | grant, spend, balance | called by everything that costs money
Teams (`teams.py`) | organisations, members, invitations, seats | create, invite, accept, remove, caps | decides whose credits a spend drains
Plans, passes, minutes (`plans.py`, `work_access.py`) | subscriptions, passes, minute grants | `apply_plan`, `grant_pass`, `consume_minute` | called by fulfilment and by the reaper
Video jobs (`media.py`) | `video_jobs` rows | create, poll, settle, refund, reconcile | upstream API, ledger
Workspaces (`workspace.py`) | presence dictionaries in memory | open, route, heartbeat, keep, stop, reap | a backend, ledger, gateway's `last_seen`
Workspace backends (`workbackend.py`) | containers or cloud instances | inspect, create, start, stop, delete | docker, ECI, Kubernetes
LLM gateway (`gateway.py`) | slots in memory, sliding windows | admit, stream, bill | upstream, ledger
Accounts, device authorisation (`accounts.py`, `oauth.py`, `device_auth.py`) | users, one-time codes, device codes | sign in, approve, exchange | mail, browser
Avatar calls (`avatar.py`) | claimed reports; reserves in memory | open, relay, report, say, hang up | a GPU node, ledger
Live rooms (`live.py`) | cooldowns, cached states and rate samples in memory | start, stop, comment, say, generate | a GPU node, ledger
Boxes (`boxbackend.py`) | box rows, tunnel addresses | create, wake, run, release, delete | the box API, a tunnel host
Throttles (`release_throttle.py`, `http_limits.py`, `upstream.py`) | slots in memory | admit, count bytes, release | stand before every handler
Products (`products.py`) | boot scripts; markers and model tables inside an instance | sign in, write models, reset a password | run in the instance
Gates and preview (`workspace.py`) | the fast path's memory; a cookie | route, enter, poll; list, open, proxy | passes, minutes, a backend
Agents-team application (`deploy/workspace-agents-team`) | rooms, messages, films, inside a workspace | send, relay, change members, shoot | gateway, video jobs
Agent chat, ComfyUI shim (`deploy/workspace-agentui`, `-comfyui`) | conversations; jobs and uploads | ask, stop, delete; submit, poll, upload | gateway
Image caches (`server/scripts/eci_image_cache.py`) | caches and addresses in the cloud | prepare, rebuild, sweep | ECI
Self-hosting and local runs (`packages/cli-python`, `scripts/local`) | a deployment directory; containers | init, start, stop, restore; login, run, stop | docker, the server
Pages, installers, image builds, tests | static | |

What is hard here is seldom in one function. Notices of payment are repeated, overtake each other and
reach a process that may die between two transactions. Spends of several processes meet in one pool of
credits. Rows and dictionaries are read before an `await` and used after it. A loop decides to stop
something somebody may be using. The 41 hazards of `PROJECT.json` are the places where this bites, each
with the properties that would catch it, or with the reason why none does.

What makes each part correct, in a sentence:

- *Orders*: nothing is handed out twice or unpaid, everything paid for is handed out, everything
  refunded is taken back, in whatever order notices arrive.
- *Ledger*: no request is charged twice, no credit is spent twice or lost, no two spends wait for each other.
- *Video jobs*: a job that failed costs nothing, one that succeeded costs what it really cost (unless it was given up on before), all end.
- *Workspaces*: one instance per workspace but for what the cloud failed to delete, never stopped without a question unless the user cannot
  pay, always reclaimed when abandoned.
- *Gateway*: every slot comes back, what was served is billed once, and what was not is not.
- *Accounts, devices*: what was revoked stays dead; nobody has more devices of a code than he approved.
- *Teams*: members never exceed seats. *Minutes*: what the plan does not cover comes from the packs, the first to expire first.
- *Avatar, live rooms*: a report is charged once at most, a line is spoken and billed once.
- *Instances, boxes, catalogue*: one instance survives, an address belongs to one box, checkouts in turn use one product of an item.
- *Gates*: the pass is asked for before a request is let in.
- *Pods, archive of rooms*: a copy that did not come down whole never replaces the master.
- *Applications*: what was asked for arrives, in order, and a failure that was told is not answered by paying again.
- *Tools*: what fails is cleared up, as far as the cloud and docker obey.

## 2. Modules

Module | Models | Composition
------ | ------ | -----------
`Sale` | what the shop promises of one order, without notices, workers or transactions | abstract
`Orders` | checkout, sweep, provider, webhook workers, fulfilment, revocation | implements `Sale` (`KeepsThePromise`)
`Orders_proofs` | seven theorems about `Orders`, one about `WaffoCatalog` | extends `Orders`, the other by INSTANCE
`Ledger` | grants, the locked spend, refunds and membership as the ledger sees them | extends `Sums`
`Ledger_proofs` | six theorems about `Ledger` | extends `Ledger`, `Sums_proofs`
`Sums` | the sum of a function over a finite set, with which `Ledger` adds amounts and `MachineTime` minutes |
`Sums_proofs` | the laws of that sum | extends `Sums`
`VideoJobs` | `create_video`, `_settle` and the reconciling loop |
`VideoJobs_proofs` | four theorems about `VideoJobs`, one about `Film`, which orders the videos, one about `TeamRoom`, whose members do | extends `VideoJobs`, the others by INSTANCE
`Workspace` | `ensure_workspace`, presence, the reaper, docker and ECI |
`Workspace_proofs` | three theorems about `Workspace` | extends `Workspace`
`Gateway` | admission, slots, streams and bills of the model gateway and of images |
`Intake` | downloads and their slots, bodies before and after sign-in, the forwarding client |
`Avatar` | a talk: session, reports of minutes, claim and charge, sentences and their reserve |
`LiveRoom` | rooms on air, the queue of lines, comments, cooldown, hedged requests, charges |
`Production` | the samples of a room's production, and the reports that it is slow or has recovered |
`Access` | tokens, epochs, suspension, mail codes, the tokens of workspaces |
`DeviceLogin` | a device code from start over approval or denial to a device |
`Seats` | organisations, seats, invitations, joining, leaving, removing |
`MachineTime` | minutes drawn from the plan, the packs and the organisation's pool | extends `Sums`
`Gates` | entry, shell, route, waiting page and preload of a product against its passes |
`Preview` | the list of an instance's files, asleep or awake, and the proxy to its servers |
`Pods` | the Kubernetes Pod: restore, sidecar, credentials, deletion |
`Instances` | ECI's duplicates, routes and releases; the backends a product may run on |
`Boxes` | rows, addresses, tunnels, containers and the reaper of the boxes |
`SignIn` | the boot scripts of Dify, Coze, Hermes and Maus |
`WaffoCatalog` | the products at waffo, the cache of their ids, and the scripts that keep them |
`Comfy` | the ComfyUI shim and node: jobs, polling, uploads, names of models |
`AgentChat` | a question to a command line agent, its stream, its stop, the list of conversations |
`TeamRoom` | the relay of a room, its lock, its interruption and takeover, changes of members |
`Rooms` | the archive of rooms: load, first start, save, backup |
`Film` | pictures, shots and films; the browser page the members share |
`ImageCache` | the script that builds, replaces and sweeps image caches |
`SelfHost` | the command that writes and runs a deployment directory |
`LocalRun` | a product's containers on the user's own machine |
`MCOrders`, `MCLedger`, `MCVideoJobs`, `MCWorkspace`, `MCPlatform` | small constants for TLC | extend the above
`Gateway_proofs` | four theorems about `Gateway`, two about `Intake`, which stands before it | extends `Gateway`, the other by INSTANCE
`Parts_proofs` | twenty-six theorems about nineteen modules, from `Seats` to `Access` | extends the first and `Sums_proofs`, the others by INSTANCE
`Platform` | the 24 modules from `Gateway` to `LocalRun` and `WaffoCatalog` side by side, and the properties of each | one of them at a time, by INSTANCE
`Platform_proofs` | fifteen theorems about `Platform`: all of its properties but the types | extends `Platform`, the proofs of the parts by INSTANCE

Definitions keep the names of the code where there is one. Mutants (a comment says which definition
they are a wrong version of) stand next to the definition they replace; nothing else uses them.

### Orders

`status` is `orders.status`; `given` and `taken` count per order how often each piece of it was handed
out or taken back; `handler` is where each webhook worker is in `_settle`; `outbox` and `trade` are the
provider's side, which is not in this repository and is modelled from how the webhooks use it: it
repeats a notice until it is acknowledged, may repeat one already acknowledged, and (except waffo, whose
sale event follows the payment) announces a checkout before its money has come.
`Deliver` is the verified notice up to the answer of the second question (`Confirmed`, one operator per
provider); `Mark` is the conditional `UPDATE` of `mark_paid` or `mark_refunded`; `Fulfil` and `Revoke`
are one transaction each of the lists `Fulfilment` and `Revocation`; `Ack` is the answer to the
provider; `Crash` loses the worker between any two of them. `Verdicts` is what comes of the question: the
truth, but alipay may answer it with an error in an HTTP 200, which counts as no payment and is acknowledged
(such orders are `unanswered`), and a Stripe refund may be matched by the metadata of the charge. `_settle` is synchronous code inside an
`async` handler, so one process settles one order at a time: `Workers` is the number of processes.

Left out: amounts, currencies and the intro price, which no status guard reads; partial refunds; the
dates of passes and subscriptions. A subscription is one row per buyer shared by all of his plan
orders, so `Revoke` takes the days back whichever order put them there.

### Ledger

A bucket is a row of `credit_grants`, numbered by expiry. `spend` and `basket` are the local variables
of a transaction: `Begin` reads the payers and the clock before `db.tx()`; `TakeLock` takes one
advisory lock; `CheckDuplicate` looks for the request id; `Drain` reads one payer's buckets, in the order
of expiry (`Before`, `Share`: what is taken of a bucket is what the earlier ones left to pay); `Commit`
makes everything visible and lets the locks go; `Abort` rolls back. `Grant`, `Expire`, `ZeroGrant`
(the refund of an order) and `ChangeTeam` (joining and leaving) take no lock, as in the code.
The `UPDATE`s of one payer's buckets are written at the commit, which is when others see them. On SQLite
there is one writer, whose interleavings are a subset.

### VideoJobs

One step is what runs between two awaits, or one transaction of it where a crash may fall in between;
`LoopFree` says that no handler is inside such a stretch. Only `processing` rows are carried across the
`await`, so the stale row in `_settle` is the job's id: what the model reads afterwards from
`status` and `refunded` is only what the code re-reads in its conditional `UPDATE`s. `aged` is
`VIDEO_JOB_MAX_AGE_S`; `Batch` is the `LIMIT 50` of a tick; `Delta` is the sign of real cost less estimate.
The adjustment is two transactions, `Record` (the row) and `Adjust` (the ledger), as is the refund, `MarkRefunded` and `GrantRefund`.

### Workspace

Each dictionary of `workspace.py` is a variable holding ages, counted in passes of the reaper and capped
where they no longer matter. An effect on the backend is a step of its own, so that anything may come
between a decision and its effect. `product` chooses at the start whether the page reports real
interaction (dsh does, others do not) and whether the backend is docker (stops and keeps a container)
or ECI (deletes every instance, clears duplicates when it inspects). `warned` is a history variable:
for how long the standing question has been unanswered by any sign the reaper counts as presence. A deletion on
ECI removes what it can (`Left`), and its caller goes on: an instance is a count by state, and `left` is how many of
them a request has failed to delete. docker may fail to stop or remove, too (`Released`, `Destroyed`).

### The modules around the core

One module is one component; they share conventions. A step reaches from one `await`, transaction or call
of another system to the next, and the state of a caller is a record whose `step` names the place. What is
read before such a place and used after it is a field of that record. A variable called history in its
comment exists for a property and is read by no guard. Systems outside the repository (the cloud, docker,
the GPU node, the providers, browsers) are modelled from how the code uses them; they may lose an answer
after they have acted on it.

- `Gateway`: `call` holds what each request has passed: admitted, body read, asked, streaming. The twelve
  faces (chat, responses, embeddings, Anthropic, Gemini, images, ...) differ in five flags: do they stream,
  hold a slot, look at the balance again, retry after a 400, and may they end unbilled. `Leave` is `_Slot.__exit__`.
- `Avatar`, `LiveRoom`: the claim of a report and its charge are two transactions; the key of a report is its second
  (`stamp`), so that two calls of one tenant may have one key; a line goes to the node by
  a POST that may be spoken although its answer is lost, and is never sent again.
- `Production`: a tick is 30 seconds. `Sample` is `_sample_rate`; `Captions` may sample the node's last
  answer, up to a minute old, as if it were new. The thresholds 0.95 and 0.99 are kept; at one unit of
  video in a tick no rate lies between them, so the hysteresis itself is not exercised.
- `Access`, `DeviceLogin`: a request holds what it read when it began. `token` and `key` carry the epoch they were
  signed with; `Mint` gives a workspace a new token and revokes its predecessor's.
- `Seats`: a transaction is a count followed by a write under the lock of the organisation's row
  (`LockOrg`); SQLite's one writer is a subset of its interleavings.
- `MachineTime`: time is counted in spans; `Drain` is the loop over packs for a minute no plan covers.
- `Gates`: `FastRoute` is the path of an asset that follows another within 30 seconds; `ColdRoute` is the check and
  `ColdAnswer` what follows the await of `ensure_workspace`, with whatever comes in between (`asking`).
- `Preview`: the list is an inspection, a question to the instance (`AskStatic`) and one to its ports (`ListFiles`),
  with awaits in between; `mounted` says whether the server sees the volume at all, which with Kubernetes and boxes it
  does not. An answer of the proxy is a HEAD, a page of
  HTML, or a stream whose generator may never run.
- `Pods`: `local` and `oss` are the volume and the master copy, `marker` the file that allows the sidecar to push.
- `Instances`: every inspection lists, chooses and deletes, several servers at once.
- `SignIn`: a round of a script is one step; a reload of nginx may fail unseen (`Reloads`); the gateway token of an instance differs from that of its predecessor.
- `WaffoCatalog`: looking up, creating, publishing and remembering a product are four steps of a checkout.
- `TeamRoom`: one step is what runs between two yields of the relay's generator; `lock` and `started` are the two
  module variables that stand for a turn. `Rooms` is the same application's disk: temporary file, rename, backup.
- `Film`: `told` is what the tool said last about a shot; the model behind a member may do anything except order
  again what it was told not to. `misled` remembers open orders that a tool hid (a proxy's error, an answer that is
  not JSON, a failed download) or that a turn forgot when it ended; `adrift` are calls whose turn broke off and which go on.
- `Comfy`: `JobFails`, `JobIsMade` and `PaysBack` are the gateway's transactions; a job may fail and then be made, and
  its refund may be lost. `AgentChat`: a file of messages that cannot be read is begun anew (`Loses`), and deleting a
  conversation is two steps.
- `ImageCache`, `SelfHost`, `LocalRun`: a run may be interrupted (`finally` runs) or killed (it does not); docker may
  fail to list or remove a stack, which nobody checks (`deaf`).

## 3. Runs

Run | Instance | Shows
--- | -------- | -----
`orders_race` | 2 orders (plan by stripe, pass by waffo), 2 processes, crashes | `AtMostOnce`, `OnlyPaidIsDelivered`, `StatusNeverRegresses` with repeated, early and late notices, sweeps and crashes anywhere
`orders_settle` | 2 plan orders of one buyer (alipay, wechat), 1 process, no crash, fairness | (the type is left to `orders_race`) payments end delivered, refunds end taken back, one refund costs no other order its days, nothing acknowledged is incomplete, `Sale` is implemented
`orders_crash` | seats and a pack, 1 process, crashes | **violated**: a crash inside `fulfil` leaves a paid, acknowledged order incomplete
`orders_waffo` | 2 plan orders by waffo, fairness | **violated**: a refund notice that overtakes the payment notice is lost
`videos` | 2 jobs (dearer, cheaper), a client poll and the loop, 1 crash, fairness | one refund at most; without a crash each failure is refunded and each success settled, in its row and in the ledger; a success keeps a refund only if its time had run out; every stored job ends
`videos_adjust` | 1 job, 2 client polls and the loop | **violated**: the adjustment can happen twice
`ledger` | 2 members of an organisation, 3 buckets of one credit, a request of price 2, 2 transactions | charged once, every credit accounted for, none drained twice, no deadlock of locks, soonest expiry and organisation first
`ledger_refund` | the same | **violated**: a refund during a spend leaves a bucket below zero
`workspace` | 1 workspace, dsh on docker or another product on ECI, 2 requests, a deletion that may fail, fairness | one instance and what could not be deleted, stopped only after a silent question, reclaimed when abandoned
`workspace_traffic` | dsh, idle limit 2 minutes | **violated**: traffic does not take the question down
`platform` | 24 small instances, chosen by the initial state | what the components of section 2 promise, see below
`pods_master` | 1 Pod, 2 files | **violated**: a listing that fails is taken for an empty directory, and the next push empties the master copy

The properties of `platform`:

Property | Of | Says
-------- | -- | ----
`TypesOK` | all | the type invariants of the parts
`SlotsMatch` | `Gateway` | requests counted in flight are those that hold a slot, however they end
`BillsAreTrue` | `Gateway` | served is billed once, not served is not; debt comes only from calls admitted in credit, or blindly
`SpokenAndChargedOnce` | `Avatar`, `LiveRoom`, `Production` | reports of one key charged once, unless the charge failed behind the claim; lines spoken and billed once; the last report of a room is what its sampler knows
`OrderedOnce` | `Film` | nobody orders a shot again while he knows of an open order of it
`TokensStayTheirs` | `Access` | a dead token stays dead, and a new one replaces that of its own workspace
`ADeviceForAnApproval` | `DeviceLogin` | a user has no more devices of a code than approvals he gave it
`QuotasHold` | `Seats`, `MachineTime` | nobody joins over the seats; what a minute takes beyond the plan comes from live packs, whole if they hold it, in the order they expire
`RightsComeFirst` | `Gates`, `LocalRun` | no asset goes to a request that had no pass when it was let in; a refused run leaves alone what runs
`DeliveredInOrder` | `TeamRoom` | a member works only after all before it, also when members were removed while no relay ran
`GoodCopiesStay` | `Pods`, `Rooms`, `ImageCache`, `Preview` | no half copy is pushed; no archive is written over unread, unless the disk looked new or two threads wrote; no used cache is swept; where volumes are mounted, what stays is listed
`OneOfEach` | `Instances`, `Boxes`, `WaffoCatalog` | one instance survives, an address has one owner, checkouts in turn use one product of an item
`ModelsAreCurrent` | `SignIn` | the default models of a product that was set up have the token of now
`ResultsArrive` | `Comfy`, `AgentChat` | a node ends as its job had ended; an answer is kept though its page has gone, unless the file of messages fails or is deleted
`IntakeHolds` | `Intake`, `Preview` | slots and bodies keep their limits; connections are given back
`NothingHalfDone` | `ImageCache`, `SelfHost`, `LocalRun` | no address or cache is left by a build that ended, no secret beside another call's settings, no stack that failed up in part, as far as docker obeys

Where a property says "unless", the case is one that the code does not master; section 6 lists it.

### Bounds, and why they are enough

- *Orders*: two orders are needed for a shared subscription row, two workers for a race; guards never
  compare more than one other order or worker, and the theorems of section 5 hold for any number. There
  is no bound on repeats or crashes: `outbox` is a set and the state space is finite by itself.
- *Ledger*: three buckets give a price of 2 every case: within one bucket's payer, across buckets, across
  payers, and into debt. Repetition of the one request id by both members and both transactions is what
  duplicates need. `ShortLived` bounds which buckets expire (the member's own); a bucket that expires
  during a spend is still drained, as the code reads the clock once. The two spenders are symmetric; no
  temporal property but an action property is checked under that symmetry.
- *VideoJobs*: `MaxCrashes` = 1 bounds the crashes; a crash forgets everything in flight, so a second one
  restarts the same game. Two jobs and `Batch` = 2 make a tick go on from one row to the next, with a
  client at work on either; `videos_adjust` has two clients, because the fault needs a late poller.
- *Workspace*: the defaults are 3 minutes of grace, 15 of idleness, 30 without an agent call and a question
  of 2 minutes (`config.py:375-379`, `675-678`). The run keeps the 2 minutes and shortens each of the other
  limits to 1: they are compared with ages one by one, and every age still may be below or above its
  limit independently of the others. `workspace_traffic` has an idle limit above the grace, as the defaults
  have; an idle limit below the agent's is in neither. Both requests address one workspace, so that one
  may hold the lock while the other, or `Stop`, comes by; `Cap` = 1 makes the capacity check bite. `MaxLeft` = 1
  bounds the instances that a request fails to delete: one is enough for a second beside the new one, and for a later
  request or release to try it again.

- *Platform*: its state space is the sum of its parts', about 1.8 million states, because the initial state
  chooses the part and every step belongs to it; a part loses nothing by being checked beside the others, but
  nothing is said of their composition. Each part has two actors wherever the code has concurrent ones
  (calls, requests, checkouts, servers, tabs), and one where a second shares no state with it or where one with
  its retries is what the property needs: `Film` has one hand, `Production` and `Rooms` one room, `Pods` one Pod, `ImageCache` one run of the script (two overlapping runs were checked apart, 3.7
  million states). Constants called `Max...` bound retries, restarts, lost answers, epochs, rows or time and
  are one or two: the properties are violated by their mutants well below them. `Gateway!Limit` is 1 with two
  calls, so that the limit bites; `Seats` offers 2 seats to 3 users and 2 requests; `MachineTime` has a plan of two minutes,
  two packs of one, and a time of two spans, so that a pack expires between two minutes; `Instances` has 2
  servers and 2 groups; `Avatar` has two calls of one tenant, one of them with somebody to speak (`Speakers`), and two `Seconds`
  for their reports to fall into, the same or not; `TeamRoom` 3 members, 2 messages and a roster without one of them.

Deadlock is checked everywhere except in `platform` and `pods_master`, where finite numbers of requests,
retries and time run out, and in the two video runs: a system whose jobs have all ended, with no
job left to submit and no crash left to happen, has nothing to do.

## 4. Fairness

- `Orders!Fairness`: a worker that has begun goes on (weak fairness of `Handle`; crashes are off where
  liveness is checked), and each notice in the outbox that can be delivered again and again is delivered
  (strong fairness per notice): providers repeat a notice until it is acknowledged. Nobody has to pay, to
  refund, to announce early or to run the sweep.
- `VideoJobs!Fairness`: `reconcile_loop` catches every exception and sleeps, so it ticks again (strong,
  because the loop is not free all the time); a question to the upstream ends in an answer or a timeout;
  handlers that wait for the event loop get it; time passes. The upstream and clients need do nothing.
- `Workspace!FairSpec`: weak fairness of the reaper alone, written as `[]<>` of a step of its pass, because a pass can go on in every state and each step moves `reaper`: `billing_reaper_loop` catches every exception
  (`workspace.py:1834-1850`), and its step is to release with success: a deletion that fails (`StopFails`) is a step of the
  environment, so that the fairness says that the cloud does not refuse one and the same deletion for ever. `AbandonedIsReclaimed` is about workspaces that from some time on see no
  request, heartbeat, interaction, agent call or restart.

- `platform` assumes no fairness: its properties are safety. `Avatar!CallsEnd` states under `FairSpec` that a
  call whose page has gone ends; it is in no run yet.

## 5. Proofs

TLAPS checks these for every value of the constants. The constants' assumptions are named in the modules
that declare them, and TLC evaluates them in every run: each order has one of four kinds and providers
(`Orders`); users and organisations are distinct, there are finitely many of everything, prices and amounts
are naturals (`Ledger`); the sign of an adjustment and the batch of a tick are what they are called
(`VideoJobs`); products and ages likewise (`Workspace`); and for each part of `Platform` what the
hypotheses below say of it.

Theorem | What it says | Hypothesis
------- | ------------ | ----------
`Orders_proofs!TypeCorrect` | `TypeOK` |
`ExactlyOnce` | `AtMostOnce`: no piece of an order is handed out twice |
`PaidBeforeDelivered` | `OnlyPaidIsDelivered` |
`NoRegress` | `StatusNeverRegresses` |
`NeverTakesTooMuch` | `NeverOvertaken`: nothing is taken back that was not given | one worker, no crashes
`PaidIsHandedOver` | `AckedPaymentsDelivered`: what is acknowledged was handed out | no crashes
`PromiseKept` | `KeepsThePromise`: `Orders` implements `Sale`, step by step | one worker, no crashes
`OneProductOnSale` | `OneProductEach` of `WaffoCatalog` |
`Ledger_proofs!TypeCorrect` | `TypeOK` |
`NeverChargedTwice` | `ChargedOnce` |
`DeadlockFree` | `NoDeadlock` |
`NoCreditIsLost` | `Conserved`: what is left is what was granted, less what was charged and taken back |
`NothingIsSpentTwice` | `NeverDrainedTwice`: without a refund no bucket goes below zero |
`SoonestGoesFirst` | `SpendsInOrder` |
`VideoJobs_proofs!TypeCorrect` | `TypeOK` |
`NeverRefundedTwice` | `RefundedAtMostOnce` |
`FailuresArePaidBack` | `FailedIsRefunded` |
`SuccessesArePaidFor` | `SuccessIsPaidFor` |
`NoOrderBesideOneKnown` | `OrderedOnce` of `Film` |
`BatonInOrder` | `DeliveredInOrder` of `TeamRoom` | `Lists`
`Workspace_proofs!TypeCorrect` | `TypeOK` |
`OneInstanceAndTheUndeleted` | `OneInstance` |
`NobodyIsStoppedUnasked` | `AskedInSilence` |
`Gateway_proofs!TypeCorrect` | the types of `Gateway` | `Bounds`
`EverySlotIsGivenBack` | `SlotsMatch`: a slot is held by exactly the streams that run | `Bounds`
`BilledOnce` | `BilledTruthfully` | `Bounds`
`OverdraftIsBounded` | `OverdraftIsPending`: what a user owes was asked for by calls let in before, or lost bills allowed | `Bounds`
`DownloadsWithinLimits`, `StrangersBodiesStaySmall` | `WithinLimits`, `StrangersStaySmall` of `Intake` | `Doors`
`Parts_proofs!SeatsTypeCorrect` | `TypeOK` of `Seats` | `Seating`
`NobodyOverTheSeats` | `SeatsHold` | `Seating`
`ADevicePerApproval` | `ADeviceForAnApproval` | `Named`
`SpokenAndBilledOnce` | `SpokenOnce` |
`MinuteOnce` | `MinutesChargedOnce` of `Avatar` |
`EveryAnswerIsKept` | `AnswersAreKept` of `AgentChat` |
`NeverOverUnread` | `ReadBeforeWritten` of `Rooms` |
`ReportedAsItIs` | `EndsAsTheJob` of `Comfy` |
`AnAddressEach` | `OwnAddress` of `Boxes` | `Net`
`OneIsLeft` | `OneSurvives` of `Instances` |
`HalfIsNotPushed` | `NoHalfPush` of `Pods` |
`UpIsWhole`, `RefusedIsHarmless` | `StacksAreWhole`, `RefusedTouchesNothing` of `LocalRun` | `Sidecars`
`FilesOfOneCall` | `OneDeployment` of `SelfHost` | no call is called "none"
`DefaultsHaveTheToken` | `DefaultsAreCurrent` of `SignIn` | `Offered`
`LockComesFirst` | `AssetsNeedAPass` of `Gates` | no product is called `Quiet`
`ListedAsTheyAre`, `NoConnectionLeaks` | `FilesAreListed`, `ConnectionsReturn` of `Preview` |
`LastReportIsTrue` | `ToldAsKnown` of `Production` |
`JudgedWithinTheWindow` | `WindowHolds` of `Production` | `Windowed`
`NothingIsLeft`, `SweepSparesOthers` | `NothingLeftBehind`, `SparesTheOthers` of `ImageCache` | `Grouped`
`PacksPayInOrder` | `DrainsInOrder` of `MachineTime`: what the plan does not cover is drawn from the live packs, the first to expire first | `Metering`
`AccessTypeCorrect` | `TypeOK` of `Access` | `Naming`
`RefusedForGood` | `DeadStaysDead`: a token once refused is refused for ever | `Naming`
`RevokesItsOwn` | `ReplacedByItsOwn`: a workspace's new token revokes only its own | `Naming`
`Platform_proofs!SlotsAlwaysMatch`, `BillsStayTrue` | `SlotsMatch`, `BillsAreTrue` |
`OnceIsOnce` | `SpokenAndChargedOnce` |
`NoOrderBesideOneKnown` | `OrderedOnce` |
`TokensAreNeverTaken` | `TokensStayTheirs` |
`DevicesAreApproved` | `ADeviceForAnApproval` |
`QuotasAreKept` | `QuotasHold` |
`RightsAreAsked` | `RightsComeFirst` |
`RelaysKeepTheOrder` | `DeliveredInOrder` |
`GoodCopiesAreKept` | `GoodCopiesStay` |
`DuplicatesAreSettled` | `OneOfEach` |
`ModelsStayCurrent` | `ModelsAreCurrent` |
`AnswersArrive` | `ResultsArrive` |
`IntakeIsBounded` | `IntakeHolds` |
`ToolsCleanUp` | `NothingHalfDone` |

The hypotheses `Bounds`, `Naming`, `Seating`, `Named`, `Net`, `Sidecars`, `Offered`, `Grouped`, `Doors`, `Lists`, `Windowed` and
`Metering` stand where an assumption would: sets of users, calls, downloads, products and packs are finite, bounds and addresses are naturals, the default models
are among those on offer, a roster is a list of members, a group of images has an image, and names that stand for "nobody", "none", the cloud ("eci") or a
container of every product ("init", "main") are nobody else's. `~Crashes`
and `OneWorker` restrict the program and are real limits: `orders_crash` shows that the second and third of the
theorems that need them fail after a crash between the commit of `mark_paid` and `fulfil`. The deployment
starts the service with one worker.

The theorems of `Platform_proofs` have no hypothesis: `Platform` assumes of each part what the theorems about it
need (`GatewayAssumption` and so on), and the run `platform` evaluates these assumptions for its own constants.
They are the properties of that run, for all values of the constants. A part keeps its property in the
platform because a behaviour that looks at a part looks at it for ever (`PartStays`), its first state is a first
state of the part (`FirstOfPart`) and each of its steps one of the part's or a stutter (`StepOfPart`): so it is a
behaviour of the part's own specification, which is what the theorem about the part speaks of (one lemma
`...Keeps` per part), and where another part is looked at the property says nothing. `SameSums` and `SameTerms`
say that a sum or a cardinality in the platform's instance of a module is that of the prover's. The modules
`Gateway_proofs`, `VideoJobs_proofs` and `Orders_proofs` are instanced with no jobs and no orders, of which their
theorems about `Intake`, `Film`, `TeamRoom` and `WaffoCatalog` say nothing.

### Orders

*Type.* `TypeOK` is not inductive: a worker's position must lie within its plan, or `Fulfil` would hand
out a piece that is none. `TypeInv` adds `InPlan`.

*Exactly once.* That no count exceeds one says nothing about the worker about to raise it. `OnceInv` adds
three facts: before the order is sold nothing has been given and nobody is fulfilling it
(`NothingBeforeSale`), at most one worker is fulfilling an order (`OneFulfiller`: only `Mark` starts one,
and only from an unsold status, which it leaves for good), and everything at or after a fulfilling
worker's position is still at zero (`AheadIsEmpty`, where the absence of repetitions in each plan is
needed). A crash removes the one fulfiller, and nothing makes another.

*Paid.* `MoneyInv` follows the money from the provider to the row: a "paid" notice in the outbox, a
confirmed notice in a worker's hands and a sold order each imply that the provider has had the money. The
early notices are why `Confirmed` must ask again, and waffo may go without because it sends none.

*Handed over, taken back, promised.* `HandoverInv` says that a sold order has all its pieces or somebody
is at it, who has handed out what is behind him: without crashes he never disappears. `TakenInv` says that
before an order is refunded nothing of it is taken back, and that a revoking worker has the subscription
still to take; with one worker nobody hands out meanwhile. `PromiseKept` maps each step to one of `Sale` or
to a stutter, under all of these invariants (`ShopInv`).

### Ledger

`LedgerInv` says that a spend's payers are an organisation and then its user, or its user alone
(`PayersInv`), that it holds exactly the locks it has got to (`HoldsInv`, `HeldInv`), and that past the
duplicate check its request is still uncharged (`UnpaidInv`). Two spends of one user cannot both be past
the check, because the user's own lock is always the last of each: this is why a change of membership
between two attempts does not matter. Deadlock-freedom follows from the order of the locks: who waits for
a user's lock waits for a holder that has all it needs, and who waits for an organisation's waits for a
transaction that either goes on or waits for a user's.

`BooksInv` adds what the sums need: a basket holds only issued buckets of payers its transaction has got to,
and is empty before and after (`BasketInv`), so two baskets never meet in a bucket; what is in a basket is
still in its bucket, unless a refund took it (`CoveredInv`); a bucket that was not issued is empty
(`UnissuedInv`); and a spend that has reached a later bucket, or has still to pay, has set aside all of the
earlier ones (`OrderInv`). The laws of the sum over a finite set (`Sums_proofs`: of the empty set, of one
member and the others, of a change at one point, of two functions added) are proved from the fold itself by
the smallest counterexample, because the library's induction takes an operator as a parameter.

### VideoJobs and Workspace

`JobsInv`: one handler is inside a stretch between two awaits (`OneAtATime`); a refund is paid by the one
poll that has set the mark, and not before (`MarkFirst`); a failed or marked job has its refund, or the poll that
is to see to it (`RefundComing`), and so for the row and the adjustment of a good one (`AdjustComing`). The last two are
about runs without a crash, as are the properties. `HonestInv` follows the upstream's word, which is given once: who
lands a success has it from there, and a refund is paid or about to be paid only for a job that the upstream failed or
whose time is up; so a refund of a success says that its time was up.

`InstanceInv`: one request at a time is in `ensure_workspace` for a workspace (`OneAtATime`), and ECI is asked
to create only where all that is there is what it failed to delete (`RoomToCreate`); docker gives a name to one container
(`NamesAreUnique`). `SilenceInv` relates the
history `warned` to the ages the reaper reads: while a question stands, either the silence is as old as the
question, or the sign that has broken it is recent enough for the reaper's next look (`Present`).

### The platform

`GatewayInv` adds `BillInv`: a call is not billed before its end, and has begun only when it streams or has
been answered. The lemmas move one call at a time and say what that does to the slots its user holds and to his
open calls, which are cardinalities. `AccessInv` says that no token, and no request about to sign one, carries
an epoch its user has not reached (`NotAhead`), so that raising the epoch refuses all of them at once.

`SeatsInv` is the argument for `FOR UPDATE`: a request that has counted holds its team's row, alone, and the
seat that was free when it counted is still free (`CountInv`), because others only leave; an invitation
is in the hands of one request and unused until that commits (`ClaimInv`); nobody has been invited to a team that
does not exist, so founding never meets a join (`InviteInv`). Without the lock `CountInv` fails for two who
counted at once, which is the mutant of `LockOrg`.

`LoginInv` strengthens "no more devices than approvals" to "fewer while the code stands approved", which is
what the poll's conditional `UPDATE` uses up. A late second approval adds to both sides, which is why the
property is about approvals and not about codes (`OneDevicePerCode` fails).
`RoomInv` says for each place of a line what was said and billed there: nothing before the answer, the bill
before the microphone.

`MinuteInv` follows the key of a report: what was charged was claimed first, no two reports of one key are charged, and
a key that was claimed has a report that was charged, unless the process failed between the two (`torn`). `KeepInv` says
that a turn has said nothing before its agent runs, and has kept it, or lost it to the file of messages, when it is over.
`MakeInv` relates what a node shows to the ends the job at the gateway has had (`been`), of which there may be two.
`MarkInv` is all that `Pods` needs: a volume that came down in part has no mark, and the sidecar
looks for the mark.

`ArchiveInv` says that what both archives share is in the memory of a store that has read one of them, that a
store which could not read has no writer at work (`HealthySave`), and that one writer at a time is between its
backup and its rename (`OneSaves`); the first and the last as long as there is no `doubt`, the history of saves that
overtook each other and of starts that saw nothing of a disk in use.

`SurvivorInv` is about the newest duplicate: its number is the highest ever given, every server keeps the
highest it has listed, so nobody has it on the list of what to delete. `BoxInv` says who owns an address: rows do
not share one (`RowsApart`), a tunnel is that of its computer's row (`TunnelsOwned`), and a request between its
row and its tunnel still has that row, or a computer that was deleted meanwhile (`WorkSound`).

`LocalInv` gives for each place of the terminal what runs of the stack (`StackRuns`) and, where docker has done as it
was told, what is gone (`StackClean`); the longer name of another product shares none of its containers. `HostInv` says that who is behind the copy of
the configuration has written every file since (`WritesItsOwn`): of all that began on the empty directory one gets
through `CopyConfig`, because `copytree` makes the directory itself, and who wrote the state writes no more
(`Authored`).

`SignInv` says that a default the script has behind it has the token of now. `ViewInv` is the types,
`ConnectionsReturn` itself, and `StayedKept`: files that have stayed since a tab asked are on the disk, and in what the
instance said, if it said anything. `AssetsNeedAPass` needs no invariant: who is in `asking` was asked for his pass when
he came in, and every other answer asks in its own step. `ToldInv` holds because a sample judges and tells in one step.
`WindowInv` says that the samples ascend in time and in edge and that none is of the future; the window then follows,
because a sample taken now is within it, and what is dropped is dropped from the front.

`MeterInv` says that the log and the packs hold naturals, so that their sums are naturals, and that nothing is written
down for the spans to come. `DrainsInOrder` is then a fact
about one draw: what a pack gives is the least of what it has and of what the earlier packs have left to pay, and
the laws of the sum (`Sums_proofs`) add up what all of them gave.

`ImageInv` follows a run of the script: one that was refused nothing holds its address while it builds, knows the one
cache it builds (`Unfinished`), and has none of either anywhere else (`BuildSound`). Caches only grow older (`Older`),
so what the list showed as failed, or as known to no product, still is when the sweep comes (`StaleSound`).

`DoorInv` equates three counts while no download is slow: the fresh slots, in all and of each address, are the downloads
that send. A download gives its slot back once, with its last byte or when the client is gone, and never both. `BodyInv`
says what a stranger has been read: a small body, or for a route that reads it in the handler nothing at all.
`FilmInv` says that an order which is being made, or whose film waits, is one its member waits for, was told not to
repeat, or was misled about, and that nobody shoots what he was told to leave. In `RoomInv` everything before the place at which the room
stopped was handed over, and a turn that goes on has the room's own list: two turns may go on at once, so a change of
the roster is forgiven (`meddled`) until a turn starts at the first place while no other goes on. `GoodsInv` is about an
item that is not excused: its product on sale is the one that is cached, or can be found by its name (`Known`), and who
is about to make one is alone at it and there is none (`Alone`).

### Not proved

Liveness (`EveryPaymentDelivered`, `EveryRefundTakenBack`, `EveryJobEnds`, `AbandonedIsReclaimed`) and
what needs fairness or ENABLED stay with TLC. So does `TypesOK` of the platform, the types of the parts: where an
invariant needs a part's types it has them, but no theorem states them for all parts.
The prover's limits shaped seven definitions. A subsequence chosen with `SelectSeq` cannot be reasoned about, so a tick of
`VideoJobs` is a relation between the rows and the batch, with the same outcomes, a member leaves the roster of `TeamRoom`
from his first place, and the times of an address's downloads in `Intake` are two counts, of those that are stale and of
those that are not. The sums of `Ledger` and `MachineTime` are a
fold, not a `RECURSIVE` operator, and `Points` of `Production` names the place from which a list of samples is kept. `Workspace` builds the record of an instance with one operator (`Box`).

## 6. Where the code and its documents disagree

Each is a run whose one property is what a comment says and whose counterexample is what the code does.

1. `orders_crash`: `api.py:9-10` says fulfilment runs exactly once. It runs at most once: `mark_paid` is
   committed before `fulfil` begins, so after a crash in between, the repeated notice finds the order paid,
   hands out nothing and is acknowledged.
2. `orders_waffo`: `base.py:5-6` says the provider is queried before any fulfilment. The waffo handler
   does not, and a payment notice that arrives after its refund notice hands out goods for money that has
   gone back.
3. `videos_adjust`: `media.py:720-721` says the adjustment can happen only once. The `UPDATE` that records
   a failure has no condition, so a late poller may un-succeed a job, and the next success adjusts again.
4. `ledger_refund`: `base.py:389` says a refund never makes a balance negative. It takes no lock, and a
   spend that has read the bucket drains it after it was zeroed.
5. `workspace_traffic`: `workspace.py:91` says that any sign of presence, traffic included, takes the
   question down. Traffic refreshes `_last_seen` only, which does not count as presence for dsh.
6. `pods_master`: `workbackend.py:785-788` says that a copy that did not come down whole is never pushed.
   `rclone lsf ... 2>/dev/null | grep -q .` (814) cannot tell a failed listing from an empty directory, so
   the marker is set on an empty volume and the next `rclone sync` deletes the user's files.

Found in the same way, by properties that stand in the modules but in none of the runs. Each fails under
the small constants of `platform`, or with two of what it has one of (`Orgs` of `Seats`, `Hands` of `Film`,
`Rooms` of `LiveRoom`); that of `VideoJobs` fails under those of `videos_adjust`. The rows marked as hazards were met in reading and have no property:

Module and property | What the code does
------------------- | ------------------
`VideoJobs!OnlyFailuresAreRefunded` | only what failed is refunded, says `media.py:20-21`. A success lands on every row that is not `succeeded` yet (715), also on one that was given up on by its age and refunded: the user has film and money
`Gateway` (hazard) | admission looks at the requests in flight, and a request counts itself only when its stream starts: requests admitted together overrun the limit (`gateway.py:86`)
`Avatar!SaidIsCharged`, `EveryMinuteIsCharged` | "what was said is charged, broken off or not" (`avatar.py:421`): the amount comes from the usage in the last chunk, so a stream that breaks off before it is charged nothing. Two calls of a tenant that report the same minutes in one second share a key, and the second report is acknowledged and not charged (188)
`LiveRoom!OneAnswerAtATime`, `WithinCapacity` | the cooldown is read before an await and set after it (`live.py:1284`); rooms on air are counted from a cache (505-508)
`Production!SlowIsTrue`, `RecoversFromItsOwn` | `captions` samples an answer that `_room_status` kept (533-543), with the time of now: a healthy room is reported slow, against `tests/test_live_incidents.py:60`. A stop clears the samples but not `slow` (1045-1047): the next broadcast "recovers" from its predecessor
`Access` (hazard) | two requests may use one mail code (`accounts.py:251`, 267)
`DeviceLogin!OneDevicePerCode` | two approvals that both read the pending row both write `approved`, without a condition (`device_auth.py:86-89`). If a poll has consumed the code in between it is approved again, and the next poll makes a second device (184-186)
`Seats!OneOrganisation` | "at most one org" (`teams.py:13-15`) is asked before it is written, and the key of `org_members` is the pair: two requests of one user, founding or accepting, make him a member of two
`TeamRoom!GateHolds` | the relay looks for the name of the halting tool in the summaries of tools, and the tool's summary does not have it (`main.py:245`, `tools.py:144-150`): it never halts for an answer, except when a shell command mentions the tool. A disconnect in a leg leaves `resume_at` unwritten, and the members of that leg work again; a removal while the relay runs leaves the index of the old list in use, and somebody may be left out (285-291); the late end of a lost turn releases its successor's lock (`main.py:28-31`)
`Pods!SecretAwaitsPod` | a new Pod's Secret is made some time before the Pod counts as there; a release that ends in between deletes it, with the old Pod gone and the new one waiting (`workbackend.py:1528-1529`, 1569-1574)
`Instances` (hazard) | an exception at one backend ends the release that should ask all of them (`workbackend.py:1664-1671`)
`Boxes!NoStrayBox`, `StoppedIsIdle` | two requests that ask for a box at once both order one, with the same free address; the row of the second is refused (`tunnel_ip` is unique, and so is the user), and its box runs on without one (`boxbackend.py:176-188`). The reaper counts containers, awaits, and stops the box under a product that started meanwhile (413-425)
`SignIn!MarkedMeansIn`, `DefaultsAreChosen`, `NotStartingForEver` | the marker of a ready product is dropped though `nginx -s reload` has failed (`products.py:697`, 711-719, 1205-1209), after the last try of Coze without a session at all, and it stays when the session ends; a default model that is stored but not chosen is not tried again (`products.py:552-568`); a script that gives up at its last retry ends without dropping the marker, and the page waits for ever (3217, against 499 and 1193)
`Comfy!FailedIsPaidBack`, `PictureEndsAsTheCall`, `OneLookIsNotForEver` | "refunded in full" (`api_shim.py:187-196`) is added to every failure, but the refund is a transaction behind that of the failure and may be lost, and the job may still be made; a picture whose answer is lost on the way counts as failed, while the gateway finishes it and charges for it; an empty catalogue is kept for good (`api_shim.py:121-139`)
`AgentChat!AnswersStay`, `StopIsHeard`, `DeletedStaysDeleted` | a file of messages that cannot be read counts as empty and is written over with the next one (`sessions.py:27-32`, 91-96), and the oldest of 400 go; a stop sent during a turn is read from the socket when the turn is over (`main.py:332-333`); binding the agent's session writes back a list that was read before the conversation was deleted (`sessions.py:67-84`)
`MachineTime!WindowHasBegun`, `PoolIsDrawn` | renewing before the period ends moves the start of the counting window into the future, where nothing used counts (`work_access.py:39-52`, `plans.py:77-108`); the pool of a team is counted but never drawn from (19)
`Gates!PassStillCounts`, `LockedStaysShut`, `PassesAddUp` | a pass that ends while the workspace is awaited still opens it (`workspace.py:1008-1041`); the shell and the waiting page start a locked product without asking for its pass (`workspace.py:1084-1121`, 1432-1469, against 1005-1007 and `work_access.py:164`); of two passes sold at once both extend the same expiry (`work_access.py:211-230`)
`Preview!AsleepIsListed`, `AssetsComeFromTheirPage` | of an instance that sleeps or does not answer nothing is listed where the server has no mount of the volume, as with Kubernetes and boxes (`workbackend.py:130-136`, 289-295); one cookie serves all tabs: with pages of two ports open, the assets of one come from the other (`workspace.py:951-953`)
`Rooms!RoomsComeBack`, `AGoodCopyStays`, `FirstIsFirst` | the loop and a thread both save: the older archive may be put in place last, and a crash then brings back the older rooms (`rooms.py:222-225`); a damaged archive is copied over its good backup by the next save (301); a first start may be taken for a failed one (259)
`Film!DoneIsWhole`, `NeverPaidTwice`, `ShotPaidOnce`, `ProgressIsHeard`, `ClicksOnItsOwn` | a clip is written in place, and half of one counts as done (`media.py:161`, 300-302); a shot is paid for again after a proxy's error on an order that was taken, an answer that is not JSON, which raises out of the tool (283), a failed download, or a turn that broke off, with which the tool's word is gone (`agent.py:285-298`, `rooms.py:436-443`), against `media.py:223-225`; two members may order the same shot (170), and share progress and page (`agent.py:274-297`, `browser.py:74-75`)
`WaffoCatalog!NoDuplicates`, `UsedIsPublished` | a name over 64 characters is cut when it is created and looked for uncut, so a lost answer makes a second product, and so do two checkouts that both look before either creates (`waffo_provider.py:256`); the id is remembered before it is published and used by the next checkout although that failed (309-328)
`Intake!AlwaysWithinLimits` | a download that takes longer than the age at which a slot counts as leaked is counted no more (`release_throttle.py:10`)
`ImageCache!KilledCleansUp`, `ServedStays` | a run ended by SIGTERM keeps its address (`eci_image_cache.py:329`); a sweep spares what was enabled when its run began, and takes the cache of what was deployed since
`SelfHost!StartGetsOn`, `SecretIsMounted` | a run killed before the state is written makes every later one refuse (`cli.py:22`, 229-232); of two first starts at once the second copies the template over the compose file in which the first has mounted the secret
`LocalRun!StoppedIsGone`, `RevokedRunsNothing` | what docker fails to list or to remove runs on, and `stop` says it stopped it (`aistore-local.py:280-283`); the containers of a revoked device keep its token until they stop

## 7. Not modelled

Pages, prompts, rendering, request and signature formats, conversions between the vendors' message formats,
mount layouts, image builds, installers and third-party patches are input, output or data without state of
the service. Left out of modelled parts: the running-count failure path and host memory limits (`Workspace`),
`capacity_reason` and `running_users` of the routed backends, reports of viewers and the list of comments
(`live.py`), hints of how long a start takes (`workspace.py:1600-1655`), endpoints that only read,
`rate_limit.py`, whose window is local to one lock, the npm twin of the self-hosting command, and the
scheduling of `_run_room` (agents' team `main.py:298-339`), whose members `Film` takes to run side by side.
`PROJECT.json` says for each part what is left.

Hazards that are known and no property covers: the balance read before the upstream is asked for a video
(`media.py:574`), a death between charge and insert (`media.py:603`), settlements that keep failing and fill
the batch (`media.py:772`), the intro price of checkouts at once (`payments/base.py:262`), the capacity read
before creation and the presence wiped after a stop (`workspace.py:424`, 1827).

## 8. Plan

1. The types of all parts of `Platform` as a theorem, from the invariants that contain them.
2. Abstract specifications: a ledger whose spend is one atomic step, implemented by `Ledger`; a job that
   is charged, then ends settled, implemented by `VideoJobs`. The invariants they need are proved.
3. Compositions: `Orders` with the passes of `Gates` and the minutes of `MachineTime`, so that a refund meets
   dates and not counts; `Gateway` over `Ledger`.
