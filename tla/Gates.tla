------------------------------- MODULE Gates -------------------------------
(***************************************************************************)
(* The gates of the workspaces (workspace.py) and the passes that open the  *)
(* locked ones (work_access.py).  A workspace is opened from the site       *)
(* (work_entry) or from its own domain, where the document (work_shell) and *)
(* every asset (work_route) ask anew; an asset that follows another within  *)
(* half a minute is let through fast, and a waiting page stands where the   *)
(* workspace is not ready.  What becomes of an instance is the business of  *)
(* module Workspace, how minutes run out that of module MachineTime.        *)
(*                                                                         *)
(* Passes are counted in spans of time, of which there are MaxNow; the half *)
(* minute is a step of its own within a span.                               *)
(***************************************************************************)
EXTENDS Integers, FiniteSets, FiniteSetsExt

CONSTANTS
    Products, Locked,
    Sales,          \* orders that bring a pass
    MaxNow          \* bounds time

VARIABLES
    now,
    spent,      \* have the user's minutes run out, or his credits?
    passes,     \* work_passes: what they open, until when, and who gave them
    sale,       \* of each order: has its delivery read the passes there are?
    box,        \* the workspace of each product, as ensure_workspace leaves it
    seen,       \* products whose _last_seen is younger than half a minute
    waiting,    \* products whose waiting page stands in a browser
    said,       \* the last answer: an asset of a product, or something else
    asking      \* products of assets that wait for ensure_workspace, their
                \* checks behind them

gateVars == <<now, spent, passes, sale, box, seen, waiting, said, asking>>
papers == <<now, spent, passes, sale>>

PASS_ANY  == "any"
PassSpans == 1
Quiet     == "quiet"

TypeOK ==
    /\ now \in 0..MaxNow /\ spent \in BOOLEAN
    /\ passes \subseteq [opens : Products \union {PASS_ANY}, until : Nat, by : Sales \union {"admin"}]
    /\ sale \in [Sales -> {[step |-> "open"], [step |-> "done"]} \union [step : {"reads"}, base : Nat]]
    /\ box \in [Products -> {"none", "starting", "running"}]
    /\ seen \subseteq Products /\ waiting \subseteq Products /\ asking \subseteq Products
    /\ said \in Products \union {Quiet}

Init ==
    /\ now = 0 /\ spent = FALSE
    /\ passes = {} /\ sale = [o \in Sales |-> [step |-> "open"]]
    /\ box = [p \in Products |-> "none"]
    /\ seen = {} /\ waiting = {} /\ said = Quiet /\ asking = {}

-----------------------------------------------------------------------------
(* Passes.                                                                  *)

\* grant_pass: where the pass begins is read before the transaction.
PassEnds(p) == Max({0} \union {a.until : a \in {a \in passes : a.opens = p /\ a.until > now}})

PassReads(o) ==
    /\ sale[o].step = "open"
    /\ \E p \in Locked : sale' = [sale EXCEPT ![o] =
          [step |-> "reads", base |-> Max({now, PassEnds(p)})]]
    /\ said' = Quiet
    /\ UNCHANGED <<now, spent, passes, box, seen, waiting, asking>>

PassInserts(o) ==
    /\ sale[o].step = "reads"
    /\ \E p \in Locked : passes' = passes \union
          {[opens |-> p, until |-> sale[o].base + PassSpans, by |-> o]}
    /\ sale' = [sale EXCEPT ![o] = [step |-> "done"]]
    /\ said' = Quiet
    /\ UNCHANGED <<now, spent, box, seen, waiting, asking>>

\* An administrator opens the whole wall for a user, and shuts it again.
Exempt ==
    /\ passes' = passes \union {[opens |-> PASS_ANY, until |-> now + MaxNow, by |-> "admin"]}
    /\ said' = Quiet
    /\ UNCHANGED <<now, spent, sale, box, seen, waiting, asking>>

RevokeLockExemption ==
    /\ passes' = {a \in passes : a.opens # PASS_ANY}
    /\ said' = Quiet
    /\ UNCHANGED <<now, spent, sale, box, seen, waiting, asking>>

PassActive(p) == \E a \in passes : a.opens \in {p, PASS_ANY} /\ a.until > now
CanOpenLocked(p) == p \in Locked => PassActive(p)

-----------------------------------------------------------------------------
(* The gates.                                                               *)

\* ensure_workspace: it creates, it finds that the page is not there yet, it
\* finds it ready, or it turns the request away.
Ensure(p) ==
    \/ box' = box
    \/ box[p] = "none" /\ box' = [box EXCEPT ![p] = "starting"]
    \/ box[p] = "starting" /\ box' = [box EXCEPT ![p] = "running"]

Ready(p) == box[p] # "none" /\ box'[p] = "running"

\* The answer to Caddy: where the workspace is, and who comes.
Served(p) == said' = p

\* To the login, to the prices, or to a page that says why not.
TurnedAway ==
    /\ said' = Quiet
    /\ UNCHANGED <<papers, box, seen, waiting, asking>>

\* An asset or a frame on the product's domain.  The lock comes first: the
\* short way would let an expired pass through for half a minute more.
Short(p) == p \in seen /\ box[p] # "starting"

\* Mutant of FastRoute: the short way comes before the lock.
FastRouteFirst(p) ==
    /\ Short(p)
    /\ Served(p)
    /\ UNCHANGED <<papers, box, seen, waiting, asking>>

FastRoute(p) ==
    /\ CanOpenLocked(p) /\ Short(p)
    /\ Served(p)
    /\ UNCHANGED <<papers, box, seen, waiting, asking>>

\* The long way awaits ensure_workspace: nothing is asked again when it is back.
ColdRoute(p) ==
    /\ CanOpenLocked(p) /\ ~Short(p) /\ ~spent
    /\ asking' = asking \union {p} /\ said' = Quiet
    /\ UNCHANGED <<papers, box, seen, waiting>>

ColdAnswer(p) ==
    /\ p \in asking /\ Ensure(p)
    /\ IF Ready(p) THEN seen' = seen \union {p} /\ Served(p) /\ UNCHANGED waiting
       ELSE waiting' = waiting \union {p} /\ said' = Quiet /\ UNCHANGED seen
    /\ asking' \in {asking, asking \ {p}}    \* of several the last one leaves
    /\ UNCHANGED papers

WorkRoute(p) ==
    \/ FastRoute(p) \/ ColdRoute(p) \/ ColdAnswer(p)
    \/ (~CanOpenLocked(p) \/ (spent /\ ~Short(p))) /\ TurnedAway

\* The document, which the server fetches from the workspace itself; one that
\* does not answer has the waiting page in its place.
WorkShell(p) ==
    \/ /\ ~spent /\ Ensure(p) /\ said' = Quiet
       /\ seen' = IF Ready(p) THEN seen \union {p} ELSE seen
       /\ \/ Ready(p) /\ UNCHANGED waiting
          \/ waiting' = waiting \union {p}
       /\ UNCHANGED <<papers, asking>>
    \/ spent /\ TurnedAway

\* The button of the site; it leads over the waiting page.
WorkEntry(p) ==
    \/ /\ ~spent /\ Ensure(p) /\ said' = Quiet
       /\ waiting' = waiting \union {p}
       /\ UNCHANGED <<papers, seen, asking>>
    \/ spent /\ TurnedAway

\* The script of the waiting page asks until it hears that the page is ready, and
\* then goes there, whatever has become of the files it fetches in advance.
Polls(p) == p \in waiting /\ waiting' = waiting \ {p} /\ said' = Quiet

\* The state of the instance, which opens nothing.
WorkStatus(p) ==
    /\ Polls(p) /\ box[p] \in {"starting", "running"}
    /\ UNCHANGED <<papers, box, seen, asking>>

WorkStop(p) ==
    /\ box' = [box EXCEPT ![p] = "none"] /\ seen' = seen \ {p}
    /\ said' = Quiet
    /\ UNCHANGED <<papers, waiting, asking>>

\* The page's own beat, and "keep it": they count as traffic.
Heartbeat(p) ==
    /\ seen' = seen \union {p} /\ said' = Quiet
    /\ UNCHANGED <<papers, box, waiting, asking>>

-----------------------------------------------------------------------------
(* Time, money, and an instance that ends on its own.                       *)

HalfMinute(p) ==
    /\ seen' = seen \ {p} /\ said' = Quiet
    /\ UNCHANGED <<papers, box, waiting, asking>>

Tick ==
    /\ now < MaxNow /\ now' = now + 1
    /\ said' = Quiet
    /\ UNCHANGED <<spent, passes, sale, box, seen, waiting, asking>>

Spend ==
    /\ spent' = ~spent /\ said' = Quiet
    /\ UNCHANGED <<now, passes, sale, box, seen, waiting, asking>>

Die(p) ==
    /\ box' = [box EXCEPT ![p] = "none"] /\ said' = Quiet
    /\ UNCHANGED <<papers, seen, waiting, asking>>

Next ==
    \/ Exempt \/ RevokeLockExemption \/ Tick \/ Spend
    \/ \E o \in Sales : PassReads(o) \/ PassInserts(o)
    \/ \E p \in Products : WorkRoute(p) \/ WorkShell(p) \/ WorkEntry(p) \/ WorkStatus(p)
                           \/ WorkStop(p) \/ Heartbeat(p) \/ HalfMinute(p) \/ Die(p)

Spec == Init /\ [][Next]_gateVars

-----------------------------------------------------------------------------
(* Correctness.                                                             *)

PassIsAsked ==
    /\ said' \in Products => CanOpenLocked(said') \/ said' \in asking
    /\ \A p \in asking' \ asking : CanOpenLocked(p)

\* An asset of a locked product is served to nobody whose pass had expired or was
\* taken back when he asked for it, however recent his last one is; one that waits
\* for its workspace is served although the pass ends meanwhile (work_route).
AssetsNeedAPass == [][PassIsAsked]_gateVars

\* work_access.py:164: the pass counts when the asset is served.
PassStillCounts == [][said' \in Products => CanOpenLocked(said')]_gateVars

\* work_access.py:164 and workspace.py:1005: every gate asks whether a locked
\* product may be opened, so that none is started for nothing.
LockedStaysShut ==
    [][\A p \in Products : box[p] = "none" /\ box'[p] # "none" => CanOpenLocked(p)]_gateVars

\* work_access.py:215: two passes that are bought last as long as both.
PassesAddUp ==
    \A a, b \in passes : a.by # b.by /\ "admin" \notin {a.by, b.by} => a.until # b.until
=============================================================================
