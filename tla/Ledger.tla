-------------------------------- MODULE Ledger --------------------------------
(***************************************************************************)
(* The credit ledger (credits.py): grants are buckets that expire, owned   *)
(* by a user or by an organisation, and a spend drains the organisation's  *)
(* buckets and then the user's own, soonest expiry first, in one           *)
(* transaction.  On PostgreSQL several processes spend at once: each takes *)
(* the advisory lock of every payer, one after the other, and keeps them   *)
(* until it commits.  Grants, refunds (payments/base.py) and membership    *)
(* changes (teams.py) take no such lock.                                   *)
(***************************************************************************)
EXTENDS Sums, Sequences

CONSTANTS
    Users, Orgs,
    Nobody,         \* "in no organisation", and the holder of a free lock
    Buckets,        \* grants, numbered in the order in which they expire
    Owner, Amount,  \* of each bucket: a user or an organisation, and its size
    Requests, Price,\* idempotency keys and what each costs
    Spenders,       \* transactions in flight
    ShortLived      \* bound of the model: the buckets that may run out

Holders == Users \union Orgs

ASSUME NamesAssumption == /\ Users \intersect Orgs = {} /\ Nobody \notin Holders \union Spenders
                          /\ Buckets \subseteq Nat
ASSUME FiniteAssumption == IsFiniteSet(Users) /\ IsFiniteSet(Buckets) /\ IsFiniteSet(Requests)
ASSUME GrantAssumption == Owner \in [Buckets -> Holders] /\ Amount \in [Buckets -> Nat \ {0}]
ASSUME PriceAssumption == Price \in [Requests -> Nat]

VARIABLES
    member,     \* the organisation of each user, or Nobody
    issued,     \* buckets that exist
    expired,    \* buckets that exist and have run out
    remaining,  \* credit_grants.remaining of each bucket
    clawed,     \* what refunds have taken back from each bucket
    debt,       \* the (negative) remaining of each user's overdraft bucket
    charges,    \* usage_log rows per user and request id
    lock,       \* the transaction that holds each payer's advisory lock
    spend,      \* what each transaction is doing
    basket      \* what it has read, and decided to take from it

vars == <<member, issued, expired, remaining, clawed, debt, charges, lock, spend, basket>>
books == <<remaining, debt, charges>>
grants == <<issued, expired, clawed>>

Idle  == [step |-> "idle"]
Spend == [step : {"lock", "check", "drain", "commit"},
          user : Users, request : Requests,
          payers : UNION {[1..n -> Holders] : n \in 1..2},
          got    : 0..2,                            \* locks taken, then payers drained
          stale  : SUBSET Buckets]                  \* expired when the spend began

\* Buckets found usable so far, and what the commit will take from each.
Basket == [read : SUBSET Buckets, take : [Buckets -> Nat]]
Empty  == [read |-> {}, take |-> [b \in Buckets |-> 0]]

TypeOK ==
    /\ member    \in [Users -> Orgs \union {Nobody}]
    /\ issued    \subseteq Buckets
    /\ expired   \subseteq issued
    /\ remaining \in [Buckets -> Int]
    /\ clawed    \in [Buckets -> Int]
    /\ debt      \in [Users -> Int]
    /\ charges   \in [Users -> [Requests -> Nat]]
    /\ lock      \in [Holders -> Spenders \union {Nobody}]
    /\ spend     \in [Spenders -> {Idle} \union Spend]
    /\ basket    \in [Spenders -> Basket]

Init ==
    /\ member    \in [Users -> Orgs \union {Nobody}]
    /\ issued    = {}
    /\ expired   = {}
    /\ remaining = [b \in Buckets |-> 0]
    /\ clawed    = [b \in Buckets |-> 0]
    /\ debt      = [u \in Users |-> 0]
    /\ charges   = [u \in Users |-> [r \in Requests |-> 0]]
    /\ lock      = [h \in Holders |-> Nobody]
    /\ spend     = [s \in Spenders |-> Idle]
    /\ basket    = [s \in Spenders |-> Empty]

AtLeast0(n) == IF n < 0 THEN 0 ELSE n
Smaller(m, n) == IF m < n THEN m ELSE n

-----------------------------------------------------------------------------
(* What changes the books without a lock.                                  *)

Grant(b) ==
    /\ b \notin issued
    /\ issued' = issued \union {b}
    /\ remaining' = [remaining EXCEPT ![b] = Amount[b]]
    /\ UNCHANGED <<member, expired, clawed, debt, charges, lock, spend, basket>>

\* Time passes: buckets run out in the order of their numbers.
Expire(b) ==
    /\ b \in (issued \intersect ShortLived) \ expired
    /\ \A c \in issued \ expired : b <= c
    /\ expired' = expired \union {b}
    /\ UNCHANGED <<member, issued, clawed, books, lock, spend, basket>>

\* payments/base._zero_grants of the order that bought the bucket, one UPDATE.
ZeroGrant(b) ==
    /\ b \in issued
    /\ clawed[b] = 0
    /\ remaining' = [remaining EXCEPT ![b] = 0]
    /\ clawed' = [clawed EXCEPT ![b] = @ + remaining[b]]
    /\ UNCHANGED <<member, issued, expired, debt, charges, lock, spend, basket>>

\* accept_invite and remove_member, as far as the ledger sees them.
ChangeTeam(u) ==
    /\ \E o \in Orgs : member' = [member EXCEPT ![u] = IF member[u] = Nobody THEN o ELSE Nobody]
    /\ UNCHANGED <<grants, books, lock, spend, basket>>

-----------------------------------------------------------------------------
(* credits.spend.                                                          *)

\* Mutants of Pools: the member's own credits go first, or do so as soon as
\* there are any.
OwnFirst(u) == IF member[u] = Nobody THEN <<u>> ELSE <<u, member[u]>>

OwnFirstIfAny(u) ==
    IF \E b \in issued : Owner[b] = u THEN OwnFirst(u)
    ELSE IF member[u] = Nobody THEN <<u>> ELSE <<member[u], u>>

\* _pools: the organisation's credits go first.
Pools(u) == IF member[u] = Nobody THEN <<u>> ELSE <<member[u], u>>

\* The pools are asked for, and the clock read, before the transaction begins.
Begin(s, u, r) ==
    /\ spend[s] = Idle
    /\ spend' = [spend EXCEPT ![s] =
         [step |-> "lock", user |-> u, request |-> r,
          payers |-> Pools(u),
          got |-> 0, stale |-> expired]]
    /\ UNCHANGED <<member, grants, books, lock, basket>>

\* Mutants of Free: the lock of one kind of payer is left out.
FreeOrUser(h) == lock[h] = Nobody \/ h \in Users

FreeOrOrg(h) == lock[h] = Nobody \/ h \in Orgs

Free(h) == lock[h] = Nobody

TakeLock(s) ==
    /\ spend[s].step = "lock"
    /\ LET payers == spend[s].payers
           got    == spend[s].got + 1
       IN  /\ Free(payers[got])
           /\ lock' = [lock EXCEPT ![payers[got]] = s]
           /\ spend' = [spend EXCEPT ![s].got = got,
                                     ![s].step = IF got = Len(payers) THEN "check" ELSE "lock"]
    /\ UNCHANGED <<member, grants, books, basket>>

\* Mutant of End: the connection keeps what it was doing.
EndWithoutForgetting(s) ==
    /\ spend' = [spend EXCEPT ![s].step = "idle"]
    /\ basket' = [basket EXCEPT ![s] = Empty]
    /\ lock' = [h \in Holders |-> IF lock[h] = s THEN Nobody ELSE lock[h]]

\* The transaction ends: its advisory locks go with it.
End(s) ==
    /\ spend' = [spend EXCEPT ![s] = Idle]
    /\ basket' = [basket EXCEPT ![s] = Empty]
    /\ lock' = [h \in Holders |-> IF lock[h] = s THEN Nobody ELSE lock[h]]

\* A request id that is in the usage log has been paid for.
CheckDuplicate(s) ==
    /\ spend[s].step = "check"
    /\ IF charges[spend[s].user][spend[s].request] > 0
       THEN End(s)
       ELSE /\ spend' = [spend EXCEPT ![s].step = "drain", ![s].got = 0]
            /\ UNCHANGED <<lock, basket>>
    /\ UNCHANGED <<member, grants, books>>

\* Mutant of Left: what was taken from the first payer is not counted.
LeftOfAll(s) == Price[spend[s].request]

Left(s) == Price[spend[s].request] - Total(basket[s].take, Buckets)

\* One payer's buckets are read, soonest expiry first, and what to take from
\* each of them is settled; nobody sees it before the commit.
Usable(s, h) ==
    {b \in issued \ spend[s].stale : Owner[b] = h /\ remaining[b] > 0}

Before(s, h, b) == Total(remaining, {c \in Usable(s, h) : c < b})
Share(s, h, b)  == Smaller(remaining[b], AtLeast0(Left(s) - Before(s, h, b)))

Drain(s) ==
    /\ spend[s].step = "drain"
    /\ LET next == spend[s].got + 1
           h    == spend[s].payers[next]
       IN  /\ basket' = [basket EXCEPT ![s] =
                 [read |-> basket[s].read \union Usable(s, h),
                  take |-> [b \in Buckets |-> IF b \in Usable(s, h) THEN Share(s, h, b)
                                              ELSE basket[s].take[b]]]]
           /\ spend' = [spend EXCEPT
                 ![s].got = next,
                 ![s].step = IF next = Len(spend[s].payers) THEN "commit" ELSE "drain"]
    /\ UNCHANGED <<member, grants, books, lock>>

\* remaining = remaining - take for every bucket, the rest to the user's
\* overdraft bucket, and the usage row that makes the request a paid one.
Commit(s) ==
    /\ spend[s].step = "commit"
    /\ LET u == spend[s].user
           r == spend[s].request
       IN  /\ remaining' = [b \in Buckets |-> remaining[b] - basket[s].take[b]]
           /\ debt' = [debt EXCEPT ![u] = @ - Left(s)]
           /\ charges' = [charges EXCEPT ![u][r] = @ + 1]
    /\ End(s)
    /\ UNCHANGED <<member, grants>>

\* The connection is lost: the transaction is rolled back.
Abort(s) ==
    /\ spend[s] # Idle
    /\ End(s)
    /\ UNCHANGED <<member, grants, books>>

Advance(s) == TakeLock(s) \/ CheckDuplicate(s) \/ Drain(s) \/ Commit(s)

Next ==
    \/ \E b \in Buckets : Grant(b) \/ Expire(b) \/ ZeroGrant(b)
    \/ \E u \in Users : ChangeTeam(u)
    \/ \E s \in Spenders : Advance(s) \/ Abort(s) \/ \E u \in Users, r \in Requests : Begin(s, u, r)

Spec == Init /\ [][Next]_vars

-----------------------------------------------------------------------------
(* Correctness.                                                            *)

\* A request id is charged once per user, however many processes charge it at
\* once and whatever organisation each of them has seen the user in.
ChargedOnce == \A u \in Users : \A r \in Requests : charges[u][r] <= 1

\* Every credit is accounted for: what is left, debts included, is what was
\* granted less what was charged and what refunds took back.
Conserved ==
    Total(remaining, Buckets) + Total(debt, Users) =
        Total(Amount, issued) - Total(clawed, Buckets)
            - Total([ur \in Users \X Requests |-> charges[ur[1]][ur[2]] * Price[ur[2]]],
                    Users \X Requests)

\* Two spends never take the same credit: without a refund no bucket, the
\* organisation's included, is drained below zero.
NeverDrainedTwice == \A b \in Buckets : clawed[b] = 0 => remaining[b] >= 0

\* The organisation pays before the member, and the credits that run out first
\* go first: a spend that reaches a later bucket, or goes into debt, leaves
\* nothing in the earlier ones it has read.
Later(c, b, u) == IF Owner[c] = Owner[b] THEN c > b ELSE Owner[c] = u

SpendsInOrder ==
    [][\A s \in Spenders :
        spend[s].step = "commit" /\ spend'[s] = Idle /\ charges' # charges =>
            LET u == spend[s].user IN
            \A b \in basket[s].read :
                (debt'[u] < debt[u] \/ \E c \in basket[s].read : Later(c, b, u) /\ basket[s].take[c] > 0)
                => remaining'[b] <= 0]_vars

\* The locks of several payers never close a circle of waiting transactions,
\* also when a user changes teams between two spends: of those that have
\* begun, one has what it needs to go on.
Waiting(s) == /\ spend[s].step = "lock"
              /\ lock[spend[s].payers[spend[s].got + 1]] # Nobody

NoDeadlock ==
    (\E s \in Spenders : spend[s] # Idle) => \E s \in Spenders : spend[s] # Idle /\ ~Waiting(s)

\* payments/base.py:389: a refund takes back what is left and never makes a
\* balance negative.
RefundNeverNegative == \A b \in Buckets : remaining[b] >= 0
=============================================================================
