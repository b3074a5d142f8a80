------------------------------- MODULE Seats -------------------------------
(***************************************************************************)
(* Organisations and their seats (teams.py, and the purchase of seats in    *)
(* payments/base.py).  Requests, of one user as well, run at the same time, *)
(* each in a transaction of its own; on PostgreSQL a transaction sees what  *)
(* others have committed, and waits only for the rows they have locked.     *)
(***************************************************************************)
EXTENDS Integers, FiniteSets

CONSTANTS
    Users, Orgs, Invites,
    Requests,       \* what users ask for at the same time
    SeatsOffered,   \* the numbers of seats that are bought
    MaxSales        \* bounds the purchases

VARIABLES
    member,     \* org_members: of each organisation, who is in it
    owner,      \* of each organisation that exists
    seats,      \* orgs.seats
    invite,     \* org_invites: the organisation, whom it is bound to, who used it
    join,       \* of each request: whose it is, how far it has come
    locked,     \* organisations whose row a join has locked
    sales,
    admitted    \* history: how many each invitation let in

seatsVars == <<member, owner, seats, invite, join, locked, sales, admitted>>

Nobody == "nobody"
NotYet == [org |-> "none"]
Away   == [step |-> "away"]
Founding(u) == [step |-> "founding", user |-> u, invite |-> "none"]

TypeOK ==
    /\ member \in [Orgs -> SUBSET Users] /\ owner \in [Orgs -> Users \union {Nobody}]
    /\ seats \in [Orgs -> Nat] /\ locked \subseteq Orgs
    /\ invite \in [Invites -> {NotYet} \union
          [org : Orgs, bound : Users \union {Nobody}, used : Users \union {Nobody}]]
    /\ join \in [Requests -> {Away} \union {Founding(u) : u \in Users} \union
          [step : {"claimed", "checked", "counting"}, user : Users, invite : Invites]]
    /\ sales \in 0..MaxSales /\ admitted \in [Invites -> Nat]

Init ==
    /\ member = [o \in Orgs |-> {}] /\ owner = [o \in Orgs |-> Nobody]
    /\ seats = [o \in Orgs |-> 0]
    /\ invite = [i \in Invites |-> NotYet] /\ admitted = [i \in Invites |-> 0]
    /\ join = [q \in Requests |-> Away] /\ locked = {}
    /\ sales = 0

OrgOf(u)  == {o \in Orgs : u \in member[o]}
SeatsUsed(o) == Cardinality(member[o])
Claims(i) == \E q \in Requests : join[q] # Away /\ join[q].invite = i

\* create_org and, when seats are bought without an organisation, fulfil: that
\* the owner is in none is asked before the transaction.
Found(q, u) ==
    /\ join[q] = Away /\ OrgOf(u) = {}
    /\ join' = [join EXCEPT ![q] = Founding(u)]
    /\ UNCHANGED <<member, owner, seats, invite, locked, sales, admitted>>

CreateOrg(q, o, n) ==
    /\ join[q].step = "founding" /\ owner[o] = Nobody
    /\ owner' = [owner EXCEPT ![o] = join[q].user]
    /\ member' = [member EXCEPT ![o] = {join[q].user}]
    /\ seats' = [seats EXCEPT ![o] = n]
    /\ join' = [join EXCEPT ![q] = Away]
    /\ UNCHANGED <<invite, locked, sales, admitted>>

\* set_seats: an absolute number, fewer than there are members as well.
BuySeats(o, n) ==
    /\ owner[o] # Nobody /\ o \notin locked /\ sales < MaxSales
    /\ seats' = [seats EXCEPT ![o] = n] /\ sales' = sales + 1
    /\ UNCHANGED <<member, owner, invite, join, locked, admitted>>

\* _require_owner: nobody else may.
Owned(o) == owner[o] # Nobody /\ owner[o] \in member[o]

\* create_invite: for an address, or for whoever has the code.
Invited(i, o, bound) ==
    /\ invite[i] = NotYet
    /\ invite' = [invite EXCEPT ![i] = [org |-> o, bound |-> bound, used |-> Nobody]]

\* team_invite: seats are counted, and not held, for an invitation.
Invite(i, o, bound) ==
    /\ Owned(o) /\ SeatsUsed(o) < seats[o]
    /\ Invited(i, o, bound)
    /\ UNCHANGED <<member, owner, seats, join, locked, sales, admitted>>

-----------------------------------------------------------------------------
(* accept_invite, one transaction.                                          *)

\* The conditional UPDATE locks the invitation until the end.
Claim(q, u, i) ==
    /\ join[q] = Away /\ invite[i] # NotYet
    /\ invite[i].used = Nobody /\ ~Claims(i)
    /\ join' = [join EXCEPT ![q] = [step |-> "claimed", user |-> u, invite |-> i]]
    /\ UNCHANGED <<member, owner, seats, invite, locked, sales, admitted>>

Goto(q, step) == join' = [join EXCEPT ![q].step = step]

Rollback(q, o) == join' = [join EXCEPT ![q] = Away] /\ locked' = locked \ {o}

\* The invitation must be addressed to the user, and he must be in no team.
Check(q) ==
    /\ join[q].step = "claimed"
    /\ LET i == invite[join[q].invite]
           u == join[q].user IN
         IF i.bound \in {Nobody, u} /\ OrgOf(u) = {}
         THEN Goto(q, "checked") /\ UNCHANGED locked
         ELSE Rollback(q, "none")
    /\ UNCHANGED <<member, owner, seats, invite, sales, admitted>>

\* Mutant of LockOrg: the seats are read without FOR UPDATE.
ReadOrg(q) ==
    /\ join[q].step = "checked"
    /\ Goto(q, "counting")
    /\ UNCHANGED <<member, owner, seats, invite, locked, sales, admitted>>

\* SELECT seats ... FOR UPDATE, then the members are counted.
LockOrg(q) ==
    /\ join[q].step = "checked"
    /\ LET o == invite[join[q].invite].org IN
         /\ o \notin locked
         /\ IF SeatsUsed(o) < seats[o]
            THEN Goto(q, "counting") /\ locked' = locked \union {o}
            ELSE Rollback(q, o)
    /\ UNCHANGED <<member, owner, seats, invite, sales, admitted>>

\* The row is inserted, and all of it committed.  A row that is there already
\* is an error, and rolls back.
Join(q) ==
    /\ join[q].step = "counting"
    /\ LET i == join[q].invite
           u == join[q].user
           o == invite[i].org IN
         /\ Rollback(q, o)
         /\ IF u \in member[o] THEN UNCHANGED <<member, invite, admitted>>
            ELSE /\ member' = [member EXCEPT ![o] = @ \union {u}]
                 /\ invite' = [invite EXCEPT ![i].used = u]
                 /\ admitted' = [admitted EXCEPT ![i] = @ + 1]
    /\ UNCHANGED <<owner, seats, sales>>

-----------------------------------------------------------------------------
\* remove_member, never of the owner; delete_account, of anybody.
Leave(u, o) ==
    /\ u \in member[o]
    /\ member' = [member EXCEPT ![o] = @ \ {u}]
    /\ UNCHANGED <<owner, seats, invite, join, locked, sales, admitted>>

Next ==
    \/ \E u \in Users, o \in Orgs : Leave(u, o)
    \/ \E o \in Orgs, n \in SeatsOffered : BuySeats(o, n)
    \/ \E i \in Invites, o \in Orgs, bound \in Users \union {Nobody} : Invite(i, o, bound)
    \/ \E q \in Requests :
          \/ Check(q) \/ LockOrg(q) \/ Join(q)
          \/ \E o \in Orgs, n \in SeatsOffered \union {1} : CreateOrg(q, o, n)
          \/ \E u \in Users : Found(q, u) \/ \E i \in Invites : Claim(q, u, i)

Spec == Init /\ [][Next]_seatsVars

-----------------------------------------------------------------------------
(* Correctness.                                                             *)

SeatsAreHeld ==
    /\ \A o \in Orgs : ~(member'[o] \subseteq member[o]) =>
          Cardinality(member'[o]) <= seats'[o]
    /\ \A i \in Invites : admitted'[i] <= 1

\* accept_invite: whoever joins at the same time, by whichever invitations,
\* nobody comes in over the number of seats, and an invitation lets in one.
SeatsHold == [][SeatsAreHeld]_seatsVars

\* teams.py:13-15: a person belongs to at most one organisation.
OneOrganisation == \A u \in Users : Cardinality(OrgOf(u)) <= 1
=============================================================================
