---------------------------- MODULE Parts_proofs ----------------------------
(***************************************************************************)
(* Proofs about nineteen of the components around the core, for any values *)
(* of their constants:                                                     *)
(*   Seats        the seats of a team                                      *)
(*   DeviceLogin  the desktop's login over a device code                   *)
(*   LiveRoom     the lines of a live room                                 *)
(*   Avatar       the minutes of a call with an avatar                     *)
(*   AgentChat    the turns of an agent's chat                             *)
(*   Rooms        the archive of a workspace's team rooms                  *)
(*   Comfy        the nodes of a ComfyUI workspace                         *)
(*   Boxes        the desktop computers at home and their addresses        *)
(*   Instances    the container instances behind a workspace               *)
(*   Pods         the volume of a pod and its copy in the bucket           *)
(*   LocalRun     a workspace on the user's own machine                    *)
(*   SelfHost     the command line that sets up a server                   *)
(*   SignIn       the boot scripts that sign a user in to a product        *)
(*   Gates        the lock on a product and its assets                     *)
(*   Preview      the files and servers of a workspace in a browser        *)
(*   Production   whether a live room keeps up with real time              *)
(*   ImageCache   the script that builds and sweeps image caches           *)
(*   MachineTime  the minutes of plans, packs and organisations            *)
(*   Access       tokens, and what refuses them                            *)
(* Each is an instance of its own in a section of its own.  Three constants*)
(* are common to two or three: Rooms to LiveRoom and Production, MaxTrouble*)
(* to these and ImageCache, Tabs to AgentChat and Preview.  No variable is *)
(* common to two of them.                                                  *)
(***************************************************************************)
EXTENDS Seats, Sequences, Sums_proofs, FiniteSetTheorems, TLAPS

CONSTANTS Owners, Codes, Browsers, MaxEpoch
VARIABLES row, epoch, barred, answer, approvals, devices
Login == INSTANCE DeviceLogin WITH Users <- Owners

CONSTANTS Rooms, Lines, Kinds, MaxLive, MaxQueue, MaxTrouble
VARIABLES onair, queue, good, listed, starting, recent, line, said, bills, replied, trouble
Live == INSTANCE LiveRoom

-----------------------------------------------------------------------------
(* Seats.                                                                   *)

Seating ==
    /\ IsFiniteSet(Users) /\ "nobody" \notin Users
    /\ "none" \notin Orgs /\ "none" \notin Invites
    /\ SeatsOffered \subseteq Nat \ {0} /\ MaxSales \in Nat

Asked == {Away} \union {Founding(u) : u \in Users}
Joins == [step : {"claimed", "checked", "counting"}, user : Users, invite : Invites]
Sent  == [org : Orgs, bound : Users \union {"nobody"}, used : Users \union {"nobody"}]

Joining(q)  == join[q].step \in {"claimed", "checked", "counting"}
Counting(q) == join[q].step = "counting"
TeamOf(q)   == invite[join[q].invite].org

SeatTypes ==
    /\ member \in [Orgs -> SUBSET Users] /\ owner \in [Orgs -> Users \union {"nobody"}]
    /\ seats \in [Orgs -> Nat] /\ locked \subseteq Orgs
    /\ invite \in [Invites -> {NotYet} \union Sent]
    /\ join \in [Requests -> Asked \union Joins]
    /\ sales \in 0..MaxSales /\ admitted \in [Invites -> Nat]

\* Only teams invite, and an invitation that was not used let nobody in.
InviteInv ==
    /\ \A i \in Invites : invite[i] # NotYet => owner[invite[i].org] # "nobody"
    /\ \A i \in Invites : admitted[i] <= 1
    /\ \A i \in Invites : invite[i] = NotYet \/ invite[i].used = "nobody" =>
          admitted[i] = 0

\* An invitation is in the hands of one request, and is not used until the end.
ClaimInv ==
    /\ \A q \in Requests : Joining(q) =>
          invite[join[q].invite] # NotYet /\ invite[join[q].invite].used = "nobody"
    /\ \A q, p \in Requests :
          Joining(q) /\ Joining(p) /\ join[q].invite = join[p].invite => q = p

\* Who has counted the members of a team holds its row, alone, and the seat that
\* was free when it counted is still free.
CountInv ==
    /\ \A q \in Requests : Counting(q) =>
          TeamOf(q) \in locked /\ Cardinality(member[TeamOf(q)]) < seats[TeamOf(q)]
    /\ \A q, p \in Requests : Counting(q) /\ Counting(p) /\ TeamOf(q) = TeamOf(p) => q = p

SeatsInv == SeatTypes /\ InviteInv /\ ClaimInv /\ CountInv

\* The types are those of the component.
LEMMA TeamTypes == SeatTypes <=> TypeOK
  BY DEF SeatTypes, TypeOK, Asked, Joins, Sent, Nobody

\* What a request that joins looks like.
LEMMA JoinShape ==
    ASSUME SeatTypes, NEW q \in Requests, Joining(q)
    PROVE  join[q] \in Joins /\ join[q] # Away
  BY DEF SeatTypes, Joining, Asked, Joins, Away, Founding

\* What an invitation that was sent looks like.
LEMMA InviteShape ==
    ASSUME SeatTypes, NEW i \in Invites, invite[i] # NotYet
    PROVE  invite[i] \in Sent
  BY DEF SeatTypes

\* The members of a team can be counted.
LEMMA MembersFinite ==
    ASSUME Seating, SeatTypes, NEW o \in Orgs
    PROVE  IsFiniteSet(member[o]) /\ Cardinality(member[o]) \in Nat
<1>1. member[o] \subseteq Users
  BY DEF SeatTypes
<1>2. QED
  BY <1>1, FS_Subset, FS_CardinalityType DEF Seating

\* Nobody has asked for anything yet.
LEMMA SeatsInvInit == ASSUME Seating, Init PROVE SeatsInv
<1>1. SeatTypes
  BY DEF Seating, SeatTypes, Init, Asked, Nobody
<1>2. \A q \in Requests : ~Joining(q) /\ ~Counting(q)
  BY DEF Init, Away, Joining, Counting
<1>3. QED
  BY <1>1, <1>2 DEF SeatsInv, InviteInv, ClaimInv, CountInv, Init

\* What Goto does to a request that joins.
LEMMA JoinMoves ==
    ASSUME SeatTypes, NEW q \in Requests, Joining(q),
           NEW s \in {"claimed", "checked", "counting"}, Goto(q, s)
    PROVE  /\ join' \in [Requests -> Asked \union Joins]
           /\ join'[q].step = s /\ join'[q].invite = join[q].invite
           /\ \A p \in Requests \ {q} : join'[p] = join[p]
<1> DEFINE moved == [join[q] EXCEPT !.step = s]
<1>1. moved \in Joins /\ moved.step = s /\ moved.invite = join[q].invite
  BY JoinShape DEF Joins
<1>2. join' = [join EXCEPT ![q] = moved]
  BY DEF Goto
<1> HIDE DEF moved
<1>3. QED
  BY <1>1, <1>2 DEF SeatTypes

\* What a request that ends does.
LEMMA JoinEnds ==
    ASSUME SeatTypes, NEW q \in Requests, join' = [join EXCEPT ![q] = Away]
    PROVE  /\ join' \in [Requests -> Asked \union Joins]
           /\ ~Joining(q)' /\ ~Counting(q)'
           /\ \A p \in Requests \ {q} : join'[p] = join[p]
<1>1. join'[q] = Away /\ \A p \in Requests \ {q} : join'[p] = join[p]
  BY DEF SeatTypes
<1>2. join' \in [Requests -> Asked \union Joins]
  BY DEF SeatTypes, Asked
<1>3. QED
  BY <1>1, <1>2 DEF Joining, Counting, Away

\* A request that withdraws leaves what the others hold: the lock of its team,
\* if it had one, is its own.
LEMMA WithdrawStep ==
    ASSUME SeatsInv, NEW q \in Requests, NEW o,
           join' = [join EXCEPT ![q] = Away], locked' = locked \ {o},
           \A p \in Requests \ {q} : Counting(p) => TeamOf(p) # o,
           UNCHANGED <<member, owner, seats, invite, sales, admitted>>
    PROVE  SeatsInv'
<1>1. SeatTypes
  BY DEF SeatsInv
<1>2. /\ join' \in [Requests -> Asked \union Joins]
      /\ ~Joining(q)' /\ ~Counting(q)'
      /\ \A p \in Requests \ {q} : join'[p] = join[p]
  BY <1>1, JoinEnds
<1>3. SeatTypes'
  BY <1>1, <1>2 DEF SeatTypes
<1>4. InviteInv'
  BY DEF SeatsInv, InviteInv
<1>5. \A p \in Requests : /\ Joining(p)' => p # q /\ Joining(p) /\ join'[p] = join[p]
                          /\ Counting(p)' => p # q /\ Counting(p) /\ TeamOf(p)' = TeamOf(p)
  BY <1>2 DEF Joining, Counting, TeamOf
<1>6. ClaimInv'
  BY <1>5 DEF SeatsInv, ClaimInv
<1>7. CountInv'
  BY <1>5 DEF SeatsInv, CountInv
<1>8. QED
  BY <1>3, <1>4, <1>6, <1>7 DEF SeatsInv

\* Requests in hand keep what they rely on when neither they nor their
\* invitations change.
LEMMA ClaimsKept ==
    ASSUME SeatsInv, UNCHANGED join,
           \A i \in Invites : invite[i] # NotYet => invite'[i] = invite[i]
    PROVE  /\ ClaimInv'
           /\ \A q \in Requests : Counting(q)' => Counting(q) /\ TeamOf(q)' = TeamOf(q)
<1>1. SeatTypes /\ ClaimInv
  BY DEF SeatsInv
<1>2. \A q \in Requests : Joining(q) => invite'[join[q].invite] = invite[join[q].invite]
  <2>1. \A q \in Requests : Joining(q) => join[q].invite \in Invites
    BY <1>1, JoinShape DEF Joins
  <2>2. QED
    BY <1>1, <2>1 DEF ClaimInv
<1>3. QED
  BY <1>1, <1>2 DEF ClaimInv, Joining, Counting, TeamOf

\* A member leaves, and makes room.
LEMMA LeaveStep ==
    ASSUME Seating, SeatsInv, NEW u \in Users, NEW o \in Orgs, Leave(u, o)
    PROVE  SeatsInv' /\ SeatsAreHeld
<1>1. /\ SeatTypes /\ InviteInv /\ CountInv
      /\ member' = [member EXCEPT ![o] = member[o] \ {u}]
      /\ UNCHANGED <<owner, seats, invite, join, locked, sales, admitted>>
  BY DEF SeatsInv, Leave
<1>2. SeatTypes'
  <2>1. member' \in [Orgs -> SUBSET Users]
    BY <1>1 DEF SeatTypes
  <2>2. QED
    BY <1>1, <2>1 DEF SeatTypes
<1>3. InviteInv'
  BY <1>1 DEF InviteInv
<1>4. ClaimInv' /\ \A q \in Requests : Counting(q)' => Counting(q) /\ TeamOf(q)' = TeamOf(q)
  BY <1>1, ClaimsKept
<1>5. \A e \in Orgs : member'[e] \subseteq member[e]
  BY <1>1 DEF SeatTypes
<1>6. \A e \in Orgs : Cardinality(member'[e]) <= Cardinality(member[e])
  BY <1>1, <1>5, MembersFinite, FS_Subset
<1>7. CountInv'
  <2>1. ASSUME NEW q \in Requests, Counting(q)'
        PROVE  TeamOf(q)' \in locked' /\ Cardinality(member'[TeamOf(q)']) < seats'[TeamOf(q)']
    <3>1. /\ TeamOf(q) \in locked /\ Cardinality(member[TeamOf(q)]) < seats[TeamOf(q)]
          /\ TeamOf(q)' = TeamOf(q)
      BY <1>1, <1>4, <2>1 DEF CountInv
    <3>2. /\ TeamOf(q) \in Orgs /\ seats[TeamOf(q)] \in Nat
          /\ Cardinality(member[TeamOf(q)]) \in Nat /\ Cardinality(member'[TeamOf(q)]) \in Nat
      BY <1>1, <1>2, <3>1, MembersFinite, FS_Subset, FS_CardinalityType, <1>5 DEF SeatTypes
    <3>3. QED
      BY <1>1, <1>6, <3>1, <3>2
  <2>2. QED
    BY <1>1, <1>4, <2>1 DEF CountInv
<1>8. SeatsAreHeld
  BY <1>1, <1>5 DEF SeatsAreHeld, InviteInv
<1>9. QED
  BY <1>2, <1>3, <1>4, <1>7, <1>8 DEF SeatsInv

\* The seats are not changed under a request that has counted: it has locked
\* the row.
LEMMA BuySeatsStep ==
    ASSUME Seating, SeatsInv, NEW o \in Orgs, NEW n \in SeatsOffered, BuySeats(o, n)
    PROVE  SeatsInv' /\ SeatsAreHeld
<1>1. /\ SeatTypes /\ InviteInv /\ CountInv /\ o \notin locked /\ sales < MaxSales
      /\ seats' = [seats EXCEPT ![o] = n] /\ sales' = sales + 1
      /\ UNCHANGED <<member, owner, invite, join, locked, admitted>>
  BY DEF SeatsInv, BuySeats
<1>2. SeatTypes'
  <2>1. seats' \in [Orgs -> Nat]
    BY <1>1 DEF SeatTypes, Seating
  <2>2. sales' \in 0..MaxSales
    BY <1>1 DEF SeatTypes, Seating
  <2>3. QED
    BY <1>1, <2>1, <2>2 DEF SeatTypes
<1>3. InviteInv'
  BY <1>1 DEF InviteInv
<1>4. ClaimInv' /\ \A q \in Requests : Counting(q)' => Counting(q) /\ TeamOf(q)' = TeamOf(q)
  BY <1>1, ClaimsKept
<1>5. \A e \in Orgs \ {o} : seats'[e] = seats[e]
  BY <1>1 DEF SeatTypes
<1>6. CountInv'
  <2>1. locked \subseteq Orgs \ {o}
    BY <1>1 DEF SeatTypes
  <2>2. QED
    BY <1>1, <1>4, <1>5, <2>1 DEF CountInv
<1>7. SeatsAreHeld
  BY <1>1 DEF SeatsAreHeld, InviteInv
<1>8. QED
  BY <1>2, <1>3, <1>4, <1>6, <1>7 DEF SeatsInv

\* A new invitation is in nobody's hands.
LEMMA InviteStep ==
    ASSUME Seating, SeatsInv, NEW i \in Invites, NEW o \in Orgs,
           NEW bound \in Users \union {"nobody"}, Invite(i, o, bound)
    PROVE  SeatsInv' /\ SeatsAreHeld
<1> DEFINE sent == [org |-> o, bound |-> bound, used |-> "nobody"]
<1>1. /\ SeatTypes /\ InviteInv /\ CountInv
      /\ invite[i] = NotYet /\ owner[o] # "nobody"
      /\ invite' = [invite EXCEPT ![i] = sent]
      /\ UNCHANGED <<member, owner, seats, join, locked, sales, admitted>>
  BY DEF SeatsInv, Invite, Invited, Owned, Nobody
<1>2. sent \in Sent /\ sent.org = o
  BY DEF Sent
<1> HIDE DEF sent
<1>3. invite'[i] = sent /\ \A k \in Invites \ {i} : invite'[k] = invite[k]
  BY <1>1 DEF SeatTypes
<1>4. SeatTypes'
  <2>1. invite' \in [Invites -> {NotYet} \union Sent]
    BY <1>1, <1>2 DEF SeatTypes
  <2>2. QED
    BY <1>1, <2>1 DEF SeatTypes
<1>5. InviteInv'
  BY <1>1, <1>2, <1>3 DEF InviteInv
<1>6. ClaimInv' /\ \A q \in Requests : Counting(q)' => Counting(q) /\ TeamOf(q)' = TeamOf(q)
  BY <1>1, <1>3, ClaimsKept
<1>7. CountInv'
  BY <1>1, <1>6 DEF CountInv
<1>8. SeatsAreHeld
  BY <1>1 DEF SeatsAreHeld, InviteInv
<1>9. QED
  BY <1>4, <1>5, <1>6, <1>7, <1>8 DEF SeatsInv

\* A founder asks; he joins by no invitation.
LEMMA FoundStep ==
    ASSUME Seating, SeatsInv, NEW q \in Requests, NEW u \in Users, Found(q, u)
    PROVE  SeatsInv' /\ SeatsAreHeld
<1>1. /\ SeatTypes /\ InviteInv
      /\ join' = [join EXCEPT ![q] = Founding(u)]
      /\ UNCHANGED <<member, owner, seats, invite, locked, sales, admitted>>
  BY DEF SeatsInv, Found
<1>2. SeatTypes'
  <2>1. join' \in [Requests -> Asked \union Joins]
    BY <1>1 DEF SeatTypes, Asked
  <2>2. QED
    BY <1>1, <2>1 DEF SeatTypes
<1>3. InviteInv'
  BY <1>1 DEF InviteInv
<1>4. \A p \in Requests : /\ Joining(p)' => Joining(p) /\ join'[p] = join[p]
                          /\ Counting(p)' => Counting(p) /\ TeamOf(p)' = TeamOf(p)
  <2>1. join'[q] = Founding(u) /\ \A p \in Requests \ {q} : join'[p] = join[p]
    BY <1>1 DEF SeatTypes
  <2>2. QED
    BY <1>1, <2>1 DEF Joining, Counting, TeamOf, Founding
<1>5. ClaimInv'
  BY <1>1, <1>4 DEF SeatsInv, ClaimInv
<1>6. CountInv'
  BY <1>1, <1>4 DEF SeatsInv, CountInv
<1>7. SeatsAreHeld
  BY <1>1 DEF SeatsAreHeld, InviteInv
<1>8. QED
  BY <1>2, <1>3, <1>5, <1>6, <1>7 DEF SeatsInv

\* A team begins with its owner; no invitation to it was sent before.
LEMMA CreateOrgStep ==
    ASSUME Seating, SeatsInv, NEW q \in Requests, NEW o \in Orgs,
           NEW n \in SeatsOffered \union {1}, CreateOrg(q, o, n)
    PROVE  SeatsInv' /\ SeatsAreHeld
<1> DEFINE u == join[q].user
<1>1. /\ SeatTypes /\ InviteInv /\ ClaimInv /\ CountInv
      /\ join[q].step = "founding" /\ owner[o] = "nobody"
      /\ owner' = [owner EXCEPT ![o] = u]
      /\ member' = [member EXCEPT ![o] = {u}]
      /\ seats' = [seats EXCEPT ![o] = n]
      /\ join' = [join EXCEPT ![q] = Away]
      /\ UNCHANGED <<invite, locked, sales, admitted>>
  BY DEF SeatsInv, CreateOrg, Nobody
<1>2. u \in Users
  BY <1>1 DEF SeatTypes, Asked, Joins, Away, Founding
<1>3. n \in Nat \ {0}
  BY DEF Seating
<1> HIDE DEF u
<1>4. /\ join' \in [Requests -> Asked \union Joins]
      /\ ~Joining(q)' /\ ~Counting(q)'
      /\ \A p \in Requests \ {q} : join'[p] = join[p]
  BY <1>1, JoinEnds
<1>5. \A e \in Orgs \ {o} : member'[e] = member[e] /\ owner'[e] = owner[e] /\ seats'[e] = seats[e]
  BY <1>1 DEF SeatTypes
<1>6. member'[o] = {u} /\ owner'[o] = u /\ seats'[o] = n
  BY <1>1 DEF SeatTypes
<1>7. SeatTypes'
  <2>1. member' \in [Orgs -> SUBSET Users] /\ owner' \in [Orgs -> Users \union {"nobody"}]
    BY <1>1, <1>2 DEF SeatTypes
  <2>2. seats' \in [Orgs -> Nat]
    BY <1>1, <1>3 DEF SeatTypes
  <2>3. QED
    BY <1>1, <1>4, <2>1, <2>2 DEF SeatTypes
<1>8. InviteInv'
  <2>1. \A i \in Invites : invite[i] # NotYet => invite[i].org \in Orgs
    BY <1>1, InviteShape DEF Sent
  <2>2. QED
    BY <1>1, <1>2, <1>5, <1>6, <2>1 DEF InviteInv, Seating
<1>9. \A p \in Requests : /\ Joining(p)' => Joining(p) /\ join'[p] = join[p]
                          /\ Counting(p)' => Counting(p) /\ TeamOf(p)' = TeamOf(p)
  BY <1>1, <1>4 DEF Joining, Counting, TeamOf
<1>10. ClaimInv'
  BY <1>1, <1>9 DEF ClaimInv
<1>11. \A p \in Requests : Counting(p) => TeamOf(p) \in Orgs \ {o}
  <2>1. ASSUME NEW p \in Requests, Counting(p) PROVE TeamOf(p) \in Orgs \ {o}
    <3>1. Joining(p) /\ join[p].invite \in Invites
      BY <1>1, <2>1, JoinShape DEF Counting, Joining, Joins
    <3>2. owner[TeamOf(p)] # "nobody" /\ TeamOf(p) \in locked
      BY <1>1, <2>1, <3>1 DEF ClaimInv, InviteInv, CountInv, TeamOf
    <3>3. QED
      BY <1>1, <3>2 DEF SeatTypes
  <2>2. QED
    BY <2>1
<1>12. CountInv'
  BY <1>1, <1>5, <1>9, <1>11 DEF CountInv
<1>13. SeatsAreHeld
  <2>1. Cardinality({u}) = 1
    BY FS_Singleton
  <2>2. ASSUME NEW e \in Orgs, ~(member'[e] \subseteq member[e])
        PROVE  Cardinality(member'[e]) <= seats'[e]
    <3>1. e = o
      BY <1>5, <2>2
    <3>2. QED
      BY <1>3, <1>6, <2>1, <3>1
  <2>3. \A i \in Invites : admitted'[i] <= 1
    BY <1>1 DEF InviteInv
  <2>4. QED
    BY <2>2, <2>3, Zenon DEF SeatsAreHeld
<1>14. QED
  BY <1>7, <1>8, <1>10, <1>12, <1>13 DEF SeatsInv

\* The conditional UPDATE: whoever claims an invitation is the only one.
LEMMA ClaimStep ==
    ASSUME Seating, SeatsInv, NEW q \in Requests, NEW u \in Users, NEW i \in Invites,
           Claim(q, u, i)
    PROVE  SeatsInv' /\ SeatsAreHeld
<1> DEFINE r == [step |-> "claimed", user |-> u, invite |-> i]
<1>1. /\ SeatTypes /\ InviteInv /\ ClaimInv /\ CountInv
      /\ invite[i] # NotYet /\ invite[i].used = "nobody"
      /\ \A p \in Requests : ~(join[p] # Away /\ join[p].invite = i)
      /\ join' = [join EXCEPT ![q] = r]
      /\ UNCHANGED <<member, owner, seats, invite, locked, sales, admitted>>
  BY DEF SeatsInv, Claim, Claims, Nobody
<1>2. r \in Joins /\ r.step = "claimed" /\ r.invite = i
  BY DEF Joins
<1> HIDE DEF r
<1>3. join'[q] = r /\ \A p \in Requests \ {q} : join'[p] = join[p]
  BY <1>1 DEF SeatTypes
<1>4. SeatTypes'
  <2>1. join' \in [Requests -> Asked \union Joins]
    BY <1>1, <1>2 DEF SeatTypes
  <2>2. QED
    BY <1>1, <2>1 DEF SeatTypes
<1>5. InviteInv'
  BY <1>1 DEF InviteInv
<1>6. \A p \in Requests \ {q} : Joining(p)' => Joining(p) /\ join[p].invite # i
  <2>1. \A p \in Requests : Joining(p) => join[p] # Away
    BY <1>1, JoinShape
  <2>2. QED
    BY <1>1, <1>3, <2>1 DEF Joining
<1>7. ClaimInv'
  <2>1. \A p \in Requests : Joining(p)' =>
           \/ p = q /\ join'[p].invite = i
           \/ p # q /\ Joining(p) /\ join'[p].invite = join[p].invite /\ join[p].invite # i
    BY <1>2, <1>3, <1>6
  <2>2. QED
    BY <1>1, <2>1 DEF ClaimInv
<1>8. \A p \in Requests : Counting(p)' => Counting(p) /\ TeamOf(p)' = TeamOf(p)
  BY <1>1, <1>2, <1>3 DEF Counting, TeamOf
<1>9. CountInv'
  BY <1>1, <1>8 DEF CountInv
<1>10. SeatsAreHeld
  BY <1>1 DEF SeatsAreHeld, InviteInv
<1>11. QED
  BY <1>4, <1>5, <1>7, <1>9, <1>10 DEF SeatsInv

\* The user is checked; nothing is locked yet.
LEMMA CheckStep ==
    ASSUME Seating, SeatsInv, NEW q \in Requests, Check(q)
    PROVE  SeatsInv' /\ SeatsAreHeld
<1>1. /\ SeatTypes /\ InviteInv /\ ClaimInv /\ CountInv /\ Joining(q)
      /\ UNCHANGED <<member, owner, seats, invite, sales, admitted>>
  BY DEF SeatsInv, Check, Joining
<1>2. SeatsAreHeld
  BY <1>1 DEF SeatsAreHeld, InviteInv
<1>3. CASE Goto(q, "checked") /\ UNCHANGED locked
  <2>1. /\ join' \in [Requests -> Asked \union Joins]
        /\ join'[q].step = "checked" /\ join'[q].invite = join[q].invite
        /\ \A p \in Requests \ {q} : join'[p] = join[p]
    BY <1>1, <1>3, JoinMoves
  <2>2. SeatTypes'
    BY <1>1, <1>3, <2>1 DEF SeatTypes
  <2>3. InviteInv'
    BY <1>1 DEF InviteInv
  <2>4. \A p \in Requests :
           /\ Joining(p)' => Joining(p) /\ join'[p].invite = join[p].invite
           /\ Counting(p)' => Counting(p) /\ TeamOf(p)' = TeamOf(p)
    BY <1>1, <2>1 DEF Joining, Counting, TeamOf
  <2>5. ClaimInv'
    BY <1>1, <2>4 DEF ClaimInv
  <2>6. CountInv'
    BY <1>1, <1>3, <2>4 DEF CountInv
  <2>7. QED
    BY <1>2, <2>2, <2>3, <2>5, <2>6 DEF SeatsInv
<1>4. CASE Rollback(q, "none")
  <2>1. \A p \in Requests : Counting(p) => TeamOf(p) # "none"
    BY <1>1 DEF CountInv, SeatTypes, Seating
  <2>2. SeatsInv'
    BY <1>1, <1>4, <2>1, WithdrawStep DEF Rollback
  <2>3. QED
    BY <1>2, <2>2
<1>5. QED
  BY <1>3, <1>4 DEF Check

\* SELECT ... FOR UPDATE: the seats are counted by one request at a time, which
\* goes on only when one is free.
LEMMA LockOrgStep ==
    ASSUME Seating, SeatsInv, NEW q \in Requests, LockOrg(q)
    PROVE  SeatsInv' /\ SeatsAreHeld
<1> DEFINE o == invite[join[q].invite].org
<1>1. /\ SeatTypes /\ InviteInv /\ ClaimInv /\ CountInv /\ Joining(q) /\ o \notin locked
      /\ UNCHANGED <<member, owner, seats, invite, sales, admitted>>
  BY DEF SeatsInv, LockOrg, Joining
<1>2. SeatsAreHeld
  BY <1>1 DEF SeatsAreHeld, InviteInv
<1>3. o \in Orgs /\ \A p \in Requests : Counting(p) => TeamOf(p) # o
  <2>1. join[q].invite \in Invites /\ invite[join[q].invite] # NotYet
    BY <1>1, JoinShape DEF Joins, ClaimInv
  <2>2. QED
    BY <1>1, <2>1, InviteShape DEF Sent, CountInv
<1>4. CASE /\ Cardinality(member[o]) < seats[o]
           /\ Goto(q, "counting") /\ locked' = locked \union {o}
  <2>1. /\ join' \in [Requests -> Asked \union Joins]
        /\ join'[q].step = "counting" /\ join'[q].invite = join[q].invite
        /\ \A p \in Requests \ {q} : join'[p] = join[p]
    BY <1>1, <1>4, JoinMoves
  <2>2. SeatTypes'
    BY <1>1, <1>3, <1>4, <2>1 DEF SeatTypes
  <2>3. InviteInv'
    BY <1>1 DEF InviteInv
  <2>4. \A p \in Requests :
           /\ Joining(p)' => Joining(p) /\ join'[p].invite = join[p].invite
           /\ Counting(p)' => p = q \/ Counting(p)
           /\ TeamOf(p)' = TeamOf(p)
    BY <1>1, <2>1 DEF Joining, Counting, TeamOf
  <2>5. ClaimInv'
    BY <1>1, <2>4 DEF ClaimInv
  <2>6. TeamOf(q) = o
    BY DEF TeamOf
  <2>7. CountInv'
    BY <1>1, <1>3, <1>4, <2>4, <2>6 DEF CountInv
  <2>8. QED
    BY <1>2, <2>2, <2>3, <2>5, <2>7 DEF SeatsInv
<1>5. CASE Rollback(q, o)
  <2>1. SeatsInv'
    BY <1>1, <1>3, <1>5, WithdrawStep DEF Rollback
  <2>2. QED
    BY <1>2, <2>1
<1>6. QED
  BY <1>4, <1>5 DEF LockOrg, SeatsUsed

\* Who has counted comes in: into the seat that was free, by an invitation that
\* nobody has used.
LEMMA JoinStep ==
    ASSUME Seating, SeatsInv, NEW q \in Requests, Join(q)
    PROVE  SeatsInv' /\ SeatsAreHeld
<1> DEFINE i == join[q].invite
           u == join[q].user
           o == invite[i].org
<1>1. /\ SeatTypes /\ InviteInv /\ ClaimInv /\ CountInv /\ Joining(q) /\ Counting(q)
      /\ join' = [join EXCEPT ![q] = Away] /\ locked' = locked \ {o}
      /\ UNCHANGED <<owner, seats, sales>>
  BY DEF SeatsInv, Join, Rollback, Joining, Counting
<1>2. i \in Invites /\ u \in Users /\ invite[i] # NotYet /\ invite[i].used = "nobody"
  BY <1>1, JoinShape DEF Joins, ClaimInv
<1>3. o \in Orgs /\ invite[i] \in Sent
  BY <1>1, <1>2, InviteShape DEF Sent
<1>4. TeamOf(q) = o /\ Cardinality(member[o]) < seats[o]
  BY <1>1 DEF TeamOf, CountInv
<1>5. \A p \in Requests \ {q} : /\ Counting(p) => TeamOf(p) # o
                                /\ Joining(p) => join[p].invite # i
  BY <1>1, <1>4 DEF CountInv, ClaimInv
<1>6. CASE UNCHANGED <<member, invite, admitted>>
  <2>1. SeatsInv'
    <3>1. \A p \in Requests \ {q} : Counting(p) => TeamOf(p) # o
      BY <1>5
    <3> HIDE DEF o, i, u
    <3>2. QED
      BY <1>1, <1>6, <3>1, WithdrawStep
  <2>2. SeatsAreHeld
    BY <1>1, <1>6 DEF SeatsAreHeld, InviteInv
  <2>3. QED
    BY <2>1, <2>2
<1>7. CASE /\ u \notin member[o]
           /\ member' = [member EXCEPT ![o] = member[o] \union {u}]
           /\ invite' = [invite EXCEPT ![i] = [invite[i] EXCEPT !.used = u]]
           /\ admitted' = [admitted EXCEPT ![i] = admitted[i] + 1]
  <2> DEFINE spent == [invite[i] EXCEPT !.used = u]
  <2>1. spent \in Sent /\ spent.org = o /\ spent.used = u
    BY <1>2, <1>3 DEF Sent
  <2>2. spent # NotYet
    BY <1>2, <1>3, <2>1 DEF NotYet, Seating
  <2>3. invite' = [invite EXCEPT ![i] = spent]
    BY <1>7
  <2> HIDE DEF spent
  <2>4. invite'[i] = spent /\ \A k \in Invites \ {i} : invite'[k] = invite[k]
    BY <1>1, <1>2, <2>3 DEF SeatTypes
  <2>5. admitted[i] = 0
    BY <1>1, <1>2 DEF InviteInv
  <2>6. admitted'[i] = 1 /\ \A k \in Invites \ {i} : admitted'[k] = admitted[k]
    BY <1>1, <1>2, <1>7, <2>5 DEF SeatTypes
  <2>7. /\ join' \in [Requests -> Asked \union Joins]
        /\ ~Joining(q)' /\ ~Counting(q)'
        /\ \A p \in Requests \ {q} : join'[p] = join[p]
    BY <1>1, JoinEnds
  <2>8. SeatTypes'
    <3>1. member' \in [Orgs -> SUBSET Users]
      BY <1>1, <1>2, <1>7 DEF SeatTypes
    <3>2. invite' \in [Invites -> {NotYet} \union Sent]
      BY <1>1, <2>1, <2>3 DEF SeatTypes
    <3>3. admitted' \in [Invites -> Nat]
      BY <1>1, <1>2, <1>7, <2>5 DEF SeatTypes
    <3>4. QED
      BY <1>1, <2>7, <3>1, <3>2, <3>3 DEF SeatTypes
  <2>9. InviteInv'
    <3>1. u # "nobody"
      BY <1>2 DEF Seating
    <3>2. QED
      BY <1>1, <1>2, <2>1, <2>2, <2>4, <2>6, <3>1 DEF InviteInv
  <2>10. \A p \in Requests : Joining(p)' =>
            p # q /\ Joining(p) /\ join'[p] = join[p] /\ join[p].invite \in Invites \ {i}
    <3>1. \A p \in Requests : Joining(p) => join[p].invite \in Invites
      BY <1>1, JoinShape DEF Joins
    <3>2. QED
      BY <1>5, <2>7, <3>1 DEF Joining
  <2>11. ClaimInv'
    BY <1>1, <2>4, <2>10 DEF ClaimInv
  <2>12. \A p \in Requests : Counting(p)' =>
            p # q /\ Counting(p) /\ TeamOf(p)' = TeamOf(p) /\ TeamOf(p) # o
    BY <1>5, <2>4, <2>7, <2>10 DEF Counting, Joining, TeamOf
  <2>13. CountInv'
    <3>1. \A e \in Orgs \ {o} : member'[e] = member[e]
      BY <1>1, <1>7 DEF SeatTypes
    <3>2. \A p \in Requests : Counting(p) => TeamOf(p) \in Orgs
      BY <1>1 DEF CountInv, SeatTypes
    <3>3. QED
      BY <1>1, <2>12, <3>1, <3>2 DEF CountInv
  <2>14. SeatsAreHeld
    <3>1. member'[o] = member[o] \union {u} /\ \A e \in Orgs \ {o} : member'[e] = member[e]
      BY <1>1, <1>3, <1>7 DEF SeatTypes
    <3>2. Cardinality(member'[o]) = Cardinality(member[o]) + 1
      <4>1. IsFiniteSet(member[o]) /\ u \notin member[o]
        BY <1>1, <1>3, <1>7, MembersFinite
      <4> HIDE DEF o, u
      <4>2. Cardinality(member[o] \union {u}) = Cardinality(member[o]) + 1
        BY ONLY <4>1, FS_AddElement
      <4>3. QED
        BY ONLY <3>1, <4>2
    <3>3. Cardinality(member[o]) \in Nat /\ seats[o] \in Nat
      BY <1>1, <1>3, MembersFinite DEF SeatTypes
    <3>4. Cardinality(member'[o]) <= seats'[o]
      BY <1>1, <1>4, <3>2, <3>3
    <3>5. \A e \in Orgs : ~(member'[e] \subseteq member[e]) => Cardinality(member'[e]) <= seats'[e]
      BY <3>1, <3>4
    <3>6. \A k \in Invites : admitted'[k] <= 1
      BY <1>1, <2>6 DEF InviteInv
    <3>7. QED
      BY <3>5, <3>6, Zenon DEF SeatsAreHeld
  <2>15. QED
    BY <2>8, <2>9, <2>11, <2>13, <2>14 DEF SeatsInv
<1>8. QED
  BY <1>6, <1>7 DEF Join

\* Every step keeps the invariant, and lets nobody in over the number of seats.
LEMMA SeatsInvStep ==
    ASSUME Seating, SeatsInv, [Next]_seatsVars
    PROVE  SeatsInv' /\ [SeatsAreHeld]_seatsVars
<1>1. CASE UNCHANGED seatsVars
  BY <1>1 DEF seatsVars, SeatsInv, SeatTypes, InviteInv, ClaimInv, CountInv,
              Joining, Counting, TeamOf
<1>2. CASE Next
  BY <1>2, LeaveStep, BuySeatsStep, InviteStep, FoundStep, CreateOrgStep, ClaimStep,
     CheckStep, LockOrgStep, JoinStep DEF Next, Nobody
<1>3. QED
  BY <1>1, <1>2

\* Teams, invitations and requests are always well formed.
THEOREM SeatsTypeCorrect == ASSUME Seating PROVE Spec => []TypeOK
<1>1. Init => SeatsInv
  BY SeatsInvInit
<1>2. SeatsInv /\ [Next]_seatsVars => SeatsInv'
  BY SeatsInvStep
<1>3. SeatsInv => TypeOK
  BY TeamTypes DEF SeatsInv
<1>4. QED
  BY <1>1, <1>2, <1>3, PTL DEF Spec

\* teams.py, accept_invite: whoever joins at the same time, by whichever
\* invitations, nobody comes in over the number of seats, and an invitation lets
\* in one.
THEOREM NobodyOverTheSeats == ASSUME Seating PROVE Spec => SeatsHold
<1>1. Init => SeatsInv
  BY SeatsInvInit
<1>2. SeatsInv /\ [Next]_seatsVars => SeatsInv' /\ [SeatsAreHeld]_seatsVars
  BY SeatsInvStep
<1>3. QED
  BY <1>1, <1>2, PTL DEF Spec, SeatsHold

-----------------------------------------------------------------------------
(* DeviceLogin.                                                             *)

Named  == "nobody" \notin Owners /\ MaxEpoch \in Nat

\* A code that is approved has an approval of its user that has not been used.
Unused ==
    \A c \in Codes, u \in Owners :
        /\ Len(devices[c][u]) <= approvals[c][u]
        /\ row[c].status = "approved" /\ row[c].user = u => Len(devices[c][u]) < approvals[c][u]

LoginInv == Login!TypeOK /\ Unused

\* Nobody has a code yet.
LEMMA LoginInvInit == ASSUME Named, Login!Init PROVE LoginInv
<1>1. 0 \in 0..MaxEpoch
  BY DEF Named
<1>2. /\ Login!Never \in [Owners -> Nat] /\ Login!Nobody \in [Owners -> Seq(0..MaxEpoch)]
      /\ \A u \in Owners : Login!Never[u] = 0 /\ Len(Login!Nobody[u]) = 0
  BY DEF Login!Never, Login!Nobody
<1>3. Login!TypeOK
  BY <1>1, <1>2 DEF Login!Init, Login!TypeOK
<1>4. Unused
  BY <1>2 DEF Login!Init, Unused, Login!None
<1>5. QED
  BY <1>3, <1>4 DEF LoginInv

\* What the tables hold.
LEMMA LoginShape ==
    ASSUME Login!TypeOK, NEW c \in Codes, NEW u \in Owners
    PROVE  /\ approvals[c] \in [Owners -> Nat] /\ devices[c] \in [Owners -> Seq(0..MaxEpoch)]
           /\ approvals[c][u] \in Nat
           /\ devices[c][u] \in Seq(0..MaxEpoch) /\ Len(devices[c][u]) \in Nat
<1>1. approvals[c] \in [Owners -> Nat] /\ devices[c] \in [Owners -> Seq(0..MaxEpoch)]
  BY DEF Login!TypeOK
<1>2. QED
  BY <1>1

\* An answer may come late, and to a code that has been consumed: it is one
\* approval more.
LEMMA WriteCodeStep ==
    ASSUME LoginInv, NEW b \in Browsers, Login!WriteCode(b)
    PROVE  LoginInv'
<1> DEFINE c == answer[b].code
           w == answer[b].user
           more == IF answer[b].says = "approved" THEN approvals[c][w] + 1 ELSE approvals[c][w]
<1>1. /\ answer[b].says \in {"approved", "denied"} /\ c \in Codes /\ w \in Owners
  BY DEF LoginInv, Login!TypeOK, Login!WriteCode
<1>2. Login!TypeOK /\ Unused /\ UNCHANGED devices
  BY DEF LoginInv, Login!WriteCode
<1>3. approvals[c] \in [Owners -> Nat] /\ approvals[c][w] \in Nat
  BY <1>1, <1>2, LoginShape
<1>4. CASE row[c] = Login!None
  BY <1>1, <1>2, <1>4 DEF Login!WriteCode, LoginInv, Unused, Login!TypeOK
<1>5. CASE row[c] # Login!None
  <2>1. /\ row' = [row EXCEPT ![c] = Login!Row(answer[b].says, w)]
        /\ approvals' = [approvals EXCEPT ![c] = [approvals[c] EXCEPT ![w] = more]]
        /\ answer' = [answer EXCEPT ![b] = Login!Quiet]
        /\ UNCHANGED <<epoch, barred>>
    BY <1>5 DEF Login!WriteCode
  <2>2. more \in Nat /\ more >= approvals[c][w]
        /\ (answer[b].says = "approved" => more > approvals[c][w])
    BY <1>3
  <2> HIDE DEF more
  <2>3. /\ [approvals[c] EXCEPT ![w] = more] \in [Owners -> Nat]
        /\ [approvals[c] EXCEPT ![w] = more][w] = more
        /\ \A u \in Owners \ {w} : [approvals[c] EXCEPT ![w] = more][u] = approvals[c][u]
    BY <1>1, <1>3, <2>2
  <2>4. /\ approvals' \in [Codes -> [Owners -> Nat]] /\ approvals'[c][w] = more
        /\ \A u \in Owners \ {w} : approvals'[c][u] = approvals[c][u]
        /\ \A d \in Codes \ {c} : approvals'[d] = approvals[d]
    BY <1>1, <1>2, <2>1, <2>3 DEF Login!TypeOK
  <2>5. Login!TypeOK'
    <3>1. Login!Row(answer[b].says, w) \in
             [status : {"approved", "denied", "consumed"}, user : Owners]
      BY <1>1 DEF Login!Row
    <3>2. row' \in [Codes -> {Login!None, Login!Row("pending", "nobody")} \union
             [status : {"approved", "denied", "consumed"}, user : Owners]]
      BY <1>1, <1>2, <2>1, <3>1 DEF Login!TypeOK
    <3>3. answer' \in [Browsers -> {Login!Quiet} \union
             [says : {"approved", "denied"}, code : Codes, user : Owners]]
      BY <1>2, <2>1 DEF Login!TypeOK
    <3>4. QED
      BY <1>2, <2>1, <2>4, <3>2, <3>3 DEF Login!TypeOK
  <2>6. /\ \A d \in Codes \ {c} : row'[d] = row[d]
        /\ row'[c].status = answer[b].says /\ row'[c].user = w
    BY <1>1, <1>2, <2>1 DEF Login!TypeOK, Login!Row
  <2>7. ASSUME NEW d \in Codes, NEW u \in Owners
        PROVE  /\ Len(devices[d][u]) <= approvals'[d][u]
               /\ row'[d].status = "approved" /\ row'[d].user = u =>
                     Len(devices[d][u]) < approvals'[d][u]
    <3>1. /\ Len(devices[d][u]) <= approvals[d][u]
          /\ row[d].status = "approved" /\ row[d].user = u => Len(devices[d][u]) < approvals[d][u]
          /\ Len(devices[d][u]) \in Nat /\ approvals[d][u] \in Nat
      BY <1>2, LoginShape DEF Unused
    <3>2. CASE d = c /\ u = w
      BY <1>1, <2>2, <2>4, <2>6, <3>1, <3>2
    <3>3. CASE d = c /\ u # w
      BY <2>4, <2>6, <3>1, <3>3
    <3>4. CASE d # c
      BY <2>4, <2>6, <3>1, <3>4
    <3>5. QED
      BY <3>2, <3>3, <3>4
  <2>8. QED
    BY <1>2, <2>5, <2>7 DEF LoginInv, Unused
<1>6. QED
  BY <1>4, <1>5

\* The conditional UPDATE uses the approval of the code's user up.
LEMMA PollStep ==
    ASSUME LoginInv, NEW c \in Codes, Login!Poll(c)
    PROVE  LoginInv'
<1> DEFINE w == row[c].user
           more == Append(devices[c][w], epoch[w])
<1>1. Login!TypeOK /\ Unused /\ row[c].status = "approved"
  BY DEF LoginInv, Login!Poll
<1>2. row[c] \in [status : {"approved", "denied", "consumed"}, user : Owners] /\ w \in Owners
  BY <1>1 DEF Login!TypeOK, Login!None, Login!Row
<1>3. /\ devices[c] \in [Owners -> Seq(0..MaxEpoch)] /\ devices[c][w] \in Seq(0..MaxEpoch)
      /\ epoch[w] \in 0..MaxEpoch
  BY <1>1, <1>2, LoginShape DEF Login!TypeOK
<1>4. /\ row' = [row EXCEPT ![c] = [row[c] EXCEPT !.status = "consumed"]]
      /\ devices' = [devices EXCEPT ![c] = [devices[c] EXCEPT ![w] = more]]
      /\ UNCHANGED <<epoch, barred, answer, approvals>>
  BY DEF Login!Poll, Login!Minted
<1>5. more \in Seq(0..MaxEpoch) /\ Len(more) = Len(devices[c][w]) + 1
  BY <1>3
<1> HIDE DEF more
<1>6. /\ [devices[c] EXCEPT ![w] = more] \in [Owners -> Seq(0..MaxEpoch)]
      /\ [devices[c] EXCEPT ![w] = more][w] = more
      /\ \A u \in Owners \ {w} : [devices[c] EXCEPT ![w] = more][u] = devices[c][u]
  BY <1>2, <1>3, <1>5
<1>7. /\ devices' \in [Codes -> [Owners -> Seq(0..MaxEpoch)]] /\ devices'[c][w] = more
      /\ \A u \in Owners \ {w} : devices'[c][u] = devices[c][u]
      /\ \A d \in Codes \ {c} : devices'[d] = devices[d]
  BY <1>1, <1>2, <1>4, <1>6 DEF Login!TypeOK
<1>8. /\ [row[c] EXCEPT !.status = "consumed"] \in
            [status : {"approved", "denied", "consumed"}, user : Owners]
      /\ [row[c] EXCEPT !.status = "consumed"].status = "consumed"
  BY <1>2
<1>9. /\ row' \in [Codes -> {Login!None, Login!Row("pending", "nobody")} \union
             [status : {"approved", "denied", "consumed"}, user : Owners]]
      /\ \A d \in Codes \ {c} : row'[d] = row[d]
      /\ row'[c].status = "consumed"
  BY <1>1, <1>4, <1>8 DEF Login!TypeOK
<1>10. Login!TypeOK'
  BY <1>1, <1>4, <1>7, <1>9 DEF Login!TypeOK
<1>11. ASSUME NEW d \in Codes, NEW u \in Owners
       PROVE  /\ Len(devices'[d][u]) <= approvals[d][u]
              /\ row'[d].status = "approved" /\ row'[d].user = u =>
                    Len(devices'[d][u]) < approvals[d][u]
  <2>1. /\ Len(devices[d][u]) <= approvals[d][u]
        /\ row[d].status = "approved" /\ row[d].user = u => Len(devices[d][u]) < approvals[d][u]
        /\ Len(devices[d][u]) \in Nat /\ approvals[d][u] \in Nat
    BY <1>1, LoginShape DEF Unused
  <2>2. CASE d = c /\ u = w
    BY <1>1, <1>5, <1>7, <1>9, <2>1, <2>2
  <2>3. CASE d = c /\ u # w
    BY <1>7, <1>9, <2>1, <2>3
  <2>4. CASE d # c
    BY <1>7, <1>9, <2>1, <2>4
  <2>5. QED
    BY <2>2, <2>3, <2>4
<1>12. QED
  BY <1>4, <1>10, <1>11 DEF LoginInv, Unused

\* A code that goes takes its approvals and devices' history with it.
LEMMA SweepStep ==
    ASSUME LoginInv, NEW c \in Codes, Login!Sweep(c)
    PROVE  LoginInv'
<1>1. Login!TypeOK /\ Unused
  BY DEF LoginInv
<1>2. /\ Login!Never \in [Owners -> Nat] /\ Login!Nobody \in [Owners -> Seq(0..MaxEpoch)]
      /\ \A u \in Owners : Login!Never[u] = 0 /\ Len(Login!Nobody[u]) = 0
  BY DEF Login!Never, Login!Nobody
<1>3. Login!TypeOK'
  BY <1>1, <1>2 DEF Login!TypeOK, Login!Sweep
<1>4. Unused'
  <2>1. \A d \in Codes \ {c} :
           row'[d] = row[d] /\ approvals'[d] = approvals[d] /\ devices'[d] = devices[d]
    BY <1>1 DEF Login!Sweep, Login!TypeOK
  <2>2. row'[c].status = "none" /\ approvals'[c] = Login!Never /\ devices'[c] = Login!Nobody
    BY <1>1 DEF Login!Sweep, Login!TypeOK, Login!None
  <2>3. QED
    BY <1>1, <1>2, <2>1, <2>2 DEF Unused
<1>5. QED
  BY <1>3, <1>4 DEF LoginInv

\* Every step keeps the account of approvals.
LEMMA LoginInvStep == ASSUME Named, LoginInv, [Login!Next]_Login!deviceVars PROVE LoginInv'
<1>1. Login!TypeOK /\ Unused
  BY DEF LoginInv
<1>2. CASE UNCHANGED Login!deviceVars
  BY <1>1, <1>2 DEF Login!deviceVars, LoginInv, Login!TypeOK, Unused
<1>3. ASSUME NEW c \in Codes, Login!StartCode(c) PROVE LoginInv'
  <2>1. Login!TypeOK'
    BY <1>1, <1>3 DEF Login!StartCode, Login!TypeOK
  <2>2. Unused'
    BY <1>1, <1>3 DEF Login!StartCode, Login!TypeOK, Unused, Login!Row
  <2>3. QED
    BY <2>1, <2>2 DEF LoginInv
<1>4. ASSUME NEW c \in Codes, Login!PollDenied(c) PROVE LoginInv'
  BY <1>4, SweepStep DEF Login!PollDenied
<1>5. ASSUME NEW b \in Browsers, NEW c \in Codes, NEW u \in Owners,
             NEW says \in {"approved", "denied"}, Login!ReadCode(b, c, u, says)
      PROVE  LoginInv'
  <2>1. Login!TypeOK'
    BY <1>1, <1>5 DEF Login!ReadCode, Login!TypeOK
  <2>2. Unused'
    BY <1>1, <1>5 DEF Login!ReadCode, Unused
  <2>3. QED
    BY <2>1, <2>2 DEF LoginInv
<1>6. ASSUME NEW u \in Owners, Login!EndSessions(u) PROVE LoginInv'
  <2>1. epoch[u] + 1 \in 0..MaxEpoch /\ barred' \subseteq Owners
    BY <1>1, <1>6 DEF Login!EndSessions, Login!TypeOK, Named
  <2>2. Login!TypeOK'
    BY <1>1, <1>6, <2>1 DEF Login!EndSessions, Login!TypeOK
  <2>3. Unused'
    BY <1>1, <1>6 DEF Login!EndSessions, Unused
  <2>4. QED
    BY <2>2, <2>3 DEF LoginInv
<1>7. QED
  BY <1>2, <1>3, <1>4, <1>5, <1>6, SweepStep, PollStep, WriteCodeStep DEF Login!Next

\* device_auth.py, poll: however many polls arrive at once, and however late a
\* browser's answer is, no approval yields a second device.
THEOREM ADevicePerApproval == ASSUME Named PROVE Login!Spec => []Login!ADeviceForAnApproval
<1>1. Login!Init => LoginInv
  BY LoginInvInit
<1>2. LoginInv /\ [Login!Next]_Login!deviceVars => LoginInv'
  BY LoginInvStep
<1>3. LoginInv => Login!ADeviceForAnApproval
  BY DEF LoginInv, Unused, Login!ADeviceForAnApproval
<1>4. QED
  BY <1>1, <1>2, <1>3, PTL DEF Login!Spec

-----------------------------------------------------------------------------
(* LiveRoom.                                                                *)

LineTypes ==
    /\ line \in [Lines -> {Live!Unseen} \union [step : Live!Steps, kind : Kinds, room : Rooms]]
    /\ said \in [Lines -> Nat] /\ bills \in [Lines -> Nat] /\ replied \subseteq Lines

\* Before the answer is there nothing was billed; before the text is given to
\* the node nothing was spoken, and what the model wrote was billed.
LineInv(l) ==
    /\ line[l] = Live!Unseen \/ line[l].step \in {"status", "compose", "hedged"} =>
          said[l] = 0 /\ bills[l] = 0 /\ l \notin replied
    /\ line[l].step \in {"status", "compose", "hedged"} => line[l].kind # "echo"
    /\ line[l].step = "interject" =>
          said[l] = 0 /\ l \notin replied /\ (line[l].kind # "echo" => bills[l] = 1)
    /\ said[l] <= 1 /\ bills[l] <= 1
    /\ said[l] = 1 /\ line[l].kind # "echo" => bills[l] = 1
    /\ l \in replied => said[l] = 1

RoomInv == LineTypes /\ \A l \in Lines : LineInv(l)

\* A step of one line that leaves the others alone keeps the invariant when it
\* keeps it of that line.
LEMMA OneLine ==
    ASSUME RoomInv, LineTypes', NEW l \in Lines, LineInv(l)',
           \A k \in Lines \ {l} : /\ line'[k] = line[k] /\ said'[k] = said[k]
                                  /\ bills'[k] = bills[k] /\ (k \in replied' <=> k \in replied)
    PROVE  RoomInv'
<1>1. ASSUME NEW k \in Lines \ {l} PROVE LineInv(k)'
  <2>1. /\ line'[k] = line[k] /\ said'[k] = said[k]
        /\ bills'[k] = bills[k] /\ (k \in replied' <=> k \in replied)
    BY <1>1
  <2>2. LineInv(k)
    BY <1>1 DEF RoomInv
  <2>3. QED
    BY <2>1, <2>2 DEF LineInv
<1>2. QED
  BY <1>1 DEF RoomInv

\* What Goto does to a request that has begun.
LEMMA GotoStep ==
    ASSUME LineTypes, NEW l \in Lines, line[l].step \in Live!Steps,
           NEW s \in Live!Steps, Live!Goto(l, s)
    PROVE  /\ line' \in [Lines -> {Live!Unseen} \union
                            [step : Live!Steps, kind : Kinds, room : Rooms]]
           /\ line'[l].step = s /\ line'[l].kind = line[l].kind /\ line'[l] # Live!Unseen
           /\ \A k \in Lines \ {l} : line'[k] = line[k]
<1> DEFINE moved == [line[l] EXCEPT !.step = s]
<1>1. line[l] \in [step : Live!Steps, kind : Kinds, room : Rooms]
  BY DEF LineTypes, Live!Unseen, Live!Steps
<1>2. /\ moved \in [step : Live!Steps, kind : Kinds, room : Rooms]
      /\ moved.step = s /\ moved.kind = line[l].kind
  BY <1>1
<1>3. line' = [line EXCEPT ![l] = moved]
  BY DEF Live!Goto
<1> HIDE DEF moved
<1>4. moved # Live!Unseen
  BY <1>2 DEF Live!Unseen, Live!Steps
<1>5. QED
  BY <1>2, <1>3, <1>4 DEF LineTypes

\* A comment, and what the administrator asks for.
LEMMA AskStep ==
    ASSUME RoomInv, NEW l \in Lines, NEW r \in Rooms,
           Live!Comment(l, r) \/ \E kind \in Kinds : Live!Direct(l, r, kind)
    PROVE  RoomInv'
<1>1. /\ line[l] = Live!Unseen /\ UNCHANGED <<said, bills, replied>>
      /\ LineTypes /\ LineInv(l)
  BY DEF RoomInv, Live!Comment, Live!Direct, Live!Spoken
<1>2. PICK kind \in Kinds, step \in {"done", "status", "compose", "interject"} :
         /\ line' = [line EXCEPT ![l] = [kind |-> kind, room |-> r, step |-> step]]
         /\ step = "interject" <=> kind = "echo"
  <2>1. CASE Live!Comment(l, r)
    BY <2>1 DEF Live!Comment
  <2>2. ASSUME NEW kind \in Kinds, Live!Direct(l, r, kind)
        PROVE  \E step \in {"done", "status", "compose", "interject"} :
                  /\ line' = [line EXCEPT ![l] = [kind |-> kind, room |-> r, step |-> step]]
                  /\ step = "interject" <=> kind = "echo"
    BY <2>2 DEF Live!Direct
  <2>3. QED
    BY <2>1, <2>2
<1> DEFINE asked == [kind |-> kind, room |-> r, step |-> step]
<1>3. /\ asked \in [step : Live!Steps, kind : Kinds, room : Rooms]
      /\ asked.step = step /\ asked.kind = kind
  BY DEF Live!Steps
<1>4. line' = [line EXCEPT ![l] = asked]
  BY <1>2
<1> HIDE DEF asked
<1>5. line'[l] = asked /\ \A k \in Lines \ {l} : line'[k] = line[k]
  BY <1>1, <1>4 DEF LineTypes
<1>6. LineTypes'
  BY <1>1, <1>3, <1>4 DEF LineTypes
<1>7. LineInv(l)'
  BY <1>1, <1>2, <1>3, <1>5 DEF LineInv, Live!Unseen
<1>8. QED
  BY <1>1, <1>5, <1>6, <1>7, OneLine

\* The place is taken, or the host stays silent; nothing is billed or spoken by
\* that, nor when the answer does not come.
LEMMA QuietStep ==
    ASSUME RoomInv, NEW l \in Lines,
           Live!Placed(l) \/ Live!Hedge(l) \/ Live!Unanswered(l)
    PROVE  RoomInv'
<1>1. LineTypes /\ LineInv(l) /\ UNCHANGED <<said, bills, replied>>
  BY DEF RoomInv, Live!Placed, Live!Hedge, Live!Unanswered, Live!Spoken
<1>2. PICK s \in {"compose", "hedged", "done"} :
         Live!Goto(l, s) /\ line[l].step \in {"status", "compose", "hedged"}
  BY DEF Live!Placed, Live!Hedge, Live!Unanswered
<1>3. /\ line' \in [Lines -> {Live!Unseen} \union
                       [step : Live!Steps, kind : Kinds, room : Rooms]]
      /\ line'[l].step = s /\ line'[l].kind = line[l].kind /\ line'[l] # Live!Unseen
      /\ \A k \in Lines \ {l} : line'[k] = line[k]
  BY <1>1, <1>2, GotoStep DEF Live!Steps
<1>4. LineTypes'
  BY <1>1, <1>3 DEF LineTypes
<1>5. LineInv(l)'
  BY <1>1, <1>2, <1>3 DEF LineInv
<1>6. QED
  BY <1>1, <1>3, <1>4, <1>5, OneLine

\* The first answer is billed, in the step that ends the waiting.
LEMMA AnsweredStep ==
    ASSUME RoomInv, NEW l \in Lines, Live!Answered(l)
    PROVE  RoomInv'
<1>1. LineTypes /\ LineInv(l)
  BY DEF RoomInv
<1>2. /\ line[l].step \in {"compose", "hedged"}
      /\ bills' = [bills EXCEPT ![l] = bills[l] + 1]
      /\ UNCHANGED <<said, replied>>
  BY DEF Live!Answered, Live!Pay
<1>3. PICK s \in {"done", "interject"} : Live!Goto(l, s)
  BY DEF Live!Answered
<1>4. /\ line' \in [Lines -> {Live!Unseen} \union
                       [step : Live!Steps, kind : Kinds, room : Rooms]]
      /\ line'[l].step = s /\ line'[l].kind = line[l].kind /\ line'[l] # Live!Unseen
      /\ \A k \in Lines \ {l} : line'[k] = line[k]
  BY <1>1, <1>2, <1>3, GotoStep DEF Live!Steps
<1>5. said[l] = 0 /\ bills[l] = 0 /\ l \notin replied /\ bills'[l] = 1
  BY <1>1, <1>2 DEF LineTypes, LineInv
<1>6. LineTypes' /\ \A k \in Lines \ {l} : bills'[k] = bills[k]
  <2>1. bills' \in [Lines -> Nat] /\ \A k \in Lines \ {l} : bills'[k] = bills[k]
    BY <1>1, <1>2 DEF LineTypes
  <2>2. QED
    BY <1>1, <1>2, <1>4, <2>1 DEF LineTypes
<1>7. LineInv(l)'
  BY <1>2, <1>4, <1>5 DEF LineInv
<1>8. QED
  BY <1>2, <1>4, <1>6, <1>7, OneLine

\* The text is given to the node, or may have been: the request ends with that.
LEMMA SpeakStep ==
    ASSUME RoomInv, NEW l \in Lines, Live!Interject(l) \/ Live!Lost(l)
    PROVE  RoomInv'
<1>1. LineTypes /\ LineInv(l)
  BY DEF RoomInv
<1>2. line[l].step = "interject" /\ Live!Goto(l, "done") /\ UNCHANGED bills
  BY DEF Live!Interject, Live!Lost
<1>3. /\ line' \in [Lines -> {Live!Unseen} \union
                       [step : Live!Steps, kind : Kinds, room : Rooms]]
      /\ line'[l].step = "done" /\ line'[l].kind = line[l].kind /\ line'[l] # Live!Unseen
      /\ \A k \in Lines \ {l} : line'[k] = line[k]
  BY <1>1, <1>2, GotoStep DEF Live!Steps
<1>4. said[l] = 0 /\ l \notin replied /\ (line[l].kind # "echo" => bills[l] = 1) /\ bills[l] <= 1
  BY <1>1, <1>2 DEF LineInv
<1>5. \/ said' = [said EXCEPT ![l] = said[l] + 1] /\ replied' \in {replied, replied \union {l}}
      \/ UNCHANGED <<said, replied>>
  BY DEF Live!Interject, Live!Lost, Live!Speak
<1>6. /\ said'[l] \in {0, 1} /\ (l \in replied' => said'[l] = 1)
      /\ said' \in [Lines -> Nat] /\ replied' \subseteq Lines
      /\ \A k \in Lines \ {l} : said'[k] = said[k] /\ (k \in replied' <=> k \in replied)
  BY <1>1, <1>4, <1>5 DEF LineTypes
<1>7. LineTypes' /\ bills'[l] = bills[l]
  BY <1>1, <1>2, <1>3, <1>6 DEF LineTypes
<1>8. LineInv(l)'
  BY <1>3, <1>4, <1>6, <1>7 DEF LineInv
<1>9. QED
  BY <1>2, <1>3, <1>6, <1>7, <1>8, OneLine

\* A restart ends what was under way, wherever it was.
LEMMA RestartStep == ASSUME RoomInv, Live!Restart PROVE RoomInv'
<1>1. LineTypes /\ UNCHANGED <<said, bills, replied>>
  BY DEF RoomInv, Live!Restart, Live!Spoken
<1>2. \A l \in Lines : line'[l] =
         IF line[l] = Live!Unseen THEN Live!Unseen ELSE [line[l] EXCEPT !.step = "done"]
  BY DEF Live!Restart
<1>3. ASSUME NEW l \in Lines, line[l] # Live!Unseen
      PROVE  /\ line'[l] \in [step : Live!Steps, kind : Kinds, room : Rooms]
             /\ line'[l].step = "done" /\ line'[l].kind = line[l].kind
  <2>1. line[l] \in [step : Live!Steps, kind : Kinds, room : Rooms]
    BY <1>1, <1>3 DEF LineTypes
  <2>2. line'[l] = [line[l] EXCEPT !.step = "done"]
    BY <1>2, <1>3
  <2>3. QED
    BY <2>1, <2>2 DEF Live!Steps
<1>4. LineTypes'
  <2>1. line' = [l \in Lines |->
           IF line[l] = Live!Unseen THEN Live!Unseen ELSE [line[l] EXCEPT !.step = "done"]]
    BY DEF Live!Restart
  <2>2. \A l \in Lines : line'[l] \in {Live!Unseen} \union
           [step : Live!Steps, kind : Kinds, room : Rooms]
    BY <1>2, <1>3
  <2>3. line' = [l \in Lines |-> line'[l]]
    BY <2>1
  <2>4. QED
    BY <1>1, <2>2, <2>3 DEF LineTypes
<1>5. ASSUME NEW l \in Lines PROVE LineInv(l)'
  <2>1. LineInv(l)
    BY DEF RoomInv
  <2>2. CASE line[l] = Live!Unseen
    BY <1>1, <1>2, <2>1, <2>2 DEF LineInv, Live!Unseen
  <2>3. CASE line[l] # Live!Unseen
    <3>1. line'[l] # Live!Unseen
      BY <1>3, <2>3 DEF Live!Unseen
    <3>2. QED
      BY <1>1, <1>3, <2>1, <2>3, <3>1 DEF LineInv
  <2>4. QED
    BY <2>2, <2>3
<1>6. QED
  BY <1>4, <1>5 DEF RoomInv

\* Every step keeps the invariant: what is not a step of a line leaves the
\* lines, the bills and what was spoken alone.
LEMMA RoomInvStep == ASSUME RoomInv, [Live!Next]_Live!liveVars PROVE RoomInv'
<1>1. ASSUME UNCHANGED <<line, said, bills, replied>> PROVE RoomInv'
  BY <1>1 DEF RoomInv, LineTypes, LineInv
<1>2. CASE UNCHANGED Live!liveVars
  BY <1>1, <1>2 DEF Live!liveVars
<1>3. CASE Live!Forget \/ Live!ListRooms
  BY <1>1, <1>3 DEF Live!Forget, Live!ListRooms, Live!Spoken
<1>4. ASSUME NEW r \in Rooms, \/ Live!CountLive(r) \/ Live!Start(r) \/ Live!Stop(r)
                              \/ Live!Utter(r) \/ Live!CooledDown(r)
      PROVE  RoomInv'
  BY <1>1, <1>4 DEF Live!CountLive, Live!Start, Live!Stop, Live!Utter, Live!CooledDown, Live!Spoken
<1>5. QED
  BY <1>2, <1>3, <1>4, AskStep, QuietStep, AnsweredStep, SpeakStep, RestartStep DEF Live!Next

\* live.py: whatever is lost, tried again or started anew, a text reaches the
\* node at most once and is billed at most once, what the model wrote and the
\* host spoke was billed, and a comment shown as answered was spoken.
THEOREM SpokenAndBilledOnce == Live!Spec => []Live!SpokenOnce
<1>1. Live!Init => RoomInv
  BY DEF Live!Init, RoomInv, LineTypes, LineInv, Live!Unseen
<1>2. RoomInv /\ [Live!Next]_Live!liveVars => RoomInv'
  BY RoomInvStep
<1>3. RoomInv => Live!SpokenOnce
  BY DEF RoomInv, LineInv, Live!SpokenOnce
<1>4. QED
  BY <1>1, <1>2, <1>3, PTL DEF Live!Spec

-----------------------------------------------------------------------------
(* Avatar.                                                                  *)

CONSTANTS Talks, Speakers, Minutes, Seconds, PerMinute, Purse, MaxBreaks
VARIABLES purse, page, node, report, stamp, claimed, charged, say, breaks, torn
Avatars == INSTANCE Avatar

\* Of the reports with one key one is charged, after the key was claimed; one that
\* may be forgotten has such a key.
MinuteInv ==
    /\ stamp \in [Avatars!Reports -> Seconds]
    /\ report \in [Avatars!Reports -> {"none", "due", "old", "acked"}]
    /\ charged \in [Avatars!Reports -> {0, 1}]
    /\ \A r \in Avatars!Reports : charged[r] = 1 \/ report[r] = "acked" => stamp[r] \in claimed
    /\ \A q, r \in Avatars!Reports : charged[q] = 1 /\ charged[r] = 1 /\ stamp[q] = stamp[r] => q = r
    /\ \A s \in claimed \ torn : \E q \in Avatars!Reports : stamp[q] = s /\ charged[q] = 1

\* At the start nothing was reported, claimed or charged.
LEMMA MinuteBegins == Avatars!Init => MinuteInv
BY DEF Avatars!Init, Avatars!Stamps, MinuteInv, Avatars!Reports

\* What happens to the call itself and to what is said on it touches neither
\* the reports nor their charges.
LEMMA MinuteIdle ==
    ASSUME MinuteInv, UNCHANGED <<report, stamp, claimed, charged, torn>>
    PROVE  MinuteInv'
BY DEF MinuteInv, Avatars!Reports

\* A report becomes due, or too old: it is neither claimed nor answered by that.
LEMMA MinuteReported ==
    ASSUME MinuteInv, NEW r \in Avatars!Reports, NEW new \in {"due", "old"},
           report' = [report EXCEPT ![r] = new], UNCHANGED <<stamp, claimed, charged, torn>>
    PROVE  MinuteInv'
BY DEF MinuteInv, Avatars!Reports

\* A new report is claimed, and then charged, or marked as torn.
LEMMA MinuteMeterNew ==
    ASSUME MinuteInv, NEW r \in Avatars!Reports, Avatars!MeterNew(r)
    PROVE  MinuteInv'
<1>1. stamp[r] \notin claimed /\ claimed' = claimed \union {stamp[r]}
  BY DEF Avatars!MeterNew, Avatars!Claim
<1>2. /\ stamp \in [Avatars!Reports -> Seconds] /\ charged \in [Avatars!Reports -> {0, 1}]
      /\ report \in [Avatars!Reports -> {"none", "due", "old", "acked"}] /\ charged[r] = 0
      /\ \A q \in Avatars!Reports : stamp[q] = stamp[r] => charged[q] = 0
  BY <1>1 DEF MinuteInv
<1>3. CASE Avatars!Charge(r) /\ Avatars!Answer(r) /\ Avatars!Calm
  <2>1. /\ charged' \in [Avatars!Reports -> {0, 1}] /\ charged'[r] = 1
        /\ \A q \in Avatars!Reports \ {r} : charged'[q] = charged[q]
    BY <1>2, <1>3 DEF Avatars!Charge
  <2>2. /\ report' \in [Avatars!Reports -> {"none", "due", "old", "acked"}]
        /\ \A q \in Avatars!Reports \ {r} : report'[q] = report[q]
        /\ UNCHANGED <<torn, stamp>>
    BY <1>2, <1>3 DEF Avatars!Answer, Avatars!Calm
  <2>3. \A s \in claimed' \ torn' : \E q \in Avatars!Reports : stamp'[q] = s /\ charged'[q] = 1
    <3>1. ASSUME NEW s \in claimed' \ torn'
          PROVE \E q \in Avatars!Reports : stamp'[q] = s /\ charged'[q] = 1
      <4>1. CASE s = stamp[r]
        BY <2>1, <2>2, <4>1
      <4>2. CASE s # stamp[r]
        <5>1. PICK q \in Avatars!Reports : stamp[q] = s /\ charged[q] = 1
          BY <1>1, <2>2, <4>2 DEF MinuteInv
        <5>2. QED
          BY <2>1, <2>2, <4>2, <5>1
      <4>3. QED
        BY <4>1, <4>2
    <3>2. QED
      BY <3>1
  <2>4. /\ \A q \in Avatars!Reports : charged'[q] = 1 \/ report'[q] = "acked" => stamp[q] \in claimed'
        /\ \A p, q \in Avatars!Reports :
              charged'[p] = 1 /\ charged'[q] = 1 /\ stamp[p] = stamp[q] => p = q
    BY <1>1, <1>2, <2>1, <2>2 DEF MinuteInv
  <2>5. QED
    BY <1>2, <2>1, <2>2, <2>3, <2>4 DEF MinuteInv
<1>4. CASE torn' = torn \union {stamp[r]} /\ UNCHANGED <<purse, charged, report>> /\ Avatars!Break
  BY <1>1, <1>2, <1>4 DEF MinuteInv, Avatars!Break
<1>5. QED
  BY <1>3, <1>4 DEF Avatars!MeterNew

\* A report that is claimed already is only answered: its charge was made.
LEMMA MinuteMeterAgain ==
    ASSUME MinuteInv, NEW r \in Avatars!Reports, Avatars!MeterAgain(r)
    PROVE  MinuteInv'
BY DEF MinuteInv, Avatars!MeterAgain, Avatars!Answer, Avatars!Money, Avatars!Calm, Avatars!Reports

\* No step of the module disturbs the invariant.
LEMMA MinuteStep == MinuteInv /\ [Avatars!Next]_Avatars!avatarVars => MinuteInv'
<1>1. SUFFICES ASSUME MinuteInv, [Avatars!Next]_Avatars!avatarVars PROVE MinuteInv'
  OBVIOUS
<1>2. CASE UNCHANGED Avatars!avatarVars
  BY <1>1, <1>2, MinuteIdle DEF Avatars!avatarVars
<1>3. ASSUME NEW t \in Talks,
             \/ Avatars!Session(t) \/ Avatars!Connect(t) \/ Avatars!Leaves(t) \/ Avatars!HangUp(t)
             \/ Avatars!Ask(t) \/ Avatars!Sentence(t) \/ Avatars!SayEnds(t) \/ Avatars!Listen(t)
      PROVE MinuteInv'
  <2>1. UNCHANGED <<report, stamp, claimed, charged, torn>>
    BY <1>3 DEF Avatars!Session, Avatars!Connect, Avatars!Leaves, Avatars!HangUp, Avatars!Ask,
                Avatars!Sentence, Avatars!SayEnds, Avatars!Listen, Avatars!Money, Avatars!Calm
  <2>2. QED
    BY <1>1, <2>1, MinuteIdle
<1>4. ASSUME NEW t \in Talks, NEW m \in Minutes, Avatars!MinutePasses(t, m) PROVE MinuteInv'
  <2>1. <<t, m>> \in Avatars!Reports
    BY DEF Avatars!Reports
  <2>2. /\ report' = [report EXCEPT ![<<t, m>>] = "due"]
        /\ UNCHANGED <<stamp, claimed, charged, torn>>
    BY <1>4 DEF Avatars!MinutePasses, Avatars!Money, Avatars!Calm
  <2>3. QED
    BY <1>1, <2>1, <2>2, MinuteReported
<1>5. ASSUME NEW r \in Avatars!Reports, Avatars!GrowsOld(r) PROVE MinuteInv'
  <2>1. /\ report' = [report EXCEPT ![r] = "old"]
        /\ UNCHANGED <<stamp, claimed, charged, torn>>
    BY <1>5 DEF Avatars!GrowsOld, Avatars!Money, Avatars!Calm
  <2>2. QED
    BY <1>1, <2>1, MinuteReported
<1>6. CASE Avatars!TopUp \/ Avatars!Crash
  <2>1. UNCHANGED <<report, stamp, claimed, charged, torn>>
    BY <1>6 DEF Avatars!TopUp, Avatars!Crash, Avatars!Break, Avatars!Money, Avatars!Calm
  <2>2. QED
    BY <1>1, <2>1, MinuteIdle
<1>7. QED
  BY <1>1, <1>2, <1>3, <1>4, <1>5, <1>6, MinuteMeterNew, MinuteMeterAgain DEF Avatars!Next

\* However many times the node sends its reports, each is charged at most once, and
\* of those with one key one alone; one that it may forget has a key that was charged,
\* unless the database failed between the claim and the charge (_claim_report).
THEOREM MinuteOnce == Avatars!Spec => []Avatars!MinutesChargedOnce
<1>1. MinuteInv => Avatars!MinutesChargedOnce
  BY DEF MinuteInv, Avatars!MinutesChargedOnce
<1>2. QED
  BY <1>1, MinuteBegins, MinuteStep, PTL DEF Avatars!Spec

-----------------------------------------------------------------------------
(* AgentChat.                                                               *)

CONSTANTS Tabs, Chats, MaxTurns
VARIABLES chats, tab, turn, kept, stops, copy, turns, unread
Chat == INSTANCE AgentChat WITH listed <- chats, queue <- stops, lost <- unread

TurnSteps == {"none", "starts", "runs", "binds", "broken", "ended", "failed"}

\* Nothing is said before the agent runs, a turn that was not taken has not
\* begun, and what one said that is over is kept, or was lost with its file.
TurnSound(t) ==
    /\ turn[t].step \in {"none", "starts"} => ~turn[t].said
    /\ t > turns => turn[t].step = "none"
    /\ turn[t].step \in {"ended", "failed"} /\ turn[t].said => t \in kept \union unread

TabKinds  == [chat : Chats \union {"none"}, on : BOOLEAN, serves : Nat]
TurnKinds == [step : TurnSteps, said : BOOLEAN, chat : Chats \union {"none"}]

Tabbed == turns \in Nat /\ tab \in [Tabs -> TabKinds]

TurnsHeld ==
    /\ turn \in [Chat!Turns -> TurnKinds]
    /\ \A t \in Chat!Turns : TurnSound(t)

KeepInv == Tabbed /\ TurnsHeld

\* At the start no turn was taken.
LEMMA KeepBegins == Chat!Init => KeepInv
<1>1. SUFFICES ASSUME Chat!Init PROVE KeepInv
  OBVIOUS
<1>2. Chat!NoTab \in TabKinds
  BY DEF TabKinds, Chat!NoTab
<1>3. Tabbed
  BY <1>1, <1>2 DEF Chat!Init, Tabbed
<1>4. QED
  BY <1>1, <1>3 DEF Chat!Init, KeepInv, TurnsHeld, TurnKinds, TurnSound, TurnSteps, Chat!Turns

\* The tabs hold a conversation and a turn.
LEMMA TabsStay ==
    ASSUME Tabbed, [Chat!Next]_Chat!chatVars
    PROVE  Tabbed'
<1>1. CASE UNCHANGED <<tab, turns>>
  BY <1>1 DEF Tabbed
<1>2. ASSUME NEW b \in Tabs, NEW c \in Chats, Chat!Connect(b, c) PROVE Tabbed'
  BY <1>2 DEF Tabbed, TabKinds, Chat!Connect
<1>3. ASSUME NEW b \in Tabs, Chat!Close(b) PROVE Tabbed'
  BY <1>3 DEF Tabbed, TabKinds, Chat!Close
<1>4. ASSUME NEW b \in Tabs, Chat!Send(b) PROVE Tabbed'
  BY <1>4 DEF Tabbed, TabKinds, Chat!Send
<1>5. ASSUME NEW b \in Tabs, Chat!Started(b) \/ Chat!Ends(b) PROVE Tabbed'
  BY <1>5 DEF Tabbed, TabKinds, Chat!Started, Chat!Ends
<1>6. QED
  BY <1>1, <1>2, <1>3, <1>4, <1>5
     DEF Chat!Next, Chat!chatVars, Chat!Create, Chat!DeleteReads, Chat!DeleteWrites, Chat!DeleteUnlinks,
         Chat!Binds, Chat!BindsWrites, Chat!Says, Chat!Breaks, Chat!Stop, Chat!ReadStop

\* A turn that runs, begins to, or is served, goes to another step: if it is over
\* then, what was said is kept.
LEMMA KeepGoes ==
    ASSUME turns \in Nat, TurnsHeld, NEW t, NEW step \in TurnSteps, step # "none", step # "starts",
           turn' = [turn EXCEPT ![t].step = step], turns' = turns,
           t \in Chat!Turns => turn[t].step # "none",
           kept \union unread \subseteq kept' \union unread',
           step \in {"ended", "failed"} /\ t \in Chat!Turns /\ turn[t].said => t \in kept' \union unread'
    PROVE  TurnsHeld'
<1>1. turn' \in [Chat!Turns -> TurnKinds]
  BY DEF TurnsHeld, TurnKinds
<1>2. ASSUME NEW u \in Chat!Turns PROVE TurnSound(u)'
  <2>1. CASE u = t
    <3>1. turn'[u].step = step /\ turn'[u].said = turn[u].said
      BY <2>1 DEF TurnsHeld, TurnKinds
    <3>2. ~(u > turns)
      BY <2>1 DEF TurnsHeld, TurnKinds, TurnSound
    <3>3. QED
      BY <2>1, <3>1, <3>2 DEF TurnSound
  <2>2. CASE u # t
    <3>1. turn'[u] = turn[u] /\ TurnSound(u)
      BY <2>2 DEF TurnsHeld, TurnKinds
    <3>2. QED
      BY <3>1 DEF TurnSound
  <2>3. QED
    BY <2>1, <2>2
<1>3. QED
  BY <1>1, <1>2 DEF TurnsHeld, Chat!Turns

\* What has to do with the list, the tabs and the stops leaves the turns alone,
\* and what a file loses is counted as lost.
LEMMA KeepIdle ==
    ASSUME TurnsHeld, UNCHANGED <<turn, turns>>, kept \union unread \subseteq kept' \union unread'
    PROVE  TurnsHeld'
BY DEF TurnsHeld, TurnKinds, TurnSound, Chat!Turns

\* A message takes the next turn.
LEMMA KeepSend ==
    ASSUME Tabbed, TurnsHeld, NEW b \in Tabs, Chat!Send(b)
    PROVE  TurnsHeld'
<1> DEFINE new == [step |-> "starts", said |-> FALSE, chat |-> tab[b].chat]
<1>1. /\ turns' = turns + 1 /\ turns \in Nat /\ turns < MaxTurns
      /\ turn' = [turn EXCEPT ![turns + 1] = new]
      /\ kept \union unread \subseteq kept' \union unread'
  BY DEF Chat!Send, Tabbed, Chat!AppendQuestion, Chat!Loses
<1>. new \in TurnKinds /\ new.step = "starts" /\ ~new.said
  BY DEF Tabbed, TabKinds, TurnKinds, TurnSteps
<1> HIDE DEF new
<1>2. turn' \in [Chat!Turns -> TurnKinds]
  BY <1>1 DEF TurnsHeld, TurnKinds, TurnSteps
<1>3. ASSUME NEW u \in Chat!Turns PROVE TurnSound(u)'
  <2>1. u \in Int /\ TurnSound(u)
    BY DEF TurnsHeld, Chat!Turns
  <2>2. CASE u = turns + 1
    <3>2. turn'[u].step = "starts" /\ ~turn'[u].said
      BY <1>1, <2>2 DEF TurnsHeld, TurnKinds
    <3>3. ~(u > turns')
      BY <1>1, <2>2
    <3>4. QED
      BY <2>1, <3>2, <3>3 DEF TurnSound
  <2>3. CASE u # turns + 1
    <3>1. turn'[u] = turn[u]
      BY <1>1, <2>3 DEF TurnsHeld, TurnKinds
    <3>2. u > turns' => u > turns
      BY <1>1, <2>1
    <3>3. QED
      BY <1>1, <2>1, <3>1, <3>2 DEF TurnSound
  <2>4. QED
    BY <2>2, <2>3
<1>4. QED
  BY <1>1, <1>2, <1>3 DEF TurnsHeld, Chat!Turns

\* A piece of the answer is said by a turn that runs.
LEMMA KeepSays ==
    ASSUME turns \in Nat, TurnsHeld, NEW b \in Tabs, Chat!Says(b)
    PROVE  TurnsHeld'
<1> DEFINE t == tab[b].serves
<1>1. /\ turn[t].step = "runs" /\ turn' = [turn EXCEPT ![t].said = TRUE]
      /\ UNCHANGED <<kept, unread, turns>>
  BY DEF Chat!Says
<1> HIDE DEF t
<1>2. turn' \in [Chat!Turns -> TurnKinds]
  BY <1>1 DEF TurnsHeld, TurnKinds
<1>3. ASSUME NEW u \in Chat!Turns PROVE TurnSound(u)'
  <2>1. TurnSound(u)
    BY DEF TurnsHeld, TurnKinds
  <2>2. CASE u = t
    <3>1. turn'[u].step = "runs"
      BY <1>1, <2>2 DEF TurnsHeld, TurnKinds
    <3>2. QED
      BY <1>1, <2>1, <2>2, <3>1 DEF TurnSound
  <2>3. CASE u # t
    <3>1. turn'[u] = turn[u]
      BY <1>1, <2>3 DEF TurnsHeld, TurnKinds
    <3>2. QED
      BY <1>1, <2>1, <3>1 DEF TurnSound
  <2>4. QED
    BY <2>2, <2>3
<1>4. QED
  BY <1>1, <1>2, <1>3 DEF TurnsHeld, Chat!Turns

\* A turn that is started, that binds its session, breaks or ends.
LEMMA KeepRuns ==
    ASSUME turns \in Nat, TurnsHeld, NEW b \in Tabs,
           \/ Chat!Started(b) \/ Chat!Binds(b) \/ Chat!BindsWrites(b)
           \/ Chat!Breaks(b) \/ Chat!Ends(b)
    PROVE  TurnsHeld'
<1> DEFINE t == tab[b].serves
<1>1. CASE Chat!Started(b)
  <2>1. turn[t].step = "starts" /\ UNCHANGED <<kept, unread, turns>>
    BY <1>1 DEF Chat!Started
  <2>2. t \in Chat!Turns => ~turn[t].said
    BY <2>1 DEF TurnsHeld, TurnKinds, TurnSound
  <2>3. \/ turn' = [turn EXCEPT ![t].step = "runs"]
        \/ turn' = [turn EXCEPT ![t].step = "failed"]
    BY <1>1 DEF Chat!Started, Chat!To
  <2> HIDE DEF t
  <2>4. "runs" \in TurnSteps /\ "failed" \in TurnSteps
    BY DEF TurnSteps
  <2>5. QED
    BY <2>1, <2>2, <2>3, <2>4, KeepGoes
<1>2. CASE Chat!Binds(b) \/ Chat!BindsWrites(b) \/ Chat!Breaks(b)
  <2>1. turn[t].step \in {"runs", "binds"} /\ UNCHANGED <<kept, unread, turns>>
    BY <1>2 DEF Chat!Binds, Chat!BindsWrites, Chat!Breaks
  <2>2. \E step \in {"runs", "binds", "broken"} : turn' = [turn EXCEPT ![t].step = step]
    BY <1>2 DEF Chat!Binds, Chat!BindsWrites, Chat!Breaks, Chat!To
  <2> HIDE DEF t
  <2>3. {"runs", "binds", "broken"} \subseteq TurnSteps
    BY DEF TurnSteps
  <2>4. QED
    BY <2>1, <2>2, <2>3, KeepGoes
<1>3. CASE Chat!Ends(b)
  <2>1. /\ turn[t].step \in {"runs", "broken"} /\ turns' = turns
        /\ turn' = [turn EXCEPT ![t].step =
                        IF turn[t].step = "runs" /\ t \notin unread' THEN "ended" ELSE "failed"]
    BY <1>3 DEF Chat!Ends, Chat!To
  <2>2. /\ kept \union unread \subseteq kept' \union unread'
        /\ turn[t].said => t \in kept' \union unread'
    BY <1>3 DEF Chat!Ends, Chat!Append
  <2> HIDE DEF t
  <2>3. PICK step \in {"ended", "failed"} : turn' = [turn EXCEPT ![t].step = step]
    BY <2>1
  <2>4. step \in TurnSteps /\ step # "none" /\ step # "starts"
    BY DEF TurnSteps
  <2>5. turn[t].step # "none"
    BY <2>1
  <2>6. QED
    BY <2>1, <2>2, <2>3, <2>4, <2>5, KeepGoes
<1>4. QED
  BY <1>1, <1>2, <1>3

\* No step of the module disturbs the invariant.
LEMMA KeepStep == KeepInv /\ [Chat!Next]_Chat!chatVars => KeepInv'
<1>1. SUFFICES ASSUME KeepInv, [Chat!Next]_Chat!chatVars PROVE KeepInv'
  OBVIOUS
<1> USE DEF KeepInv
<1>t. Tabbed' /\ turns \in Nat
  BY <1>1, TabsStay DEF Tabbed
<1>2. CASE UNCHANGED Chat!chatVars
  BY <1>1, <1>t, <1>2, KeepIdle DEF Chat!chatVars
<1>3. CASE \/ \E c \in Chats : Chat!Create(c) \/ Chat!DeleteReads(c)
           \/ Chat!DeleteWrites \/ Chat!DeleteUnlinks
           \/ \E b \in Tabs : \/ \E c \in Chats : Chat!Connect(b, c)
                              \/ Chat!Close(b) \/ Chat!Stop(b) \/ Chat!ReadStop(b)
  <2>1. UNCHANGED <<turn, turns>> /\ kept \union unread \subseteq kept' \union unread'
    BY <1>3 DEF Chat!Create, Chat!DeleteReads, Chat!DeleteWrites, Chat!DeleteUnlinks, Chat!Loses,
                Chat!Connect, Chat!Close, Chat!Stop, Chat!ReadStop
  <2>2. QED
    BY <1>1, <1>t, <2>1, KeepIdle
<1>4. QED
  BY <1>1, <1>t, <1>2, <1>3, KeepSend, KeepSays, KeepRuns DEF Chat!Next

\* Whatever an agent has answered is in the messages of its conversation when its
\* turn is over, whether the tab was there or not and however the turn ended
\* (run_turn of ws_chat) - unless the file of the messages could not be read or
\* written, was full, or was deleted (sessions.py: load, append, delete).
THEOREM EveryAnswerIsKept == Chat!Spec => []Chat!AnswersAreKept
<1>1. KeepInv => Chat!AnswersAreKept
  BY DEF KeepInv, TurnsHeld, TurnSound, Chat!AnswersAreKept
<1>2. QED
  BY <1>1, KeepBegins, KeepStep, PTL DEF Chat!Spec

-----------------------------------------------------------------------------
(* Rooms.                                                                   *)

CONSTANTS RoomIds, Writers, MaxMishaps
VARIABLES main, bak, tmp, used, mem, failed, up, writer, mishaps, settled, doubt
Archive == INSTANCE Rooms WITH trouble <- mishaps, MaxTrouble <- MaxMishaps

Writings == [step : {"idle"} \union Archive!Steps, file : {"tmp", "main"},
             rooms : SUBSET Archive!Known]

Past(w) == writer[w].step \in {"write", "replace"}

ArchiveTypes ==
    /\ main \in Archive!Files /\ bak \in Archive!Files /\ tmp \in Archive!Files
    /\ used \in BOOLEAN /\ failed \in BOOLEAN /\ up \in BOOLEAN /\ doubt \in BOOLEAN
    /\ mem \subseteq Archive!Known
    /\ writer \in [Writers -> Writings]

\* A store that could not read saves nothing, and nor does one that does not run.
HealthySave == \A w \in Writers : writer[w].step # "idle" => up /\ ~failed

\* What the two archives share, they and the memory have.
SharedKept ==
    /\ main.kind = "whole" => settled \subseteq main.rooms
    /\ bak.kind = "whole" => settled \subseteq bak.rooms
    /\ settled # {} => used
    /\ up /\ ~failed => settled \subseteq mem

\* One save at a time is behind its backup; what it writes has all of them.
OneSaves ==
    /\ \A w \in Writers : writer[w].file = "tmp"
    /\ \A w \in Writers : Past(w) => used /\ settled \subseteq writer[w].rooms
    /\ \A w \in Writers : writer[w].step = "replace" => tmp = Archive!Whole(writer[w].rooms)
    /\ \A v, w \in Writers : Past(v) /\ Past(w) => v = w

ArchiveInv == ArchiveTypes /\ HealthySave /\ (~doubt => SharedKept /\ OneSaves)

\* The kinds of file tell themselves apart.
LEMMA FileKinds ==
    /\ Archive!None \in Archive!Files /\ Archive!Half \in Archive!Files
    /\ \A rooms \in SUBSET Archive!Known : Archive!Whole(rooms) \in Archive!Files
    /\ Archive!None.kind = "none" /\ Archive!Half.kind = "half"
    /\ Archive!None.rooms = {} /\ Archive!Half.rooms = {}
    /\ \A rooms : Archive!Whole(rooms).kind = "whole" /\ Archive!Whole(rooms).rooms = rooms
    /\ \A file \in Archive!Files : file.rooms \subseteq Archive!Known
<1>1. Archive!None.kind = "none" /\ Archive!Half.kind = "half"
  BY DEF Archive!None, Archive!Half
<1>2. Archive!None.rooms = {} /\ Archive!Half.rooms = {}
  BY DEF Archive!None, Archive!Half
<1>3. \A rooms : Archive!Whole(rooms).kind = "whole" /\ Archive!Whole(rooms).rooms = rooms
  BY DEF Archive!Whole
<1>4. /\ Archive!None \in Archive!Files /\ Archive!Half \in Archive!Files
      /\ \A rooms \in SUBSET Archive!Known : Archive!Whole(rooms) \in Archive!Files
  BY DEF Archive!Files
<1>5. ASSUME NEW file \in Archive!Files PROVE file.rooms \subseteq Archive!Known
  BY <1>2, <1>3 DEF Archive!Files
<1>6. QED
  BY <1>1, <1>2, <1>3, <1>4, <1>5

\* Of the two files a start reads the first that is whole.
LEMMA FirstWhole ==
    ASSUME NEW a \in Archive!Files, NEW b \in Archive!Files
    PROVE  /\ a.kind = "whole" => Archive!Read(<<a, b>>) = a
           /\ a.kind # "whole" /\ b.kind = "whole" => Archive!Read(<<a, b>>) = b
           /\ a.kind # "whole" /\ b.kind # "whole" =>
                 Archive!Read(<<a, b>>) \in {Archive!Half, Archive!None}
<1> DEFINE f == <<a, b>>
<1>1. DOMAIN f = 1..2 /\ f[1] = a /\ f[2] = b
  OBVIOUS
<1> HIDE DEF f
<1>2. \A i : i \in DOMAIN f <=> i = 1 \/ i = 2
  BY <1>1
<1> DEFINE first(i) == /\ f[i].kind = "whole" /\ \A j \in 1..i - 1 : f[j].kind # "whole"
<1>3. CASE a.kind = "whole"
  <2>1. first(1) /\ ~first(2) /\ 1 \in DOMAIN f
    BY <1>1, <1>3
  <2>2. (CHOOSE i \in DOMAIN f : first(i)) = 1
    BY <1>2, <2>1
  <2>3. \E i \in DOMAIN f : f[i].kind = "whole"
    BY <1>1, <1>3
  <2>4. Archive!Read(f) = f[CHOOSE i \in DOMAIN f : first(i)]
    BY <2>3 DEF Archive!Read
  <2>5. QED
    BY <1>1, <1>3, <2>2, <2>4 DEF f
<1>4. CASE a.kind # "whole" /\ b.kind = "whole"
  <2>1. ~first(1) /\ first(2) /\ 2 \in DOMAIN f
    BY <1>1, <1>4
  <2>2. (CHOOSE i \in DOMAIN f : first(i)) = 2
    BY <1>2, <2>1
  <2>3. \E i \in DOMAIN f : f[i].kind = "whole"
    BY <1>1, <1>2, <1>4
  <2>4. Archive!Read(f) = f[CHOOSE i \in DOMAIN f : first(i)]
    BY <2>3 DEF Archive!Read
  <2>5. QED
    BY <1>1, <1>4, <2>2, <2>4 DEF f
<1>5. CASE a.kind # "whole" /\ b.kind # "whole"
  <2>1. ~ \E i \in DOMAIN f : f[i].kind = "whole"
    BY <1>1, <1>2, <1>5
  <2>2. Archive!Read(f) \in {Archive!Half, Archive!None}
    BY <2>1 DEF Archive!Read
  <2>3. QED
    BY <1>5, <2>2 DEF f
<1>6. QED
  BY <1>3, <1>4, <1>5

\* Whatever a start sees is a file; what it saves is empty.
LEMMA SavesAre ==
    /\ Archive!Idle \in Writings /\ Archive!Idle.step = "idle"
    /\ Archive!Saving \in Writings /\ Archive!Saving.step = "backup"
    /\ Archive!Idle.file = "tmp" /\ Archive!Saving.file = "tmp"
BY DEF Archive!Idle, Archive!Saving, Writings, Archive!Steps

\* At the start nothing was written.
LEMMA ArchiveBegins == Archive!Init => ArchiveInv
<1>1. SUFFICES ASSUME Archive!Init PROVE ArchiveInv
  OBVIOUS
<1>2. ArchiveTypes
  BY <1>1, FileKinds, SavesAre DEF Archive!Init, ArchiveTypes
<1>3. \A w \in Writers : writer[w].step = "idle" /\ writer[w].file = "tmp"
  BY <1>1, SavesAre DEF Archive!Init
<1>4. SharedKept
  BY <1>1 DEF Archive!Init, SharedKept
<1>5. QED
  BY <1>2, <1>3, <1>4 DEF ArchiveInv, HealthySave, OneSaves, Past

\* A start that may write has all that the last two archives share, unless it saw
\* nothing of a disk that is in use.
LEMMA ArchiveStart ==
    ASSUME ArchiveInv, NEW view \in {"plain", "errors", "missing", "blank"}, Archive!Start(view)
    PROVE  ArchiveInv' /\ Archive!ReadsFirst
<1> DEFINE seen  == CASE view = "plain"  -> Archive!Read(<<main, bak>>)
                      [] view = "errors" ->
                            Archive!Read(<<IF main = Archive!None THEN Archive!None ELSE Archive!Half,
                                           IF bak = Archive!None THEN Archive!None ELSE Archive!Half>>)
                      [] OTHER           -> Archive!None
           empty == view = "blank" \/ ~used
           seeds == seen.rooms = {} /\ ~Archive!Refused(seen, empty)
<1>1. /\ ~up /\ up' = TRUE /\ UNCHANGED <<main, bak, tmp, used, settled>>
      /\ failed' = Archive!Refused(seen, empty)
      /\ doubt' = (doubt \/ (view = "blank" /\ used))
      /\ mem' = IF seeds THEN {Archive!SEED} ELSE seen.rooms
      /\ writer' = IF seeds THEN [writer EXCEPT !["loop"] = Archive!Saving] ELSE writer
  BY DEF Archive!Start, Archive!disk
<1>2. /\ view = "plain" => seen = Archive!Read(<<main, bak>>)
      /\ view = "errors" => seen \in {Archive!Half, Archive!None}
      /\ view \in {"missing", "blank"} => seen = Archive!None
  <2>1. CASE view = "errors"
    <3> DEFINE a == IF main = Archive!None THEN Archive!None ELSE Archive!Half
               b == IF bak = Archive!None THEN Archive!None ELSE Archive!Half
    <3>1. /\ a \in Archive!Files /\ b \in Archive!Files
          /\ a.kind # "whole" /\ b.kind # "whole"
      BY FileKinds
    <3>2. seen = Archive!Read(<<a, b>>)
      BY <2>1
    <3> HIDE DEF a, b, seen
    <3>3. seen \in {Archive!Half, Archive!None}
      BY <3>1, <3>2, FirstWhole
    <3>4. QED
      BY <2>1, <3>3
  <2>2. CASE view # "errors"
    BY <2>2
  <2>3. QED
    BY <2>1, <2>2
<1>3. main \in Archive!Files /\ bak \in Archive!Files
  BY DEF ArchiveInv, ArchiveTypes
<1> HIDE DEF seen
<1>4. seen \in Archive!Files
  BY <1>2, <1>3, FileKinds, FirstWhole
<1>5. \A w \in Writers : writer[w].step = "idle"
  BY <1>1 DEF ArchiveInv, HealthySave
<1>6. \A w \in Writers : writer'[w].step \in {"idle", "backup"}
                         /\ (writer'[w].step = "backup" => ~failed')
  <2>1. CASE seeds
    BY <1>1, <1>5, <2>1, SavesAre DEF ArchiveInv, ArchiveTypes
  <2>2. CASE ~seeds
    BY <1>1, <1>5, <2>2
  <2>3. QED
    BY <2>1, <2>2
<1>7. ArchiveTypes'
  <2>1. writer' \in [Writers -> Writings]
    BY <1>1, SavesAre DEF ArchiveInv, ArchiveTypes
  <2>2. mem' \subseteq Archive!Known
    BY <1>1, <1>4, FileKinds DEF Archive!Known
  <2>3. failed' \in BOOLEAN /\ doubt' \in BOOLEAN /\ up' \in BOOLEAN
    BY <1>1 DEF Archive!Refused, ArchiveInv, ArchiveTypes
  <2>4. QED
    BY <1>1, <2>1, <2>2, <2>3 DEF ArchiveInv, ArchiveTypes, Archive!Files, Archive!Known,
                                  Writings, Archive!Steps
<1>8. ASSUME ~doubt', ~failed' PROVE settled \subseteq mem'
  <2>1. ~doubt /\ SharedKept /\ ~(view = "blank" /\ used)
    BY <1>1, <1>8 DEF ArchiveInv
  <2>2. seen # Archive!Half /\ (seen = Archive!None => empty)
    BY <1>1, <1>8 DEF Archive!Refused
  <2>3. seen = Archive!None => settled = {}
    BY <2>1, <2>2 DEF SharedKept
  <2>4. settled \subseteq seen.rooms
    <3>1. CASE seen = Archive!None
      BY <2>3, <3>1
    <3>2. CASE view = "plain" /\ seen # Archive!None
      BY <1>2, <1>3, <2>1, <2>2, <3>2, FirstWhole DEF SharedKept
    <3>3. QED
      BY <1>2, <2>2, <3>1, <3>2
  <2>5. QED
    BY <1>1, <2>4
<1>9. HealthySave'
  BY <1>1, <1>6 DEF HealthySave
<1>10. ~doubt' => SharedKept' /\ OneSaves'
  <2>1. SUFFICES ASSUME ~doubt' PROVE SharedKept' /\ OneSaves'
    OBVIOUS
  <2>2. ~doubt /\ SharedKept /\ OneSaves
    BY <1>1, <2>1 DEF ArchiveInv
  <2>3. SharedKept'
    BY <1>1, <1>8, <2>1, <2>2 DEF SharedKept
  <2>4. OneSaves'
    <3>1. \A w \in Writers : writer'[w].file = "tmp"
      BY <1>1, <2>2, SavesAre DEF OneSaves, ArchiveInv, ArchiveTypes
    <3>2. QED
      BY <1>6, <3>1 DEF OneSaves, Past
  <2>5. QED
    BY <2>3, <2>4
<1>11. ArchiveInv'
  BY <1>7, <1>9, <1>10 DEF ArchiveInv
<1>12. Archive!ReadsFirst
  BY <1>1, <1>8 DEF Archive!ReadsFirst
<1>13. QED
  BY <1>11, <1>12

\* A handler changes the rooms in memory and has them saved.
LEMMA ArchiveSaves ==
    ASSUME ArchiveInv, NEW w, Archive!Save(w), up, UNCHANGED <<main, bak, tmp, used, failed, up, doubt>>,
           mem' \subseteq Archive!Known, settled' \subseteq settled,
           settled \subseteq mem => settled' \subseteq mem'
    PROVE  ArchiveInv'
<1>1. writer' = [writer EXCEPT ![w] = IF failed THEN Archive!Idle ELSE Archive!Saving]
  BY DEF Archive!Save
<1>2. writer' \in [Writers -> Writings]
  BY <1>1, SavesAre DEF ArchiveInv, ArchiveTypes
<1>3. \A v \in Writers : \/ writer'[v] = writer[v]
                         \/ writer'[v].step = "idle" /\ writer'[v].file = "tmp"
                         \/ writer'[v].step = "backup" /\ writer'[v].file = "tmp" /\ ~failed
  BY <1>1, SavesAre DEF ArchiveInv, ArchiveTypes
<1>4. ArchiveTypes'
  BY <1>2 DEF ArchiveInv, ArchiveTypes, Archive!Files, Archive!Known, Writings, Archive!Steps
<1>5. HealthySave'
  BY <1>3 DEF ArchiveInv, HealthySave
<1>6. ASSUME ~doubt PROVE SharedKept' /\ OneSaves'
  <2>1. SharedKept /\ OneSaves
    BY <1>6 DEF ArchiveInv
  <2>2. SharedKept'
    BY <2>1 DEF SharedKept
  <2>3. \A v \in Writers : Past(v)' => Past(v) /\ writer'[v] = writer[v]
    BY <1>3 DEF Past
  <2>4. OneSaves'
    <3>0. \A v \in Writers : writer'[v].file = "tmp"
      BY <1>3, <2>1 DEF OneSaves
    <3>1. \A v \in Writers : Past(v)' => used' /\ settled' \subseteq writer'[v].rooms
      BY <2>1, <2>3 DEF OneSaves
    <3>2. \A v \in Writers : writer'[v].step = "replace" => tmp' = Archive!Whole(writer'[v].rooms)
      BY <1>3, <2>1 DEF OneSaves
    <3>3. \A u, v \in Writers : Past(u)' /\ Past(v)' => u = v
      BY <2>1, <2>3 DEF OneSaves
    <3>4. QED
      BY <3>0, <3>1, <3>2, <3>3 DEF OneSaves, Past, Archive!Whole
  <2>5. QED
    BY <2>2, <2>4
<1>7. QED
  BY <1>4, <1>5, <1>6 DEF ArchiveInv

\* The handlers that open a room, delete one, or add a message.
LEMMA ArchiveHandlers ==
    ASSUME ArchiveInv,
           \/ Archive!AddMessage
           \/ \E r \in RoomIds : Archive!CreateRoom(r)
           \/ \E w \in Writers, r \in Archive!Known : Archive!DeleteRoom(w, r)
    PROVE  ArchiveInv'
<1>1. mem \subseteq Archive!Known
  BY DEF ArchiveInv, ArchiveTypes
<1>2. CASE Archive!AddMessage
  BY <1>1, <1>2, ArchiveSaves DEF Archive!AddMessage, Archive!disk, Archive!history
<1>3. ASSUME NEW r \in RoomIds, Archive!CreateRoom(r) PROVE ArchiveInv'
  <2>1. /\ Archive!Save("loop") /\ up /\ UNCHANGED <<main, bak, tmp, used, failed, up, doubt, settled>>
        /\ mem' = mem \union {r}
    BY <1>3 DEF Archive!CreateRoom, Archive!disk, Archive!history
  <2>2. mem' \subseteq Archive!Known
    BY <1>1, <2>1 DEF Archive!Known
  <2>3. QED
    BY <2>1, <2>2, ArchiveSaves
<1>4. ASSUME NEW w \in Writers, NEW r \in Archive!Known, Archive!DeleteRoom(w, r) PROVE ArchiveInv'
  <2>1. /\ Archive!Save(w) /\ up /\ UNCHANGED <<main, bak, tmp, used, failed, up, doubt>>
        /\ mem' = mem \ {r} /\ settled' = settled \ {r}
    BY <1>4 DEF Archive!DeleteRoom, Archive!disk
  <2>2. QED
    BY <1>1, <2>1, ArchiveSaves
<1>5. QED
  BY <1>2, <1>3, <1>4

\* The container ends: what was being written stays as it is.
LEMMA ArchiveCrash == ASSUME ArchiveInv, Archive!Crash PROVE ArchiveInv'
<1>1. /\ up' = FALSE /\ mem' = {} /\ failed' = FALSE
      /\ writer' = [w \in Writers |-> Archive!Idle]
      /\ UNCHANGED <<main, bak, tmp, used, settled, doubt>>
  BY DEF Archive!Crash, Archive!disk, Archive!history
<1>2. /\ writer' \in [Writers -> Writings]
      /\ \A w \in Writers : writer'[w].step = "idle" /\ writer'[w].file = "tmp"
  BY <1>1, SavesAre
<1>3. ArchiveTypes'
  BY <1>1, <1>2 DEF ArchiveInv, ArchiveTypes, Archive!Files, Archive!Known, Writings, Archive!Steps
<1>4. ~doubt => SharedKept' /\ OneSaves'
  BY <1>1, <1>2 DEF ArchiveInv, SharedKept, OneSaves, Past
<1>5. HealthySave'
  BY <1>2 DEF HealthySave
<1>6. QED
  BY <1>1, <1>3, <1>4, <1>5 DEF ArchiveInv

\* The archive is damaged on the disk: its backup is as it was.
LEMMA ArchiveDamage == ASSUME ArchiveInv, Archive!Damage PROVE ArchiveInv'
<1>1. /\ main' = Archive!Half
      /\ UNCHANGED <<bak, tmp, used, mem, failed, up, writer, settled, doubt>>
  BY DEF Archive!Damage, Archive!history
<1>2. ArchiveTypes'
  BY <1>1, FileKinds DEF ArchiveInv, ArchiveTypes, Archive!Files, Archive!Known, Writings, Archive!Steps
<1>3. HealthySave'
  BY <1>1 DEF ArchiveInv, HealthySave
<1>4. ~doubt => SharedKept'
  BY <1>1, FileKinds DEF ArchiveInv, SharedKept
<1>5. ~doubt => OneSaves'
  BY <1>1 DEF ArchiveInv, OneSaves, Past, Archive!Whole
<1>6. QED
  BY <1>1, <1>2, <1>3, <1>4, <1>5 DEF ArchiveInv

\* The archive there is becomes the backup, and the save begins with all that the
\* memory has.
LEMMA ArchiveBackup ==
    ASSUME ArchiveInv, NEW w \in Writers, Archive!Backup(w)
    PROVE  ArchiveInv'
<1>1. /\ writer[w].step = "backup" /\ writer[w] \in Writings /\ up /\ ~failed
      /\ writer \in [Writers -> Writings]
  BY DEF Archive!Backup, ArchiveInv, ArchiveTypes, HealthySave
<1> DEFINE n == [writer[w] EXCEPT !.step = "write", !.rooms = mem]
<1>2. n \in Writings /\ n.step = "write" /\ n.rooms = mem /\ n.file = writer[w].file
  BY <1>1 DEF Writings, Archive!Steps, ArchiveInv, ArchiveTypes
<1>3. /\ used' = TRUE /\ bak' = IF main = Archive!None THEN bak ELSE main
      /\ tmp' = Archive!Half /\ writer' = [writer EXCEPT ![w] = n]
      /\ doubt' = (doubt \/ \E v \in Writers \ {w} : writer[v] # Archive!Idle)
      /\ UNCHANGED <<main, mem, failed, up, settled>>
  BY DEF Archive!Backup
<1> HIDE DEF n
<1>4. /\ writer' \in [Writers -> Writings] /\ writer'[w] = n
      /\ \A v \in Writers : v # w => writer'[v] = writer[v]
  BY <1>1, <1>2, <1>3
<1>5. ArchiveTypes'
  <2>1. bak' \in Archive!Files /\ tmp' \in Archive!Files
    BY <1>3, FileKinds DEF ArchiveInv, ArchiveTypes
  <2>2. doubt' \in BOOLEAN
    BY <1>3 DEF ArchiveInv, ArchiveTypes
  <2>3. QED
    BY <1>3, <1>4, <2>1, <2>2 DEF ArchiveInv, ArchiveTypes, Archive!Files, Archive!Known,
                                  Writings, Archive!Steps
<1>6. HealthySave'
  BY <1>1, <1>3, <1>4 DEF ArchiveInv, HealthySave
<1>7. ASSUME ~doubt' PROVE SharedKept' /\ OneSaves'
  <2>1. /\ ~doubt /\ SharedKept /\ OneSaves
        /\ \A v \in Writers : v # w => writer[v].step = "idle"
    BY <1>3, <1>7, SavesAre DEF ArchiveInv
  <2>2. SharedKept'
    BY <1>3, <2>1 DEF SharedKept
  <2>3. settled \subseteq mem
    BY <1>1, <2>1 DEF SharedKept
  <2>4. writer'[w].file = "tmp"
    BY <1>2, <1>4, <2>1 DEF OneSaves
  <2>5. OneSaves'
    BY <1>2, <1>3, <1>4, <2>1, <2>3, <2>4 DEF OneSaves, Past
  <2>6. QED
    BY <2>2, <2>5
<1>8. QED
  BY <1>5, <1>6, <1>7 DEF ArchiveInv

\* All rooms that the save began with are in the file beside the archive.
LEMMA ArchiveWrite ==
    ASSUME ArchiveInv, NEW w \in Writers, Archive!Write(w)
    PROVE  ArchiveInv'
<1>1. /\ writer[w].step = "write" /\ writer[w] \in Writings /\ up /\ ~failed
      /\ writer \in [Writers -> Writings] /\ writer[w].rooms \subseteq Archive!Known
  BY DEF Archive!Write, ArchiveInv, ArchiveTypes, HealthySave, Writings
<1> DEFINE n == [writer[w] EXCEPT !.step = "replace"]
<1>2. /\ n \in Writings /\ n.step = "replace" /\ n.rooms = writer[w].rooms
      /\ n.file = writer[w].file
  BY <1>1 DEF Writings, Archive!Steps
<1>3. /\ writer' = [writer EXCEPT ![w] = n]
      /\ UNCHANGED <<bak, used, mem, failed, up, settled, doubt>>
      /\ IF writer[w].file = "tmp" THEN tmp' = Archive!Whole(writer[w].rooms) /\ UNCHANGED main
         ELSE main' = Archive!Whole(writer[w].rooms) /\ UNCHANGED tmp
  BY DEF Archive!Write, Archive!history
<1> HIDE DEF n
<1>4. /\ writer' \in [Writers -> Writings] /\ writer'[w] = n
      /\ \A v \in Writers : v # w => writer'[v] = writer[v]
  BY <1>1, <1>2, <1>3
<1>5. ArchiveTypes'
  <2>1. main' \in Archive!Files /\ tmp' \in Archive!Files
    BY <1>1, <1>3, FileKinds DEF ArchiveInv, ArchiveTypes
  <2>2. QED
    BY <1>3, <1>4, <2>1 DEF ArchiveInv, ArchiveTypes, Archive!Files, Archive!Known,
                            Writings, Archive!Steps
<1>6. HealthySave'
  BY <1>1, <1>3, <1>4 DEF ArchiveInv, HealthySave
<1>7. ASSUME ~doubt PROVE SharedKept' /\ OneSaves'
  <2>1. SharedKept /\ OneSaves
    BY <1>7 DEF ArchiveInv
  <2>2. writer[w].file = "tmp" /\ tmp' = Archive!Whole(writer[w].rooms) /\ UNCHANGED main
    BY <1>3, <2>1 DEF OneSaves
  <2>3. SharedKept'
    BY <1>3, <2>1, <2>2 DEF SharedKept
  <2>4. \A v \in Writers : Past(v) => v = w
    BY <1>1, <2>1 DEF OneSaves, Past
  <2>5. Past(w)
    BY <1>1 DEF Past
  <2>6. \A v \in Writers : Past(v)' => v = w
    BY <1>4, <2>4 DEF Past
  <2>7. \A v \in Writers : writer'[v].file = "tmp"
    BY <1>2, <1>4, <2>1 DEF OneSaves
  <2>8. used' /\ settled' \subseteq writer'[w].rooms
    BY <1>2, <1>3, <1>4, <2>1, <2>5 DEF OneSaves
  <2>9. tmp' = Archive!Whole(writer'[w].rooms)
    BY <1>2, <1>4, <2>2
  <2>10. \A v \in Writers : writer'[v].step = "replace" => v = w
    BY <2>6 DEF Past
  <2>11. OneSaves'
    BY <2>6, <2>7, <2>8, <2>9, <2>10 DEF OneSaves, Archive!Whole
  <2>12. QED
    BY <2>3, <2>11
<1>8. QED
  BY <1>3, <1>5, <1>6, <1>7 DEF ArchiveInv

\* The file becomes the archive: what the backup and it share is in both.
LEMMA ArchiveReplace ==
    ASSUME ArchiveInv, NEW w \in Writers, Archive!Replace(w)
    PROVE  ArchiveInv'
<1>1. /\ writer[w].step = "replace" /\ writer[w] \in Writings /\ up /\ ~failed
      /\ writer \in [Writers -> Writings]
      /\ UNCHANGED <<bak, used, mem, failed, up, doubt>>
  BY DEF Archive!Replace, ArchiveInv, ArchiveTypes, HealthySave
<1>2. \A v \in Writers : \/ writer'[v] = writer[v]
                         \/ writer'[v] = Archive!Idle
                         \/ /\ writer[v].step = "write" /\ v # w
                            /\ writer'[v] = [writer[v] EXCEPT !.file = "main"]
  <2>1. CASE writer' = [writer EXCEPT ![w] = Archive!Idle]
    BY <1>1, <2>1
  <2>2. CASE writer' = Archive!Moved(w)
    BY <1>1, <2>2 DEF Archive!Moved
  <2>3. QED
    BY <2>1, <2>2 DEF Archive!Replace
<1>3. writer'[w] = Archive!Idle
  BY <1>1 DEF Archive!Replace, Archive!Moved
<1>4. writer' \in [Writers -> Writings]
  <2>1. DOMAIN writer' = Writers /\ writer' = [v \in Writers |-> writer'[v]]
    BY <1>1 DEF Archive!Replace, Archive!Moved
  <2>2. ASSUME NEW v \in Writers PROVE writer'[v] \in Writings
    <3>1. writer[v] \in Writings
      BY <1>1
    <3>2. [writer[v] EXCEPT !.file = "main"] \in Writings
      BY <3>1 DEF Writings
    <3>3. QED
      BY <1>2, <3>1, <3>2, SavesAre
  <2>3. QED
    BY <2>1, <2>2
<1>5. ArchiveTypes'
  <2>1. main' \in Archive!Files /\ tmp' \in Archive!Files
    BY FileKinds DEF Archive!Replace, ArchiveInv, ArchiveTypes
  <2>2. QED
    BY <1>1, <1>4, <2>1 DEF ArchiveInv, ArchiveTypes, Archive!Files, Archive!Known,
                            Writings, Archive!Steps
<1>6. HealthySave'
  BY <1>1 DEF ArchiveInv, HealthySave
<1>7. ASSUME ~doubt PROVE SharedKept' /\ OneSaves'
  <2>1. SharedKept /\ OneSaves
    BY <1>7 DEF ArchiveInv
  <2>2. /\ Past(w) /\ used /\ settled \subseteq writer[w].rooms
        /\ tmp = Archive!Whole(writer[w].rooms)
    BY <1>1, <2>1 DEF OneSaves, Past
  <2>3. tmp.kind = "whole" /\ tmp.rooms = writer[w].rooms /\ tmp # Archive!None
    BY <2>2, FileKinds
  <2>4. /\ main' = tmp
        /\ settled' = IF bak.kind = "whole"
                      THEN bak.rooms \intersect tmp.rooms \intersect mem ELSE settled
    BY <2>3 DEF Archive!Replace
  <2>5. settled \subseteq mem
    BY <1>1, <2>1 DEF SharedKept
  <2>6. SharedKept'
    BY <1>1, <2>1, <2>2, <2>3, <2>4, <2>5 DEF SharedKept
  <2>7. \A v \in Writers : Past(v) => v = w
    BY <2>1, <2>2 DEF OneSaves
  <2>8. \A v \in Writers : ~Past(v)' /\ writer'[v].file = "tmp"
    <3>1. SUFFICES ASSUME NEW v \in Writers PROVE ~Past(v)' /\ writer'[v].file = "tmp"
      OBVIOUS
    <3>2. CASE v = w
      BY <1>3, <3>2, SavesAre DEF Past
    <3>3. CASE v # w
      BY <1>2, <2>1, <2>7, <3>3, SavesAre DEF Past, OneSaves
    <3>4. QED
      BY <3>2, <3>3
  <2>9. OneSaves'
    BY <2>8 DEF OneSaves, Past
  <2>10. QED
    BY <2>6, <2>9
<1>8. QED
  BY <1>1, <1>5, <1>6, <1>7 DEF ArchiveInv

\* No step of the module disturbs the invariant, and a start has read the rooms.
LEMMA ArchiveStep ==
    ASSUME ArchiveInv, [Archive!Next]_Archive!roomsVars
    PROVE  ArchiveInv' /\ [Archive!ReadsFirst]_Archive!roomsVars
<1>1. CASE UNCHANGED Archive!roomsVars
  <2>1. UNCHANGED <<main, bak, tmp, used, mem, failed, up, writer, settled, doubt>>
    BY <1>1 DEF Archive!roomsVars
  <2>2. ArchiveTypes'
    BY <2>1 DEF ArchiveInv, ArchiveTypes, Archive!Files, Archive!Known, Writings, Archive!Steps
  <2>3. HealthySave'
    BY <2>1 DEF ArchiveInv, HealthySave
  <2>4. ~doubt => SharedKept' /\ OneSaves'
    BY <2>1 DEF ArchiveInv, SharedKept, OneSaves, Past, Archive!Whole
  <2>5. QED
    BY <1>1, <2>1, <2>2, <2>3, <2>4 DEF ArchiveInv
<1>2. ASSUME NEW view \in {"plain", "errors", "missing", "blank"}, Archive!Start(view)
      PROVE  ArchiveInv' /\ Archive!ReadsFirst
  BY <1>2, ArchiveStart
<1>3. ASSUME \/ Archive!Crash \/ Archive!Damage \/ Archive!AddMessage
             \/ \E r \in RoomIds : Archive!CreateRoom(r)
             \/ \E w \in Writers : \/ Archive!Backup(w) \/ Archive!Write(w) \/ Archive!Replace(w)
                                   \/ \E r \in Archive!Known : Archive!DeleteRoom(w, r)
      PROVE  ArchiveInv' /\ Archive!ReadsFirst
  <2>1. up \/ UNCHANGED up
    BY <1>3 DEF Archive!Crash, Archive!Damage, Archive!AddMessage, Archive!CreateRoom,
                Archive!DeleteRoom, Archive!Backup, Archive!Write, Archive!Replace
  <2>2. ArchiveInv'
    BY <1>3, ArchiveHandlers, ArchiveCrash, ArchiveDamage, ArchiveBackup, ArchiveWrite, ArchiveReplace
  <2>3. QED
    BY <2>1, <2>2 DEF Archive!ReadsFirst
<1>4. QED
  BY <1>1, <1>2, <1>3 DEF Archive!Next

\* A store that may write has read the rooms that were there, whatever became of
\* its two files: it never takes an archive it cannot read for a first start
\* (Store.__init__ of rooms.py).
THEOREM NeverOverUnread == Archive!Spec => Archive!ReadBeforeWritten
<1>1. ArchiveInv /\ [Archive!Next]_Archive!roomsVars =>
         ArchiveInv' /\ [Archive!ReadsFirst]_Archive!roomsVars
  BY ArchiveStep
<1>2. QED
  BY <1>1, ArchiveBegins, PTL DEF Archive!Spec, Archive!ReadBeforeWritten

-----------------------------------------------------------------------------
(* Comfy.                                                                   *)

CONSTANTS Nodes, MakerKinds, MaxLost
VARIABLES maker, job, task, names, upload, slot, lost
Make == INSTANCE Comfy WITH Kinds <- MakerKinds, node <- maker

\* A node that asks for a picture is told the state of its task as it is.
MakerTasks == {"none", "running", "done", "failed"}
MakerSteps == Make!Steps \union MakerTasks
MakerNodes == [kind : MakerKinds, step : MakerSteps, material : BOOLEAN, renamed : BOOLEAN]

MakerJobs  == [status : {"none", "running", "done", "failed"},
               been : SUBSET {"done", "failed"}, money : {"kept", "owed", "back", "lost"}]

\* What a node reports of a film, or of a picture it asked for itself, the
\* gateway's job has been, and a job has been what it is.
ReportSound(n) ==
    maker[n].kind # "picture" =>
       /\ maker[n].step = "failed" => "failed" \in job[n].been
       /\ maker[n].step = "done" => "done" \in job[n].been

BeenSound(j) == j.status \in {"done", "failed"} => j.status \in j.been

MakeInv ==
    /\ maker \in [Nodes -> MakerNodes]
    /\ job \in [Nodes -> MakerJobs]
    /\ task \in [Nodes -> MakerTasks]
    /\ \A n \in Nodes : ReportSound(n) /\ BeenSound(job[n])

\* At the start no node has begun.
LEMMA MakeBegins == Make!Init => MakeInv
<1>1. SUFFICES ASSUME Make!Init PROVE MakeInv
  OBVIOUS
<1>2. maker \in [Nodes -> MakerNodes] /\ \A n \in Nodes : maker[n].step = "idle"
  BY <1>1 DEF Make!Init, MakerNodes, MakerSteps, Make!Steps
<1>3. Make!NoJob \in MakerJobs /\ BeenSound(Make!NoJob)
  BY DEF Make!NoJob, MakerJobs, BeenSound
<1>4. QED
  BY <1>1, <1>2, <1>3 DEF Make!Init, MakeInv, ReportSound, MakerTasks

\* A step of one node: what it reports then its job has been.
LEMMA MakeTurns ==
    ASSUME MakeInv, NEW n \in Nodes, NEW step \in MakerSteps, task' \in [Nodes -> MakerTasks],
           NEW end \in MakerJobs, BeenSound(end),
           maker' = [maker EXCEPT ![n].step = step], job' = [job EXCEPT ![n] = end],
           maker[n].kind # "picture" =>
              (step = "failed" => "failed" \in end.been) /\ (step = "done" => "done" \in end.been)
    PROVE  MakeInv'
<1>1. maker' \in [Nodes -> MakerNodes] /\ job' \in [Nodes -> MakerJobs]
  BY DEF MakeInv, MakerNodes
<1>2. ASSUME NEW m \in Nodes PROVE ReportSound(m)' /\ BeenSound(job'[m])
  <2>1. CASE m = n
    <3>1. /\ maker'[m].step = step /\ maker'[m].kind = maker[m].kind /\ job'[m] = end
      BY <2>1 DEF MakeInv, MakerNodes
    <3>2. QED
      BY <2>1, <3>1 DEF ReportSound
  <2>2. CASE m # n
    BY <2>2 DEF MakeInv, ReportSound
  <2>3. QED
    BY <2>1, <2>2
<1>3. QED
  BY <1>1, <1>2 DEF MakeInv, MakerNodes, MakerSteps, MakerTasks, Make!Steps

\* What may become of a job.
LEMMA JobTurns ==
    ASSUME MakeInv, NEW n \in Nodes
    PROVE  LET runs  == [job[n] EXCEPT !.status = "running"]
               ends  == [job[n] EXCEPT !.status = "done", !.been = job[n].been \union {"done"}]
               broke(m) == [job[n] EXCEPT !.status = "failed",
                                !.been = job[n].been \union {"failed"}, !.money = m]
           IN  /\ job[n] \in MakerJobs /\ BeenSound(job[n])
               /\ runs \in MakerJobs /\ BeenSound(runs) /\ runs.been = job[n].been
               /\ ends \in MakerJobs /\ BeenSound(ends) /\ "done" \in ends.been
               /\ job[n].been \subseteq ends.been
               /\ \A m \in {"owed", job[n].money} :
                     /\ broke(m) \in MakerJobs /\ BeenSound(broke(m))
                     /\ "failed" \in broke(m).been /\ job[n].been \subseteq broke(m).been
               /\ Make!Running(n) = [job EXCEPT ![n] = runs]
               /\ Make!Made(n) = [job EXCEPT ![n] = ends]
               /\ \E m \in {"owed", job[n].money} : Make!Failed(n) = [job EXCEPT ![n] = broke(m)]
<1>1. job[n] \in MakerJobs /\ BeenSound(job[n])
  BY DEF MakeInv
<1>2. QED
  BY <1>1 DEF MakerJobs, BeenSound, Make!Running, Make!Made, Make!Failed

\* A node that goes on reports nothing, or what it was told of its job.
LEMMA MakeGoes ==
    ASSUME MakeInv, NEW n \in Nodes,
           \/ Make!Start(n) \/ Make!OpenUpload(n) \/ Make!Send(n) \/ Make!Unsold(n)
           \/ Make!TooLate(n) \/ Make!Poll(n) \/ Make!PollPicture(n)
    PROVE  MakeInv'
<1>1. /\ job' = [job EXCEPT ![n] = job[n]] /\ job[n] \in MakerJobs /\ BeenSound(job[n])
      /\ maker \in [Nodes -> MakerNodes] /\ ReportSound(n) /\ task \in [Nodes -> MakerTasks]
      /\ UNCHANGED <<job, task>>
  BY DEF MakeInv, Make!Start, Make!OpenUpload, Make!Send, Make!Unsold, Make!TooLate, Make!Poll,
         Make!PollPicture
<1>2. CASE UNCHANGED maker
  BY <1>1, <1>2 DEF MakeInv, ReportSound, MakerNodes, MakerSteps, MakerTasks, Make!Steps
<1>3. CASE \E step \in {"sends", "creates", "gone", "refused", "late"} : Make!To(n, step)
  BY <1>1, <1>3, MakeTurns DEF Make!To, MakerSteps, Make!Steps
<1>4. CASE Make!Poll(n)
  <2>1. Make!To(n, Make!Told(n)) /\ Make!Told(n) \in MakerSteps
    BY <1>4 DEF Make!Poll, Make!Told, MakerSteps, Make!Steps
  <2>2. /\ Make!Told(n) = "failed" => "failed" \in job[n].been
        /\ Make!Told(n) = "done" => "done" \in job[n].been
    BY <1>1 DEF Make!Told, BeenSound
  <2>3. QED
    BY <1>1, <2>1, <2>2, MakeTurns DEF Make!To
<1>5. CASE Make!PollPicture(n)
  <2>1. maker[n].kind = "picture"
    BY <1>5 DEF Make!PollPicture
  <2>2. PICK step \in MakerSteps : maker' = [maker EXCEPT ![n].step = step]
    BY <1>1, <1>5 DEF Make!PollPicture, Make!To, MakerSteps, MakerTasks, Make!Steps
  <2>3. QED
    BY <1>1, <2>1, <2>2, MakeTurns
<1>6. QED
  BY <1>2, <1>3, <1>4, <1>5 DEF Make!Start, Make!OpenUpload, Make!Send, Make!Unsold, Make!TooLate

\* The job is ends, or its answer is lost.
LEMMA MakeCreates ==
    ASSUME MakeInv, NEW n \in Nodes,
           Make!Create(n) \/ Make!CreatePicture(n) \/ Make!Straight(n)
    PROVE  MakeInv'
<1> DEFINE runs  == [job[n] EXCEPT !.status = "running"]
           ends  == [job[n] EXCEPT !.status = "done", !.been = job[n].been \union {"done"}]
           broke(m) == [job[n] EXCEPT !.status = "failed",
                            !.been = job[n].been \union {"failed"}, !.money = m]
<1>1. PICK owed \in {"owed", job[n].money} :
      /\ job[n] \in MakerJobs /\ BeenSound(job[n]) /\ runs \in MakerJobs /\ BeenSound(runs)
      /\ ends \in MakerJobs /\ BeenSound(ends) /\ "done" \in ends.been
      /\ broke(owed) \in MakerJobs /\ BeenSound(broke(owed)) /\ "failed" \in broke(owed).been
      /\ Make!Running(n) = [job EXCEPT ![n] = runs] /\ Make!Made(n) = [job EXCEPT ![n] = ends]
      /\ Make!Failed(n) = [job EXCEPT ![n] = broke(owed)]
  BY JobTurns, Zenon
<1> HIDE DEF runs, ends, broke
<1>2. job = [job EXCEPT ![n] = job[n]] /\ task' \in [Nodes -> MakerTasks]
  BY DEF MakeInv, Make!Create, Make!CreatePicture, Make!Straight, MakerTasks
<1>3. {"polls", "gone", "done", "failed"} \subseteq MakerSteps
  BY DEF MakerSteps, Make!Steps
<1>4. CASE Make!Create(n)
  <2>1. PICK step \in {"polls", "gone"}, end \in {job[n], runs} :
          maker' = [maker EXCEPT ![n].step = step] /\ job' = [job EXCEPT ![n] = end]
    BY <1>1, <1>2, <1>4 DEF Make!Create, Make!To
  <2>2. end \in MakerJobs /\ BeenSound(end)
    BY <1>1
  <2>3. QED
    BY <1>1, <1>2, <1>3, <2>1, <2>2, MakeTurns
<1>5. CASE Make!CreatePicture(n)
  <2>1. maker' = [maker EXCEPT ![n].step = "polls"] /\ job' = [job EXCEPT ![n] = runs]
    BY <1>1, <1>5 DEF Make!CreatePicture, Make!To
  <2>2. QED
    BY <1>1, <1>2, <1>3, <2>1, MakeTurns
<1>6. CASE Make!Straight(n)
  <2>1. PICK step \in {"done", "failed", "gone"}, end \in {job[n], ends, broke(owed)} :
          /\ maker' = [maker EXCEPT ![n].step = step] /\ job' = [job EXCEPT ![n] = end]
          /\ step = "done" => end = ends
          /\ step = "failed" => end = broke(owed)
    BY <1>1, <1>2, <1>6 DEF Make!Straight, Make!To
  <2>2. end \in MakerJobs /\ BeenSound(end)
    BY <1>1
  <2>3. QED
    BY <1>1, <1>2, <1>3, <2>1, <2>2, MakeTurns
<1>7. QED
  BY <1>4, <1>5, <1>6

\* What a job becomes without the node: it has been no less.
LEMMA MakeEnds ==
    ASSUME MakeInv, NEW n \in Nodes, Make!JobFails(n) \/ Make!JobIsMade(n) \/ Make!PaysBack(n)
    PROVE  MakeInv'
<1>1. PICK end \in MakerJobs :
         /\ BeenSound(end) /\ job[n].been \subseteq end.been /\ job' = [job EXCEPT ![n] = end]
  <2>1. CASE Make!JobFails(n)
    BY <2>1, JobTurns DEF Make!JobFails
  <2>2. CASE Make!JobIsMade(n)
    BY <2>2, JobTurns DEF Make!JobIsMade
  <2>3. CASE Make!PaysBack(n)
    <3>1. PICK m \in {"back", "lost"} : job' = [job EXCEPT ![n] = [job[n] EXCEPT !.money = m]]
      BY <2>3 DEF Make!PaysBack
    <3>2. job[n] \in MakerJobs /\ BeenSound(job[n])
      BY DEF MakeInv
    <3>3. QED
      BY <3>1, <3>2 DEF MakerJobs, BeenSound
  <2>4. QED
    BY <2>1, <2>2, <2>3
<1>2. UNCHANGED <<maker, task>>
  BY DEF Make!JobFails, Make!JobIsMade, Make!PaysBack
<1>3. job' \in [Nodes -> MakerJobs] /\ job'[n] = end /\ \A m \in Nodes \ {n} : job'[m] = job[m]
  BY <1>1 DEF MakeInv
<1>4. \A m \in Nodes : ReportSound(m)' /\ BeenSound(job'[m])
  BY <1>1, <1>2, <1>3 DEF MakeInv, ReportSound
<1>5. QED
  BY <1>2, <1>3, <1>4 DEF MakeInv, MakerNodes, MakerSteps, MakerTasks, Make!Steps

\* What changes neither a node nor a job.
LEMMA MakeIdle ==
    ASSUME MakeInv, UNCHANGED <<maker, job>>, task' \in [Nodes -> MakerTasks]
    PROVE  MakeInv'
BY DEF MakeInv, ReportSound, MakerNodes, MakerSteps, MakerTasks, Make!Steps

\* No step of the module disturbs the invariant.
LEMMA MakeStep == MakeInv /\ [Make!Next]_Make!comfyVars => MakeInv'
<1>1. SUFFICES ASSUME MakeInv, [Make!Next]_Make!comfyVars PROVE MakeInv'
  OBVIOUS
<1>2. CASE UNCHANGED Make!comfyVars
  BY <1>1, <1>2, MakeIdle DEF Make!comfyVars, MakeInv
<1>3. ASSUME NEW n \in Nodes, Make!Sweep(n) \/ Make!Look(n) \/ Make!TaskEnds(n) \/ Make!PollLost(n)
      PROVE  MakeInv'
  <2>1. UNCHANGED <<maker, job>>
    BY <1>3 DEF Make!Sweep, Make!Look, Make!TaskEnds, Make!PollLost
  <2>2. task' \in [Nodes -> MakerTasks]
    BY <1>1, <1>3 DEF MakeInv, MakerTasks, Make!Sweep, Make!Look, Make!TaskEnds, Make!PollLost
  <2>3. QED
    BY <1>1, <2>1, <2>2, MakeIdle
<1>4. QED
  BY <1>1, <1>2, <1>3, MakeGoes, MakeCreates, MakeEnds DEF Make!Next

\* A node reports a failed film only of a job that has failed, and a film only of
\* one that was made, whatever got lost while it asked (_video_status).
THEOREM ReportedAsItIs == Make!Spec => []Make!EndsAsTheJob
<1>1. MakeInv => Make!EndsAsTheJob
  BY DEF MakeInv, ReportSound, Make!EndsAsTheJob
<1>2. QED
  BY <1>1, MakeBegins, MakeStep, PTL DEF Make!Spec

-----------------------------------------------------------------------------
(* Boxes.                                                                   *)

CONSTANTS Seekers, Desktops, Addresses, MaxBoxes
VARIABLES boxRow, box, made, work, reaper
House == INSTANCE Boxes WITH Users <- Seekers, Products <- Desktops, row <- boxRow

\* The addresses are those of the tunnel net, and 0 stands for none.
Net == Addresses \subseteq Nat \ {0} /\ MaxBoxes \in Nat

BoxRows == [box : 0..MaxBoxes, ip : House!Ips]
BoxOnes == [state : {"none", "on", "off", "deleted"}, tunnel : House!Ips, runs : SUBSET Desktops]
BoxWork == [step : {"idle", "posts", "inserts", "tunnels", "wakes", "runs"},
            box : 0..MaxBoxes, ip : House!Ips]

BoxTypes ==
    /\ made \in 0..MaxBoxes
    /\ boxRow \in [Seekers -> BoxRows]
    /\ box \in [1..MaxBoxes -> BoxOnes]
    /\ work \in [House!Keys -> BoxWork]

\* Two rows name neither the same computer nor the same address.
RowsApart ==
    /\ \A u \in Seekers : boxRow[u] # House!NoRow =>
          boxRow[u].box \in 1..made /\ boxRow[u].ip \in Addresses
    /\ \A u, v \in Seekers :
          u # v /\ boxRow[u] # House!NoRow /\ boxRow[v] # House!NoRow =>
             boxRow[u].box # boxRow[v].box /\ boxRow[u].ip # boxRow[v].ip

\* A computer that answers at an address has the row with that address.
TunnelsOwned ==
    \A b \in 1..MaxBoxes :
       /\ box[b].state = "deleted" => box[b].tunnel = 0
       /\ box[b].tunnel # 0 => \E u \in Seekers : boxRow[u] = [box |-> b, ip |-> box[b].tunnel]

\* Who is to insert a computer alone knows of it; who is to build the tunnel
\* of one has the row of its user, or the computer is gone already.
WorkSound(k) ==
    /\ work[k].step \in {"posts", "inserts", "tunnels"} => work[k].ip \in Addresses
    /\ work[k].step \in {"inserts", "tunnels"} => work[k].box \in 1..made
    /\ work[k].step = "inserts" =>
          /\ \A u \in Seekers : boxRow[u].box # work[k].box
          /\ \A l \in House!Keys : l # k /\ work[l].step = "inserts" => work[l].box # work[k].box
    /\ work[k].step = "tunnels" =>
          \/ box[work[k].box].state = "deleted"
          \/ boxRow[k[1]] = [box |-> work[k].box, ip |-> work[k].ip]

BoxInv == BoxTypes /\ RowsApart /\ TunnelsOwned /\ \A k \in House!Keys : WorkSound(k)

\* What a creation may be about without having been given a computer.
BoxLess(w) == w.step \in {"idle", "wakes", "runs"} \/ (w.step = "posts" /\ w.ip \in Addresses)

\* What the idle, and those who wake a computer, are about is well typed.
LEMMA BoxWorkIs ==
    ASSUME Net
    PROVE  /\ House!Idle \in BoxWork /\ BoxLess(House!Idle)
           /\ \A b \in 0..MaxBoxes : House!Wakes(b) \in BoxWork /\ BoxLess(House!Wakes(b))
<1>1. House!Idle \in BoxWork
  BY DEF Net, House!Idle, BoxWork, House!Ips
<1>2. BoxLess(House!Idle)
  BY DEF House!Idle, BoxLess
<1>3. ASSUME NEW b \in 0..MaxBoxes PROVE House!Wakes(b) \in BoxWork
  BY DEF House!Wakes, BoxWork, House!Ips
<1>4. ASSUME NEW b \in 0..MaxBoxes PROVE BoxLess(House!Wakes(b))
  BY DEF House!Wakes, BoxLess
<1>5. QED
  BY <1>1, <1>2, <1>3, <1>4

\* At the start no user has a computer.
LEMMA BoxBegins == Net /\ House!Init => BoxInv
<1>1. SUFFICES ASSUME Net, House!Init PROVE BoxInv
  OBVIOUS
<1>2. House!NoRow \in BoxRows /\ House!NoRow.box = 0
  BY <1>1 DEF Net, House!NoRow, BoxRows, House!Ips
<1>3. House!NoBox \in BoxOnes /\ House!NoBox.tunnel = 0
  BY <1>1 DEF House!NoBox, BoxOnes, House!Ips
<1>4. BoxTypes
  BY <1>1, <1>2, <1>3, BoxWorkIs DEF House!Init, BoxTypes, Net
<1>5. RowsApart /\ TunnelsOwned
  BY <1>1, <1>3 DEF House!Init, RowsApart, TunnelsOwned
<1>6. \A k \in House!Keys : work[k].step = "idle"
  BY <1>1 DEF House!Init, House!Idle
<1>7. QED
  BY <1>4, <1>5, <1>6 DEF BoxInv, WorkSound

\* The computers keep their tunnels, and none is deleted.
KeepTunnels ==
    /\ box' \in [1..MaxBoxes -> BoxOnes]
    /\ \A b \in 1..MaxBoxes : /\ box'[b].tunnel = box[b].tunnel
                              /\ (box'[b].state = "deleted") <=> (box[b].state = "deleted")

\* Rows, addresses of tunnels and the set of the deleted computers stay as they
\* are, and whoever goes on has been given no computer.
LEMMA BoxQuiet ==
    ASSUME Net, BoxInv, KeepTunnels, work' \in [House!Keys -> BoxWork], UNCHANGED <<boxRow, made>>,
           \A k \in House!Keys : work'[k] = work[k] \/ BoxLess(work'[k])
    PROVE  BoxInv'
<1>1. RowsApart'
  BY DEF BoxInv, RowsApart
<1>2. TunnelsOwned'
  <2>1. ASSUME NEW b \in 1..MaxBoxes
        PROVE  /\ box'[b].state = "deleted" => box'[b].tunnel = 0
               /\ box'[b].tunnel # 0 =>
                     \E u \in Seekers : boxRow[u] = [box |-> b, ip |-> box'[b].tunnel]
    <3>1. /\ box'[b].tunnel = box[b].tunnel
          /\ (box'[b].state = "deleted") <=> (box[b].state = "deleted")
      BY ONLY KeepTunnels, b \in 1..MaxBoxes DEF KeepTunnels
    <3>2. /\ box[b].state = "deleted" => box[b].tunnel = 0
          /\ box[b].tunnel # 0 => \E u \in Seekers : boxRow[u] = [box |-> b, ip |-> box[b].tunnel]
      BY DEF BoxInv, TunnelsOwned
    <3>3. QED
      BY ONLY <3>1, <3>2
  <2>2. QED
    BY <2>1 DEF TunnelsOwned
<1>3. ASSUME NEW k \in House!Keys PROVE WorkSound(k)'
  <2>1. WorkSound(k) /\ made \in 0..MaxBoxes /\ MaxBoxes \in Nat
    BY DEF BoxInv, BoxTypes, Net
  <2>2. CASE BoxLess(work'[k])
    BY <2>2 DEF WorkSound, BoxLess
  <2>3. CASE work'[k] = work[k]
    <3>1. /\ work'[k].step \in {"posts", "inserts", "tunnels"} => work'[k].ip \in Addresses
          /\ work'[k].step \in {"inserts", "tunnels"} => work'[k].box \in 1..made'
      BY <2>1, <2>3 DEF WorkSound
    <3>2. work'[k].step = "inserts" =>
             /\ \A u \in Seekers : boxRow'[u].box # work'[k].box
             /\ \A l \in House!Keys : l # k /\ work'[l].step = "inserts" => work'[l].box # work'[k].box
      BY <2>1, <2>3 DEF WorkSound, BoxLess
    <3>3. work'[k].step = "tunnels" =>
             \/ box'[work'[k].box].state = "deleted"
             \/ boxRow'[k[1]] = [box |-> work'[k].box, ip |-> work'[k].ip]
      <4>1. work[k].step = "tunnels" => work[k].box \in 1..MaxBoxes
        BY <2>1 DEF WorkSound
      <4>2. QED
        BY <2>1, <2>3, <4>1 DEF WorkSound, KeepTunnels
    <3>4. QED
      BY <3>1, <3>2, <3>3 DEF WorkSound
  <2>4. QED
    BY <2>2, <2>3
<1>4. BoxTypes'
  <2>1. /\ made' \in 0..MaxBoxes /\ boxRow' \in [Seekers -> BoxRows]
        /\ box' \in [1..MaxBoxes -> BoxOnes]
    BY DEF BoxInv, BoxTypes, KeepTunnels
  <2>2. /\ BoxRows' = BoxRows /\ BoxOnes' = BoxOnes /\ BoxWork' = BoxWork
        /\ House!Keys' = House!Keys
    BY DEF BoxRows, BoxOnes, BoxWork, House!Ips, House!Keys
  <2>3. QED
    BY <2>1, <2>2 DEF BoxTypes
<1>5. QED
  BY <1>1, <1>2, <1>3, <1>4 DEF BoxInv, House!Keys

\* A step of one creation that is given no computer, on computers that keep
\* their tunnels.
LEMMA BoxTurns ==
    ASSUME Net, BoxInv, NEW k \in House!Keys, NEW w \in BoxWork, BoxLess(w),
           work' = [work EXCEPT ![k] = w], UNCHANGED <<boxRow, made>>, KeepTunnels
    PROVE  BoxInv'
<1>1. work' \in [House!Keys -> BoxWork]
  BY DEF BoxInv, BoxTypes
<1>2. \A l \in House!Keys : work'[l] = work[l] \/ BoxLess(work'[l])
  BY DEF BoxInv, BoxTypes
<1>3. QED
  BY <1>1, <1>2, BoxQuiet

\* The computer that there is, or the first free address.
LEMMA BoxEnsure ==
    ASSUME Net, BoxInv, NEW k \in House!Keys, House!Ensure(k)
    PROVE  BoxInv'
<1>1. k[1] \in Seekers /\ boxRow[k[1]].box \in 0..MaxBoxes
  BY DEF BoxInv, BoxTypes, BoxRows, House!Keys
<1>2. UNCHANGED <<boxRow, box, made>> /\ box \in [1..MaxBoxes -> BoxOnes]
  BY DEF House!Ensure, BoxInv, BoxTypes
<1>3. CASE House!Go(k, House!Wakes(boxRow[k[1]].box))
  BY <1>1, <1>2, <1>3, BoxWorkIs, BoxTurns DEF House!Go, KeepTunnels
<1>4. CASE \E ip \in Addresses : House!Go(k, [step |-> "posts", box |-> 0, ip |-> ip])
  <2>1. PICK ip \in Addresses : House!Go(k, [step |-> "posts", box |-> 0, ip |-> ip])
    BY <1>4
  <2> DEFINE w == [step |-> "posts", box |-> 0, ip |-> ip]
  <2>2. w \in BoxWork
    BY DEF BoxWork, House!Ips, Net
  <2>3. BoxLess(w)
    BY DEF BoxLess
  <2>4. work' = [work EXCEPT ![k] = w]
    BY <2>1 DEF House!Go
  <2> HIDE DEF w
  <2>5. QED
    BY <1>2, <2>2, <2>3, <2>4, BoxTurns DEF KeepTunnels
<1>5. QED
  BY <1>3, <1>4 DEF House!Ensure

\* The creation gives up.
LEMMA BoxGivesUp ==
    ASSUME Net, BoxInv, NEW k \in House!Keys, House!GiveUp(k), UNCHANGED <<boxRow, box, made>>
    PROVE  BoxInv'
<1>1. KeepTunnels
  BY DEF BoxInv, BoxTypes, KeepTunnels
<1>2. QED
  BY <1>1, BoxWorkIs, BoxTurns DEF House!GiveUp, House!Go

\* A computer is made: it has a number of its own, which only its maker knows.
LEMMA BoxPost ==
    ASSUME Net, BoxInv, NEW k \in House!Keys, House!Post(k)
    PROVE  BoxInv'
<1>1. CASE House!GiveUp(k) /\ UNCHANGED <<box, made>>
  BY <1>1, BoxGivesUp DEF House!Post
<1>2. CASE /\ made < MaxBoxes /\ made' = made + 1
           /\ box' = [box EXCEPT ![made + 1].state = "on"]
           /\ House!Go(k, [work[k] EXCEPT !.step = "inserts", !.box = made + 1])
  <2>1. /\ made \in Nat /\ made' = made + 1 /\ made + 1 \in 1..MaxBoxes /\ MaxBoxes \in Nat
        /\ made' \in 0..MaxBoxes
    BY <1>2 DEF BoxInv, BoxTypes, Net
  <2>2. work[k].step = "posts" /\ work[k] \in BoxWork /\ work[k].ip \in Addresses
    BY DEF House!Post, BoxInv, BoxTypes, WorkSound
  <2> DEFINE w == [work[k] EXCEPT !.step = "inserts", !.box = made + 1]
  <2>3. w \in BoxWork /\ w.step = "inserts" /\ w.box = made + 1 /\ w.ip = work[k].ip
    BY <2>1, <2>2 DEF BoxWork
  <2>4. work' = [work EXCEPT ![k] = w] /\ UNCHANGED boxRow
    BY <1>2 DEF House!Go, House!Post
  <2> HIDE DEF w
  <2>5. /\ work'[k] = w /\ \A l \in House!Keys : l # k => work'[l] = work[l]
        /\ work' \in [House!Keys -> BoxWork]
    BY <2>3, <2>4 DEF BoxInv, BoxTypes
  <2>6. /\ box' \in [1..MaxBoxes -> BoxOnes]
        /\ \A b \in 1..MaxBoxes : /\ box'[b].tunnel = box[b].tunnel
                                  /\ b # made + 1 => box'[b] = box[b]
                                  /\ b = made + 1 => box'[b].state = "on"
    BY <1>2, <2>1 DEF BoxInv, BoxTypes, BoxOnes
  <2>7. BoxTypes'
    BY <2>1, <2>4, <2>5, <2>6 DEF BoxInv, BoxTypes, BoxRows, BoxOnes, BoxWork, House!Ips, House!Keys
  <2>8. 1..made \subseteq 1..made'
    BY <2>1
  <2>9. RowsApart'
    BY <2>4, <2>8 DEF BoxInv, RowsApart
  <2>10. TunnelsOwned'
    BY <2>4, <2>6 DEF BoxInv, TunnelsOwned
  <2>11. \A u \in Seekers : boxRow[u].box # made + 1
    <3>1. SUFFICES ASSUME NEW u \in Seekers PROVE boxRow[u].box # made + 1
      OBVIOUS
    <3>2. CASE boxRow[u] = House!NoRow
      BY <2>1, <3>2 DEF House!NoRow
    <3>3. CASE boxRow[u] # House!NoRow
      <4>1. boxRow[u].box \in 1..made
        BY <3>3 DEF BoxInv, RowsApart
      <4>2. QED
        BY <2>1, <4>1
    <3>4. QED
      BY <3>2, <3>3
  <2>12. \A l \in House!Keys : work[l].step \in {"inserts", "tunnels"} =>
            work[l].box \in 1..made /\ work[l].box # made + 1
    <3>1. \A l \in House!Keys : work[l].step \in {"inserts", "tunnels"} => work[l].box \in 1..made
      BY DEF BoxInv, WorkSound
    <3>2. made + 1 \notin 1..made
      BY <2>1
    <3>3. QED
      BY <3>1, <3>2
  <2>13. ASSUME NEW l \in House!Keys PROVE WorkSound(l)'
    <3>1. CASE l = k
      <4>1. made + 1 \in 1..made'
        BY <2>1
      <4>2. \A j \in House!Keys : j # k /\ work'[j].step = "inserts" => work'[j].box # made + 1
        BY <2>5, <2>12
      <4>3. QED
        BY <2>2, <2>3, <2>4, <2>5, <2>11, <3>1, <4>1, <4>2 DEF WorkSound
    <3>2. CASE l # k
      <4>1. WorkSound(l) /\ work'[l] = work[l]
        BY <2>5, <3>2 DEF BoxInv
      <4>2. /\ work'[l].step \in {"posts", "inserts", "tunnels"} => work'[l].ip \in Addresses
            /\ work'[l].step \in {"inserts", "tunnels"} => work'[l].box \in 1..made'
        BY <2>8, <4>1 DEF WorkSound
      <4>3. work'[l].step = "inserts" =>
              /\ \A u \in Seekers : boxRow'[u].box # work'[l].box
              /\ \A j \in House!Keys : j # l /\ work'[j].step = "inserts" => work'[j].box # work'[l].box
        BY <2>3, <2>4, <2>5, <2>12, <4>1 DEF WorkSound
      <4>4. work'[l].step = "tunnels" =>
              \/ box'[work'[l].box].state = "deleted"
              \/ boxRow'[l[1]] = [box |-> work'[l].box, ip |-> work'[l].ip]
        <5>1. work[l].step = "tunnels" => /\ work[l].box # made + 1
                                          /\ work[l].box \in 1..MaxBoxes
          BY <2>1, <2>12
        <5>2. QED
          BY <2>4, <2>6, <4>1, <5>1 DEF WorkSound
      <4>5. QED
        BY <4>2, <4>3, <4>4 DEF WorkSound
    <3>3. QED
      BY <3>1, <3>2
  <2>14. QED
    BY <2>7, <2>9, <2>10, <2>13 DEF BoxInv, House!Keys
<1>3. QED
  BY <1>1, <1>2 DEF House!Post

\* The row is written where the user has none and no row has its address.
LEMMA BoxInsert ==
    ASSUME Net, BoxInv, NEW k \in House!Keys, House!Insert(k)
    PROVE  BoxInv'
<1>1. CASE House!GiveUp(k) /\ UNCHANGED boxRow
  BY <1>1, BoxGivesUp DEF House!Insert
<1>2. CASE /\ boxRow[k[1]] = House!NoRow /\ work[k].ip \notin House!Taken
           /\ boxRow' = [boxRow EXCEPT ![k[1]] = [box |-> work[k].box, ip |-> work[k].ip]]
           /\ House!Go(k, [work[k] EXCEPT !.step = "tunnels"])
  <2>1. /\ work[k].step = "inserts" /\ work[k] \in BoxWork /\ k[1] \in Seekers
        /\ work[k].ip \in Addresses /\ work[k].box \in 1..made
        /\ \A u \in Seekers : boxRow[u].box # work[k].box
        /\ \A l \in House!Keys : l # k /\ work[l].step = "inserts" => work[l].box # work[k].box
    BY DEF House!Insert, BoxInv, BoxTypes, WorkSound, House!Keys
  <2> DEFINE w == [work[k] EXCEPT !.step = "tunnels"]
             r == [box |-> work[k].box, ip |-> work[k].ip]
  <2>2. w \in BoxWork /\ w.step = "tunnels" /\ w.box = work[k].box /\ w.ip = work[k].ip
    BY <2>1 DEF BoxWork
  <2>3. r \in BoxRows /\ r.box = work[k].box /\ r.ip = work[k].ip
    BY <2>1 DEF BoxWork, BoxRows
  <2>4. /\ work' = [work EXCEPT ![k] = w] /\ boxRow' = [boxRow EXCEPT ![k[1]] = r]
        /\ UNCHANGED <<box, made>>
    BY <1>2 DEF House!Go, House!Insert
  <2>5. work'[k].step = "tunnels" => boxRow'[k[1]] = [box |-> work'[k].box, ip |-> work'[k].ip]
    BY <2>1, <2>2, <2>4 DEF BoxInv, BoxTypes
  <2> HIDE DEF w, r
  <2>6. /\ work'[k] = w /\ \A l \in House!Keys : l # k => work'[l] = work[l]
        /\ work' \in [House!Keys -> BoxWork]
    BY <2>2, <2>4 DEF BoxInv, BoxTypes
  <2>7. /\ boxRow'[k[1]] = r /\ \A u \in Seekers : u # k[1] => boxRow'[u] = boxRow[u]
        /\ boxRow' \in [Seekers -> BoxRows]
    BY <2>1, <2>3, <2>4 DEF BoxInv, BoxTypes
  <2>8. BoxTypes'
    BY <2>4, <2>6, <2>7 DEF BoxInv, BoxTypes, BoxRows, BoxOnes, BoxWork, House!Ips, House!Keys
  <2>9. \A u \in Seekers : boxRow[u] # House!NoRow => boxRow[u].ip # work[k].ip
    BY <1>2 DEF House!Taken
  <2>10. RowsApart'
    <3>1. \A u \in Seekers : boxRow'[u] # House!NoRow =>
             boxRow'[u].box \in 1..made /\ boxRow'[u].ip \in Addresses
      BY <2>1, <2>3, <2>7 DEF BoxInv, RowsApart
    <3>2. ASSUME NEW u \in Seekers, NEW v \in Seekers, u # v,
                 boxRow'[u] # House!NoRow, boxRow'[v] # House!NoRow
          PROVE  boxRow'[u].box # boxRow'[v].box /\ boxRow'[u].ip # boxRow'[v].ip
      BY <2>1, <2>3, <2>7, <2>9, <3>2 DEF BoxInv, RowsApart
    <3>3. QED
      BY <2>4, <3>1, <3>2 DEF RowsApart, House!NoRow
  <2>11. TunnelsOwned'
    <3>1. ASSUME NEW b \in 1..MaxBoxes, box[b].tunnel # 0
          PROVE  \E u \in Seekers : boxRow'[u] = [box |-> b, ip |-> box[b].tunnel]
      <4>1. PICK u \in Seekers : boxRow[u] = [box |-> b, ip |-> box[b].tunnel]
        BY <3>1 DEF BoxInv, TunnelsOwned
      <4>2. boxRow[u].box = b
        BY <4>1
      <4>3. u # k[1]
        BY <1>2, <4>2 DEF House!NoRow
      <4>4. QED
        BY <2>7, <4>1, <4>3
    <3>2. QED
      BY <2>4, <3>1 DEF BoxInv, TunnelsOwned
  <2>12. ASSUME NEW l \in House!Keys PROVE WorkSound(l)'
    <3>1. CASE l = k
      BY <2>1, <2>2, <2>4, <2>5, <2>6, <3>1 DEF WorkSound
    <3>2. CASE l # k
      <4>1. WorkSound(l) /\ work'[l] = work[l] /\ l[1] \in Seekers
        BY <2>6, <3>2 DEF BoxInv, House!Keys
      <4>2. /\ work'[l].step \in {"posts", "inserts", "tunnels"} => work'[l].ip \in Addresses
            /\ work'[l].step \in {"inserts", "tunnels"} => work'[l].box \in 1..made'
        BY <2>4, <4>1 DEF WorkSound
      <4>3. work'[l].step = "inserts" =>
              /\ \A u \in Seekers : boxRow'[u].box # work'[l].box
              /\ \A j \in House!Keys : j # l /\ work'[j].step = "inserts" => work'[j].box # work'[l].box
        BY <2>1, <2>2, <2>3, <2>6, <2>7, <3>2, <4>1 DEF WorkSound
      <4>4. work'[l].step = "tunnels" =>
              \/ box'[work'[l].box].state = "deleted"
              \/ boxRow'[l[1]] = [box |-> work'[l].box, ip |-> work'[l].ip]
        <5>1. CASE l[1] # k[1]
          BY <2>4, <2>7, <4>1, <5>1 DEF WorkSound
        <5>2. CASE l[1] = k[1] /\ work[l].step = "tunnels"
          <6>1. boxRow[l[1]] # [box |-> work[l].box, ip |-> work[l].ip]
            <7>1. work[l].box \in 1..made
              BY <4>1, <5>2 DEF WorkSound
            <7>2. QED
              BY <1>2, <5>2, <7>1 DEF House!NoRow
          <6>2. QED
            BY <2>4, <4>1, <6>1 DEF WorkSound
        <5>3. QED
          BY <4>1, <5>1, <5>2
      <4>5. QED
        BY <4>2, <4>3, <4>4 DEF WorkSound
    <3>3. QED
      BY <3>1, <3>2
  <2>13. QED
    BY <2>8, <2>10, <2>11, <2>12 DEF BoxInv, House!Keys
<1>3. QED
  BY <1>1, <1>2 DEF House!Insert

\* The tunnel is built for a computer whose row is there.
LEMMA BoxTunnel ==
    ASSUME Net, BoxInv, NEW k \in House!Keys, House!Tunnel(k)
    PROVE  BoxInv'
<1>1. CASE House!GiveUp(k) /\ UNCHANGED box
  BY <1>1, BoxGivesUp DEF House!Tunnel
<1>2. CASE /\ box[work[k].box].state # "deleted"
           /\ box' = [box EXCEPT ![work[k].box].tunnel = work[k].ip]
           /\ House!Go(k, House!Wakes(work[k].box))
  <2>1. /\ work[k].step = "tunnels" /\ work[k] \in BoxWork /\ k[1] \in Seekers
        /\ work[k].ip \in Addresses /\ work[k].box \in 1..made
        /\ boxRow[k[1]] = [box |-> work[k].box, ip |-> work[k].ip]
    BY <1>2 DEF House!Tunnel, BoxInv, BoxTypes, WorkSound, House!Keys
  <2>2. work[k].box \in 1..MaxBoxes /\ work[k].box \in 0..MaxBoxes
    BY <2>1 DEF BoxInv, BoxTypes, Net
  <2> DEFINE w == House!Wakes(work[k].box)
  <2>3. w \in BoxWork /\ BoxLess(w)
    BY <2>2, BoxWorkIs
  <2>4. work' = [work EXCEPT ![k] = w] /\ UNCHANGED <<boxRow, made>>
    BY <1>2 DEF House!Go, House!Tunnel
  <2> HIDE DEF w
  <2>5. /\ work'[k] = w /\ \A l \in House!Keys : l # k => work'[l] = work[l]
        /\ work' \in [House!Keys -> BoxWork]
    BY <2>3, <2>4 DEF BoxInv, BoxTypes
  <2>6. /\ box' \in [1..MaxBoxes -> BoxOnes]
        /\ box'[work[k].box].tunnel = work[k].ip
        /\ \A b \in 1..MaxBoxes : /\ box'[b].state = box[b].state
                                  /\ b # work[k].box => box'[b] = box[b]
    BY <1>2, <2>1, <2>2 DEF BoxInv, BoxTypes, BoxOnes, House!Ips
  <2>7. BoxTypes'
    BY <2>4, <2>5, <2>6 DEF BoxInv, BoxTypes, BoxRows, BoxOnes, BoxWork, House!Ips, House!Keys
  <2>8. RowsApart'
    BY <2>4 DEF BoxInv, RowsApart
  <2>9. TunnelsOwned'
    BY <1>2, <2>1, <2>4, <2>6 DEF BoxInv, TunnelsOwned
  <2>10. ASSUME NEW l \in House!Keys PROVE WorkSound(l)'
    <3>1. CASE l = k
      BY <2>3, <2>5, <3>1 DEF WorkSound, BoxLess
    <3>2. CASE l # k
      <4>1. WorkSound(l) /\ work'[l] = work[l]
        BY <2>5, <3>2 DEF BoxInv
      <4>2. /\ work'[l].step \in {"posts", "inserts", "tunnels"} => work'[l].ip \in Addresses
            /\ work'[l].step \in {"inserts", "tunnels"} => work'[l].box \in 1..made'
        BY <2>4, <4>1 DEF WorkSound
      <4>3. work'[l].step = "inserts" =>
              /\ \A u \in Seekers : boxRow'[u].box # work'[l].box
              /\ \A j \in House!Keys : j # l /\ work'[j].step = "inserts" => work'[j].box # work'[l].box
        BY <2>3, <2>4, <2>5, <4>1 DEF WorkSound, BoxLess
      <4>4. work'[l].step = "tunnels" =>
              \/ box'[work'[l].box].state = "deleted"
              \/ boxRow'[l[1]] = [box |-> work'[l].box, ip |-> work'[l].ip]
        <5>1. work[l].step = "tunnels" => work[l].box \in 1..MaxBoxes
          BY <4>1 DEF WorkSound, BoxInv, BoxTypes, Net
        <5>2. QED
          BY <2>4, <2>6, <4>1, <5>1 DEF WorkSound
      <4>5. QED
        BY <4>2, <4>3, <4>4 DEF WorkSound
    <3>3. QED
      BY <3>1, <3>2
  <2>11. QED
    BY <2>7, <2>8, <2>9, <2>10 DEF BoxInv, House!Keys
<1>3. QED
  BY <1>1, <1>2 DEF House!Tunnel

\* A computer that stays one keeps its tunnel.
LEMMA BoxStays ==
    ASSUME box \in [1..MaxBoxes -> BoxOnes], NEW b, NEW new, box' = [box EXCEPT ![b] = new],
           b \in 1..MaxBoxes => /\ new \in BoxOnes /\ new.tunnel = box[b].tunnel
                                /\ (new.state = "deleted") <=> (box[b].state = "deleted")
    PROVE  KeepTunnels
BY DEF KeepTunnels

\* It is switched on or off, or runs other containers.
LEMMA BoxSwitches ==
    ASSUME box \in [1..MaxBoxes -> BoxOnes], NEW b, NEW state \in {"none", "on", "off", "deleted"},
           box' = [box EXCEPT ![b].state = state],
           b \in 1..MaxBoxes => (state = "deleted" <=> box[b].state = "deleted")
    PROVE  KeepTunnels
<1> DEFINE new == [box[b] EXCEPT !.state = state]
<1>1. b \in 1..MaxBoxes => new \in BoxOnes /\ new.tunnel = box[b].tunnel /\ new.state = state
  BY DEF BoxOnes
<1>2. box' = [box EXCEPT ![b] = new]
  OBVIOUS
<1> HIDE DEF new
<1>3. QED
  BY <1>1, <1>2, BoxStays

LEMMA BoxRuns ==
    ASSUME box \in [1..MaxBoxes -> BoxOnes], NEW b, NEW runs, box' = [box EXCEPT ![b].runs = runs],
           b \in 1..MaxBoxes => runs \subseteq Desktops
    PROVE  KeepTunnels
<1> DEFINE new == [box[b] EXCEPT !.runs = runs]
<1>1. b \in 1..MaxBoxes => /\ new \in BoxOnes /\ new.tunnel = box[b].tunnel
                           /\ new.state = box[b].state
  BY DEF BoxOnes
<1>2. box' = [box EXCEPT ![b] = new]
  OBVIOUS
<1> HIDE DEF new
<1>3. QED
  BY <1>1, <1>2, BoxStays

\* Waking a computer, and running a container on it, touch no tunnel.
LEMMA BoxWakes ==
    ASSUME Net, BoxInv, NEW k \in House!Keys, House!Wake(k) \/ House!Run(k)
    PROVE  BoxInv'
<1>1. work[k] \in BoxWork /\ box \in [1..MaxBoxes -> BoxOnes] /\ k[2] \in Desktops
  BY DEF BoxInv, BoxTypes, House!Keys
<1>2. UNCHANGED <<boxRow, made>>
  BY DEF House!Wake, House!Run
<1>3. CASE House!GiveUp(k) /\ UNCHANGED box
  BY <1>2, <1>3, BoxGivesUp
<1>4. CASE /\ box[work[k].box].state \in {"on", "off"}
           /\ box' = [box EXCEPT ![work[k].box].state = "on"]
           /\ House!Go(k, [work[k] EXCEPT !.step = "runs"])
  <2> DEFINE w == [work[k] EXCEPT !.step = "runs"]
  <2>1. w \in BoxWork /\ w.step = "runs"
    BY <1>1 DEF BoxWork
  <2>2. BoxLess(w) /\ work' = [work EXCEPT ![k] = w]
    BY <1>4, <2>1 DEF House!Go, BoxLess
  <2> HIDE DEF w
  <2>3. KeepTunnels
    BY <1>1, <1>4, BoxSwitches
  <2>4. QED
    BY <1>2, <2>1, <2>2, <2>3, BoxTurns
<1>5. CASE /\ House!GiveUp(k)
           /\ box' = [box EXCEPT ![work[k].box].runs = @ \union {k[2]}]
  <2>1. work[k].box \in 1..MaxBoxes => box[work[k].box].runs \union {k[2]} \subseteq Desktops
    BY <1>1 DEF BoxOnes
  <2>2. KeepTunnels
    BY <1>1, <1>5, <2>1, BoxRuns
  <2>3. QED
    BY <1>2, <1>5, <2>2, BoxWorkIs, BoxTurns DEF House!GiveUp, House!Go
<1>6. QED
  BY <1>3, <1>4, <1>5 DEF House!Wake, House!Run

\* So do the steps of the reaper.
LEMMA BoxReaps ==
    ASSUME Net, BoxInv, NEW k \in House!Keys,
           \/ \E releases \in BOOLEAN : House!Remove(k, releases)
           \/ House!Count(k) \/ House!StopBox(k)
    PROVE  BoxInv'
<1>1. UNCHANGED <<boxRow, made, work>> /\ box \in [1..MaxBoxes -> BoxOnes]
  BY DEF House!Remove, House!Count, House!StopBox, BoxInv, BoxTypes
<1>2. KeepTunnels
  <2>1. CASE UNCHANGED box
    BY <1>1, <2>1 DEF KeepTunnels
  <2>2. ASSUME NEW b, box' = [box EXCEPT ![b].runs = @ \ {k[2]}]
        PROVE  KeepTunnels
    <3>1. b \in 1..MaxBoxes => box[b].runs \ {k[2]} \subseteq Desktops
      BY <1>1 DEF BoxOnes
    <3>2. QED
      BY <1>1, <2>2, <3>1, BoxRuns
  <2>3. ASSUME NEW b, box' = [box EXCEPT ![b].state = IF @ = "on" THEN "off" ELSE @]
        PROVE  KeepTunnels
    <3> DEFINE state == IF box[b].state = "on" THEN "off" ELSE box[b].state
    <3>1. CASE b \in 1..MaxBoxes
      <4>1. state \in {"none", "on", "off", "deleted"} /\ (state = "deleted" <=> box[b].state = "deleted")
        BY <1>1, <3>1 DEF BoxOnes
      <4>2. box' = [box EXCEPT ![b].state = state]
        BY <2>3
      <4> HIDE DEF state
      <4>3. QED
        BY <1>1, <4>1, <4>2, BoxSwitches
    <3>2. CASE b \notin 1..MaxBoxes
      BY <1>1, <2>3, <3>2 DEF KeepTunnels
    <3>3. QED
      BY <3>1, <3>2
  <2>4. QED
    BY <2>1, <2>2, <2>3 DEF House!Remove, House!Count, House!StopBox
<1>3. work \in [House!Keys -> BoxWork]
  BY DEF BoxInv, BoxTypes
<1>4. QED
  BY <1>1, <1>2, <1>3, BoxQuiet

\* The row of a computer that is gone is cleared: it answers nowhere.
LEMMA BoxInspect ==
    ASSUME Net, BoxInv, NEW u \in Seekers, House!Inspect(u)
    PROVE  BoxInv'
<1>1. /\ boxRow[u] # House!NoRow /\ box[boxRow[u].box].state = "deleted"
      /\ boxRow' = [boxRow EXCEPT ![u] = House!NoRow] /\ UNCHANGED <<box, made, work>>
  BY DEF House!Inspect
<1>2. House!NoRow \in BoxRows /\ House!NoRow.box = 0
  BY DEF Net, House!NoRow, BoxRows, House!Ips
<1>3. /\ boxRow'[u] = House!NoRow /\ \A v \in Seekers : v # u => boxRow'[v] = boxRow[v]
      /\ boxRow' \in [Seekers -> BoxRows]
  BY <1>1, <1>2 DEF BoxInv, BoxTypes
<1>4. BoxTypes'
  BY <1>1, <1>3 DEF BoxInv, BoxTypes, BoxRows, BoxOnes, BoxWork, House!Ips, House!Keys
<1>5. RowsApart'
  BY <1>1, <1>3 DEF BoxInv, RowsApart, House!NoRow
<1>6. TunnelsOwned'
  <2>1. ASSUME NEW b \in 1..MaxBoxes, box[b].tunnel # 0
        PROVE  \E v \in Seekers : boxRow'[v] = [box |-> b, ip |-> box[b].tunnel]
    <3>1. PICK v \in Seekers : boxRow[v] = [box |-> b, ip |-> box[b].tunnel]
      BY <2>1 DEF BoxInv, TunnelsOwned
    <3>2. boxRow[v].box = b /\ box[b].state # "deleted"
      BY <2>1, <3>1 DEF BoxInv, TunnelsOwned
    <3>3. v # u
      BY <1>1, <3>2
    <3>4. QED
      BY <1>3, <3>1, <3>3
  <2>2. QED
    BY <1>1, <2>1 DEF BoxInv, TunnelsOwned
<1>7. ASSUME NEW l \in House!Keys PROVE WorkSound(l)'
  <2>1. WorkSound(l) /\ work'[l] = work[l] /\ l[1] \in Seekers
    BY <1>1 DEF BoxInv, House!Keys
  <2>2. work[l].step \in {"inserts", "tunnels"} => work[l].box # 0
    BY <2>1 DEF WorkSound, BoxInv, BoxTypes, Net
  <2>3. /\ work'[l].step \in {"posts", "inserts", "tunnels"} => work'[l].ip \in Addresses
        /\ work'[l].step \in {"inserts", "tunnels"} => work'[l].box \in 1..made'
    BY <1>1, <2>1 DEF WorkSound
  <2>4. work'[l].step = "inserts" =>
          /\ \A v \in Seekers : boxRow'[v].box # work'[l].box
          /\ \A j \in House!Keys : j # l /\ work'[j].step = "inserts" => work'[j].box # work'[l].box
    BY <1>1, <1>2, <1>3, <2>1, <2>2 DEF WorkSound
  <2>5. work'[l].step = "tunnels" =>
          \/ box'[work'[l].box].state = "deleted"
          \/ boxRow'[l[1]] = [box |-> work'[l].box, ip |-> work'[l].ip]
    <3>1. CASE l[1] # u
      BY <1>1, <1>3, <2>1, <3>1 DEF WorkSound
    <3>2. CASE boxRow[u] = [box |-> work[l].box, ip |-> work[l].ip]
      <4>1. boxRow[u].box = work[l].box
        BY <3>2
      <4>2. QED
        BY <1>1, <4>1
    <3>3. QED
      BY <1>1, <2>1, <3>1, <3>2 DEF WorkSound
  <2>6. QED
    BY <2>3, <2>4, <2>5 DEF WorkSound
<1>8. QED
  BY <1>4, <1>5, <1>6, <1>7 DEF BoxInv, House!Keys

\* A computer that goes away takes its tunnel with it.
LEMMA BoxGoes ==
    ASSUME Net, BoxInv, NEW b \in 1..MaxBoxes, House!BoxGone(b)
    PROVE  BoxInv'
<1> DEFINE gone == [state |-> "deleted", tunnel |-> 0, runs |-> {}]
<1>1. box' = [box EXCEPT ![b] = gone] /\ UNCHANGED <<boxRow, made, work>>
  BY DEF House!BoxGone
<1>2. gone \in BoxOnes /\ gone.state = "deleted" /\ gone.tunnel = 0
  BY DEF BoxOnes, House!Ips
<1> HIDE DEF gone
<1>3. /\ box' \in [1..MaxBoxes -> BoxOnes] /\ box'[b] = gone
      /\ \A c \in 1..MaxBoxes : c # b => box'[c] = box[c]
  BY <1>1, <1>2 DEF BoxInv, BoxTypes
<1>4. BoxTypes'
  BY <1>1, <1>3 DEF BoxInv, BoxTypes, BoxRows, BoxOnes, BoxWork, House!Ips, House!Keys
<1>5. RowsApart'
  BY <1>1 DEF BoxInv, RowsApart
<1>6. TunnelsOwned'
  BY <1>1, <1>2, <1>3 DEF BoxInv, TunnelsOwned
<1>7. ASSUME NEW l \in House!Keys PROVE WorkSound(l)'
  <2>1. WorkSound(l) /\ (work[l].step = "tunnels" => work[l].box \in 1..MaxBoxes)
    BY DEF WorkSound, BoxInv, BoxTypes, Net
  <2>2. QED
    BY <1>1, <1>2, <1>3, <2>1 DEF WorkSound
<1>8. QED
  BY <1>4, <1>5, <1>6, <1>7 DEF BoxInv, House!Keys

\* No step of the module disturbs the invariant.
LEMMA BoxStep == Net /\ BoxInv /\ [House!Next]_House!boxVars => BoxInv'
<1>1. SUFFICES ASSUME Net, BoxInv, [House!Next]_House!boxVars PROVE BoxInv'
  OBVIOUS
<1>2. CASE UNCHANGED House!boxVars
  <2>1. UNCHANGED <<boxRow, box, made, work>>
    BY <1>2 DEF House!boxVars
  <2>2. KeepTunnels /\ work' \in [House!Keys -> BoxWork]
    BY <1>1, <2>1 DEF BoxInv, BoxTypes, KeepTunnels
  <2>3. QED
    BY <1>1, <2>1, <2>2, BoxQuiet
<1>3. QED
  BY <1>1, <1>2, BoxEnsure, BoxPost, BoxInsert, BoxTunnel, BoxWakes, BoxReaps, BoxInspect, BoxGoes
     DEF House!Next

\* Two computers with one address would be two users with one, which the rows
\* exclude.
LEMMA OneAddressOneBox == BoxInv => House!OwnAddress
<1>1. SUFFICES ASSUME BoxInv, NEW b \in 1..MaxBoxes, NEW c \in 1..MaxBoxes,
                      b # c, box[b].tunnel # 0, box[b].tunnel = box[c].tunnel
               PROVE  FALSE
  BY DEF House!OwnAddress
<1>2. PICK u \in Seekers : boxRow[u] = [box |-> b, ip |-> box[b].tunnel]
  BY <1>1 DEF BoxInv, TunnelsOwned
<1>3. PICK v \in Seekers : boxRow[v] = [box |-> c, ip |-> box[b].tunnel]
  BY <1>1 DEF BoxInv, TunnelsOwned
<1>4. /\ boxRow[u].box = b /\ boxRow[v].box = c /\ boxRow[u].ip = boxRow[v].ip
      /\ boxRow[u] # House!NoRow /\ boxRow[v] # House!NoRow
  BY <1>1, <1>2, <1>3 DEF House!NoRow
<1>5. QED
  BY <1>1, <1>4 DEF BoxInv, RowsApart

\* No two computers answer at one address, whoever was made or deleted, and
\* whichever products of one user were started, at the same time (_ensure_box).
THEOREM AnAddressEach == Net /\ House!Spec => []House!OwnAddress
<1>1. SUFFICES ASSUME Net PROVE House!Spec => []House!OwnAddress
  OBVIOUS
<1>2. House!Init => BoxInv
  BY <1>1, BoxBegins
<1>3. BoxInv /\ [House!Next]_House!boxVars => BoxInv'
  BY <1>1, BoxStep
<1>4. QED
  BY <1>2, <1>3, OneAddressOneBox, PTL DEF House!Spec

-----------------------------------------------------------------------------
(* Instances.                                                               *)

CONSTANTS Servers, MaxGroups
VARIABLES groups, ordered, elsewhere, route, clearing, calm
Cloud == INSTANCE Instances WITH made <- ordered, pod <- elsewhere, server <- clearing

Doings == [step : {"idle", "clears", "creates", "releases eci", "lists eci", "releases k8s"},
           todo : SUBSET (1..ordered), keep : 0..ordered]

InstanceTypes ==
    /\ ordered \in Nat /\ calm \in BOOLEAN
    /\ groups \subseteq [nr : 1..ordered, status : Cloud!Statuses]
    /\ clearing \in [Servers -> Doings]

\* As long as nobody releases the workspace and no instance ends by itself, the
\* newest instance ever made is there and nobody means to delete it.
NewestStays ==
    calm =>
    /\ \A g \in groups : g.status # "over"
    /\ ordered > 0 => \E g \in groups : g.nr = ordered
    /\ \A s \in Servers : /\ clearing[s].step \in {"idle", "clears", "creates"}
                          /\ ordered \notin clearing[s].todo

SurvivorInv == InstanceTypes /\ NewestStays

\* A server that is about nothing lists no instance.
LEMMA NothingInMind ==
    ASSUME ordered \in Nat
    PROVE  Cloud!Idle \in Doings /\ Cloud!Idle.step = "idle" /\ Cloud!Idle.todo = {}
<1>1. Cloud!Idle \in Doings
  BY DEF Cloud!Idle, Doings
<1>2. Cloud!Idle.step = "idle" /\ Cloud!Idle.todo = {}
  BY DEF Cloud!Idle
<1>3. QED
  BY <1>1, <1>2

\* At the start there is no instance and no server is about anything.
LEMMA SurvivorBegins == Cloud!Init => SurvivorInv
BY DEF Cloud!Init, Cloud!Idle, SurvivorInv, InstanceTypes, NewestStays, Doings

\* All that a server may newly mean to do, while the instances stay as they are:
\* its list of deletions does not name the newest, unless it is not calm any more.
LEMMA SurvivorTurns ==
    ASSUME SurvivorInv, NEW s \in Servers, NEW d \in Doings,
           clearing' = [clearing EXCEPT ![s] = d],
           UNCHANGED <<groups, ordered>>, calm' \in BOOLEAN,
           calm' => /\ calm /\ d.step \in {"idle", "clears", "creates"}
                    /\ ordered \notin d.todo
    PROVE  SurvivorInv'
BY DEF SurvivorInv, InstanceTypes, NewestStays, Doings

\* An inspection keeps the newest of those that live, which while it is calm is
\* the newest of all.
LEMMA SurvivorInspect ==
    ASSUME SurvivorInv, NEW s \in Servers, Cloud!Inspect(s)
    PROVE  SurvivorInv'
<1>1. PICK keep \in Cloud!Keeper(s) :
         clearing' = [clearing EXCEPT ![s] = [step |-> "clears", keep |-> keep,
                                              todo |-> Cloud!Nrs(groups) \ {keep}]]
  BY DEF Cloud!Inspect
<1> DEFINE d == [step |-> "clears", keep |-> keep, todo |-> Cloud!Nrs(groups) \ {keep}]
<1>2. Cloud!Nrs(groups) \subseteq 1..ordered /\ Cloud!Nrs(Cloud!Alive) \subseteq 1..ordered
  BY DEF SurvivorInv, InstanceTypes, Cloud!Nrs, Cloud!Alive
<1>3. keep \in 0..ordered
  BY <1>2 DEF Cloud!Keeper, SurvivorInv, InstanceTypes
<1>4. d \in Doings
  BY <1>2, <1>3 DEF Doings
<1>5. ASSUME calm PROVE ordered \notin d.todo
  <2>1. SUFFICES ASSUME ordered \in Cloud!Nrs(groups), ordered # keep PROVE FALSE
    OBVIOUS
  <2>2. ordered \in Cloud!Nrs(Cloud!Alive)
    BY <1>5, <2>1 DEF SurvivorInv, NewestStays, Cloud!Nrs, Cloud!Alive
  <2>3. Cloud!Alive # {}
    BY <2>2 DEF Cloud!Nrs
  <2>4. keep \in Cloud!Nrs(Cloud!Alive) /\ ordered <= keep
    BY <2>2, <2>3 DEF Cloud!Keeper
  <2>5. QED
    BY <1>2, <2>1, <2>4 DEF SurvivorInv, InstanceTypes
<1>6. UNCHANGED <<groups, ordered, calm>> /\ clearing' = [clearing EXCEPT ![s] = d]
  BY <1>1 DEF Cloud!Inspect, Cloud!Unchanged
<1>7. calm \in BOOLEAN /\ d.step = "clears"
  BY DEF SurvivorInv, InstanceTypes
<1> HIDE DEF d
<1>8. QED
  BY <1>4, <1>5, <1>6, <1>7, SurvivorTurns

\* A server deletes what it has listed, and that is not the newest.
LEMMA SurvivorDelete ==
    ASSUME SurvivorInv, NEW s \in Servers, NEW n \in 1..ordered, Cloud!Delete(s, n)
    PROVE  SurvivorInv'
<1>1. /\ n \in clearing[s].todo
      /\ groups' \in {{g \in groups : g.nr # n}, groups}
      /\ clearing' = [clearing EXCEPT ![s].todo = @ \ {n}]
      /\ UNCHANGED <<ordered, calm>>
  BY DEF Cloud!Delete
<1>2. InstanceTypes'
  <2>1. clearing[s] \in Doings /\ clearing \in [Servers -> Doings]
    BY DEF SurvivorInv, InstanceTypes
  <2>2. [clearing[s] EXCEPT !.todo = @ \ {n}] \in Doings
    BY <2>1 DEF Doings
  <2>3. clearing' \in [Servers -> Doings]
    BY <1>1, <2>1, <2>2
  <2>4. Doings' = Doings
    BY <1>1 DEF Doings
  <2>5. groups' \subseteq groups
    BY <1>1
  <2>6. QED
    BY <1>1, <2>3, <2>4, <2>5 DEF SurvivorInv, InstanceTypes
<1>3. NewestStays'
  BY <1>1 DEF SurvivorInv, InstanceTypes, NewestStays, Doings
<1>4. QED
  BY <1>2, <1>3 DEF SurvivorInv

\* A server goes on to its next step, or is finished, and lists nothing new.
LEMMA SurvivorGoes ==
    ASSUME SurvivorInv, NEW s \in Servers,
           Cloud!Inspected(s) \/ Cloud!ReleasedEci(s) \/ Cloud!ReleasePod(s) \/ Cloud!Unreachable(s)
    PROVE  SurvivorInv'
<1>1. /\ clearing[s] \in Doings /\ calm \in BOOLEAN
      /\ calm => clearing[s].step \in {"idle", "clears", "creates"}
      /\ calm => ordered \notin clearing[s].todo
      /\ ordered \in Nat /\ clearing \in [Servers -> Doings]
  BY DEF SurvivorInv, InstanceTypes, NewestStays
<1>2. UNCHANGED <<groups, ordered, calm>>
  BY DEF Cloud!Inspected, Cloud!ReleasedEci, Cloud!ReleasePod, Cloud!Unreachable, Cloud!Unchanged
<1>3. \E d \in Doings : /\ clearing' = [clearing EXCEPT ![s] = d]
                        /\ calm => /\ d.step \in {"idle", "clears", "creates"}
                                   /\ ordered \notin d.todo
  <2>1. Cloud!Idle \in Doings /\ Cloud!Idle.step = "idle" /\ Cloud!Idle.todo = {}
    BY <1>1, NothingInMind
  <2>2. CASE Cloud!Finished(s)
    BY <2>1, <2>2 DEF Cloud!Finished
  <2>3. CASE /\ clearing[s].step = "clears" /\ Cloud!Go(s, "creates")
    <3> DEFINE d == [clearing[s] EXCEPT !.step = "creates"]
    <3>1. clearing' = [clearing EXCEPT ![s] = d]
      BY <2>3 DEF Cloud!Go
    <3>2. d \in Doings /\ d.step = "creates" /\ d.todo = clearing[s].todo
      BY <1>1 DEF Doings
    <3>3. QED
      BY <1>1, <3>1, <3>2
  <2>4. CASE ~calm /\ (Cloud!Go(s, "releases eci") \/ Cloud!Go(s, "releases k8s"))
    <3>1. /\ [clearing[s] EXCEPT !.step = "releases eci"] \in Doings
          /\ [clearing[s] EXCEPT !.step = "releases k8s"] \in Doings
      BY <1>1 DEF Doings
    <3>2. QED
      BY <2>4, <3>1 DEF Cloud!Go
  <2>5. QED
    BY <1>1, <2>2, <2>3, <2>4
       DEF Cloud!Inspected, Cloud!ReleasedEci, Cloud!ReleasePod, Cloud!Unreachable
<1>4. QED
  BY <1>1, <1>2, <1>3, SurvivorTurns

\* A release begins: it is not calm any more.
LEMMA SurvivorReleases ==
    ASSUME SurvivorInv, NEW s \in Servers, Cloud!Release(s) \/ Cloud!ListAll(s)
    PROVE  SurvivorInv'
<1>1. /\ UNCHANGED <<groups, ordered>>
      /\ ordered \in Nat /\ clearing \in [Servers -> Doings]
      /\ groups \subseteq [nr : 1..ordered, status : Cloud!Statuses]
  BY DEF SurvivorInv, InstanceTypes, Cloud!Release, Cloud!ListAll, Cloud!Unchanged
<1>2. calm' = FALSE
  BY DEF SurvivorInv, InstanceTypes, NewestStays, Cloud!Release, Cloud!ListAll, Cloud!Unchanged
<1>3. \E d \in Doings : clearing' = [clearing EXCEPT ![s] = d]
  <2>1. CASE Cloud!Release(s)
    <3>1. /\ [clearing[s] EXCEPT !.step = "releases eci"] \in Doings
          /\ [clearing[s] EXCEPT !.step = "releases k8s"] \in Doings
      BY <1>1 DEF Doings
    <3>2. QED
      BY <2>1, <3>1 DEF Cloud!Release, Cloud!Go
  <2>2. CASE Cloud!ListAll(s)
    <3>1. Cloud!Nrs(groups) \subseteq 1..ordered
      BY <1>1 DEF Cloud!Nrs
    <3>2. 0 \in 0..ordered
      BY <1>1
    <3> DEFINE d == [step |-> "lists eci", keep |-> 0, todo |-> Cloud!Nrs(groups)]
    <3>3. d \in Doings
      BY <3>1, <3>2 DEF Doings
    <3>4. clearing' = [clearing EXCEPT ![s] = d]
      BY <2>2 DEF Cloud!ListAll
    <3> HIDE DEF d
    <3>5. QED
      BY <3>3, <3>4
  <2>3. QED
    BY <2>1, <2>2
<1>4. QED
  BY <1>1, <1>2, <1>3, SurvivorTurns

\* A new instance is the newest, and nobody has listed it yet.
LEMMA SurvivorCreate ==
    ASSUME SurvivorInv, NEW s \in Servers, Cloud!Create(s)
    PROVE  SurvivorInv'
<1>1. Cloud!Idle \in Doings /\ Cloud!Idle.step = "idle" /\ Cloud!Idle.todo = {}
  BY NothingInMind DEF SurvivorInv, InstanceTypes
<1>2. CASE UNCHANGED <<groups, ordered>>
  BY <1>1, <1>2, SurvivorTurns DEF Cloud!Create, Cloud!Finished, SurvivorInv, InstanceTypes
<1>3. CASE /\ ordered' = ordered + 1
           /\ groups' = groups \union {[nr |-> ordered + 1, status |-> "coming up"]}
  <2>1. UNCHANGED calm /\ clearing' = [clearing EXCEPT ![s] = Cloud!Idle]
    BY DEF Cloud!Create, Cloud!Finished
  <2>2. ordered \in Nat /\ groups \subseteq [nr : 1..ordered, status : Cloud!Statuses]
    BY DEF SurvivorInv, InstanceTypes
  <2>3. ordered \in Nat /\ ordered' = ordered + 1
    BY <1>3, <2>2
  <2>4. Doings \subseteq Doings'
    <3>1. 1..ordered \subseteq 1..ordered' /\ 0..ordered \subseteq 0..ordered'
      BY <2>3
    <3>2. QED
      BY <3>1 DEF Doings
  <2>5. InstanceTypes'
    <3>1. groups' \subseteq [nr : 1..ordered', status : Cloud!Statuses]
      <4>1. 1..ordered \subseteq 1..ordered' /\ ordered + 1 \in 1..ordered'
        BY <2>3
      <4>2. [nr |-> ordered + 1, status |-> "coming up"] \in [nr : 1..ordered', status : Cloud!Statuses]
        BY <4>1 DEF Cloud!Statuses
      <4>3. QED
        BY <1>3, <2>2, <4>1, <4>2
    <3>2. clearing' \in [Servers -> Doings']
      BY <1>1, <2>1, <2>4 DEF SurvivorInv, InstanceTypes
    <3>3. ordered' \in Nat /\ calm' \in BOOLEAN
      BY <2>1, <2>3 DEF SurvivorInv, InstanceTypes
    <3>4. QED
      BY <3>1, <3>2, <3>3 DEF InstanceTypes, Cloud!Statuses
  <2>6. NewestStays'
    <3>1. SUFFICES ASSUME calm PROVE NewestStays'
      BY <2>1 DEF NewestStays
    <3> DEFINE new == [nr |-> ordered + 1, status |-> "coming up"]
    <3>2. \A g \in groups' : g.status # "over"
      <4>1. new.status # "over" /\ groups' = groups \union {new}
        BY <1>3
      <4>2. \A g \in groups : g.status # "over"
        BY <3>1 DEF SurvivorInv, NewestStays
      <4> HIDE DEF new
      <4>3. QED
        BY <4>1, <4>2
    <3>3. \E g \in groups' : g.nr = ordered'
      <4>1. new \in groups' /\ new.nr = ordered'
        BY <1>3
      <4> HIDE DEF new
      <4>2. QED
        BY <4>1
    <3>4. ASSUME NEW q \in Servers
          PROVE  clearing'[q].step \in {"idle", "clears", "creates"} /\ ordered' \notin clearing'[q].todo
      <4>1. CASE q = s
        <5>1. clearing'[q] = Cloud!Idle
          BY <2>1, <4>1 DEF SurvivorInv, InstanceTypes
        <5>2. QED
          BY <1>1, <5>1
      <4>2. CASE q # s
        <5>1. /\ clearing[q].step \in {"idle", "clears", "creates"}
              /\ clearing[q].todo \subseteq 1..ordered /\ ordered \in Nat
          BY <3>1 DEF SurvivorInv, InstanceTypes, NewestStays, Doings
        <5>2. clearing'[q] = clearing[q]
          BY <2>1, <4>2 DEF SurvivorInv, InstanceTypes
        <5>3. ordered' \notin clearing[q].todo
          BY <2>3, <5>1
        <5>4. QED
          BY <5>1, <5>2, <5>3
      <4>3. QED
        BY <4>1, <4>2
    <3>5. QED
      BY <3>2, <3>3, <3>4 DEF NewestStays
  <2>7. QED
    BY <2>5, <2>6 DEF SurvivorInv
<1>4. QED
  BY <1>2, <1>3 DEF Cloud!Create

\* An instance that comes up stays the instance it is; one that ends disturbs
\* the calm.
LEMMA SurvivorProgress ==
    ASSUME SurvivorInv, Cloud!Progress
    PROVE  SurvivorInv'
<1>1. PICK g \in Cloud!Alive :
         /\ groups' = (groups \ {g}) \union
               {[g EXCEPT !.status = IF g.status = "coming up" THEN "running" ELSE "over"]}
         /\ calm' = (calm /\ g.status = "coming up")
         /\ UNCHANGED <<ordered, clearing>>
  BY DEF Cloud!Progress
<1> DEFINE h == [g EXCEPT !.status = IF g.status = "coming up" THEN "running" ELSE "over"]
<1>2. g \in groups /\ g \in [nr : 1..ordered, status : Cloud!Statuses]
  BY DEF Cloud!Alive, SurvivorInv, InstanceTypes
<1>3. /\ h \in [nr : 1..ordered, status : Cloud!Statuses] /\ h.nr = g.nr
      /\ g.status = "coming up" => h.status = "running"
  BY <1>2 DEF Cloud!Statuses
<1>4. groups' = (groups \ {g}) \union {h}
  BY <1>1
<1> HIDE DEF h
<1>5. InstanceTypes'
  BY <1>1, <1>3, <1>4 DEF SurvivorInv, InstanceTypes, Doings, Cloud!Statuses
<1>6. NewestStays'
  <2>1. SUFFICES ASSUME calm, g.status = "coming up" PROVE NewestStays'
    BY <1>1 DEF NewestStays
  <2>2. \A k \in groups' : k.status # "over"
    BY <1>3, <1>4, <2>1 DEF SurvivorInv, NewestStays
  <2>3. ordered > 0 => \E k \in groups' : k.nr = ordered
    BY <1>3, <1>4, <2>1 DEF SurvivorInv, NewestStays
  <2>4. QED
    BY <1>1, <2>1, <2>2, <2>3 DEF SurvivorInv, NewestStays
<1>7. QED
  BY <1>5, <1>6 DEF SurvivorInv

\* No step of the module disturbs the invariant.
LEMMA SurvivorStep == SurvivorInv /\ [Cloud!Next]_Cloud!instanceVars => SurvivorInv'
<1>1. SUFFICES ASSUME SurvivorInv, [Cloud!Next]_Cloud!instanceVars PROVE SurvivorInv'
  OBVIOUS
<1>2. ASSUME UNCHANGED <<groups, ordered, clearing, calm>> PROVE SurvivorInv'
  BY <1>1, <1>2 DEF SurvivorInv, InstanceTypes, NewestStays, Doings
<1>3. ASSUME NEW s \in Servers, Cloud!CreatePod(s) PROVE SurvivorInv'
  BY <1>2, <1>3 DEF Cloud!CreatePod
<1>4. CASE Cloud!Reroute
  <2>1. /\ UNCHANGED <<groups, ordered, calm>>
        /\ clearing' = [s \in Servers |-> Cloud!Idle]
    BY <1>4 DEF Cloud!Reroute
  <2>2. Cloud!Idle \in Doings /\ Cloud!Idle.step = "idle" /\ Cloud!Idle.todo = {}
    BY <1>1, NothingInMind DEF SurvivorInv, InstanceTypes
  <2>3. Doings' = Doings
    BY <2>1 DEF Doings
  <2>4. InstanceTypes'
    BY <1>1, <2>1, <2>2, <2>3 DEF SurvivorInv, InstanceTypes, Cloud!Statuses
  <2>5. NewestStays'
    BY <1>1, <2>1, <2>2 DEF SurvivorInv, NewestStays
  <2>6. QED
    BY <2>4, <2>5 DEF SurvivorInv
<1>5. QED
  BY <1>1, <1>2, <1>3, <1>4, SurvivorInspect, SurvivorDelete, SurvivorGoes, SurvivorReleases,
     SurvivorCreate, SurvivorProgress DEF Cloud!Next, Cloud!instanceVars

\* The servers that clear away duplicates keep the same instance, the newest, so
\* that they never delete the last one between them (EciBackend.inspect).
THEOREM OneIsLeft == Cloud!Spec => []Cloud!OneSurvives
<1>1. SurvivorInv => Cloud!OneSurvives
  BY DEF SurvivorInv, NewestStays, Cloud!OneSurvives, Cloud!Alive
<1>2. QED
  BY <1>1, SurvivorBegins, SurvivorStep, PTL DEF Cloud!Spec

-----------------------------------------------------------------------------
(* Pods.                                                                    *)

CONSTANT Files
VARIABLES pod, local, marker, whole, oss, secret, server, refresh
Kube == INSTANCE Pods

\* The mark is never left on a volume that the restore filled in part.
MarkInv == marker => whole # "half"

\* No step of the module disturbs the invariant, and one that changes the master
\* copy is taken on a volume with the mark.
LEMMA MarkStep ==
    ASSUME MarkInv, [Kube!Next]_Kube!podVars
    PROVE  MarkInv' /\ Kube!PushesWhole
<1>1. ASSUME UNCHANGED <<marker, whole, oss>> PROVE MarkInv' /\ Kube!PushesWhole
  BY <1>1 DEF MarkInv, Kube!PushesWhole
<1>2. CASE UNCHANGED Kube!podVars
  BY <1>1, <1>2 DEF Kube!podVars
<1>3. CASE \/ Kube!Mint \/ Kube!Post \/ Kube!Conflict \/ Kube!DeleteSecret \/ Kube!Mounted
           \/ Kube!Evicted \/ Kube!ListPods \/ Kube!ListSecrets \/ Kube!DeleteOrphan
           \/ Kube!Renew \/ Kube!Time
  BY <1>1, <1>3 DEF Kube!Mint, Kube!Post, Kube!Conflict, Kube!DeleteSecret, Kube!Mounted,
     Kube!Evicted, Kube!ListPods, Kube!ListSecrets, Kube!DeleteOrphan, Kube!Renew, Kube!Time,
     Kube!Data
<1>4. CASE Kube!Inspect \/ \E again \in BOOLEAN : Kube!Destroy(again)
  <2>1. UNCHANGED oss /\ (Kube!Vanish \/ UNCHANGED <<marker, whole>>)
    BY <1>4 DEF Kube!Inspect, Kube!Destroy
  <2>2. Kube!PushesWhole
    BY <2>1 DEF Kube!PushesWhole
  <2>3. MarkInv'
    BY <2>1 DEF MarkInv, Kube!Vanish
  <2>4. QED
    BY <2>2, <2>3
<1>5. CASE Kube!Fetched \/ Kube!Broken \/ Kube!Nothing
  BY <1>5 DEF MarkInv, Kube!PushesWhole, Kube!Fetched, Kube!Broken, Kube!Nothing
<1>6. CASE Kube!Push
  BY <1>6 DEF MarkInv, Kube!PushesWhole, Kube!Push
<1>7. CASE Kube!FinalPush
  <2>1. oss' # oss => marker
    BY <1>7 DEF Kube!FinalPush
  <2>2. CASE Kube!Vanish
    BY <2>1, <2>2 DEF MarkInv, Kube!PushesWhole, Kube!Vanish
  <2>3. CASE UNCHANGED <<marker, whole>>
    BY <2>1, <2>3 DEF MarkInv, Kube!PushesWhole
  <2>4. QED
    BY <1>7, <2>2, <2>3 DEF Kube!FinalPush
<1>8. CASE \E f \in Files : Kube!Edit(f)
  BY <1>1, <1>8 DEF Kube!Edit
<1>9. QED
  BY <1>2, <1>3, <1>4, <1>5, <1>6, <1>7, <1>8 DEF Kube!Next

\* A copy that came down in part is never pushed, so that a restore that broke
\* off cannot damage the master copy (the mark of K8sBackend's syncer).
THEOREM HalfIsNotPushed == Kube!Spec => Kube!NoHalfPush
<1>1. Kube!Init => MarkInv
  BY DEF Kube!Init, MarkInv
<1>2. MarkInv /\ [Kube!Next]_Kube!podVars => MarkInv' /\ [Kube!PushesWhole]_Kube!podVars
  BY MarkStep
<1>3. QED
  BY <1>1, <1>2, PTL DEF Kube!Spec, Kube!NoHalfPush

-----------------------------------------------------------------------------
(* LocalRun.                                                                *)

CONSTANTS Slots, Longer, Parts
VARIABLES device, pass, docker, shell, deaf
Mine == INSTANCE LocalRun

Shells == [pc : {"idle", "asking", "stopping", "pulling", "initialising", "starting",
                 "joining", "up", "failed", "refused"}, left : SUBSET Parts]
Stacks == [Mine!Containers -> {"none", "created", "running"}]
Joined == Parts \union {"main"}

\* How much of a stack is there, wherever its terminal is: what has joined runs,
\* and where docker removed what it was told to, nothing is there before the main
\* container is started, and then it and those that have joined it.
StackRuns(s) ==
    /\ shell[s].pc = "up" => \A c \in Joined : docker[s][c] = "running"
    /\ shell[s].pc = "joining" => \A c \in Joined \ shell[s].left : docker[s][c] = "running"

StackClean(s) ==
    /\ shell[s].pc = "failed" => \A c \in Joined : docker[s][c] # "running"
    /\ shell[s].pc \in {"pulling", "initialising"} => docker[s] = Mine!Nothing
    /\ shell[s].pc = "starting" => \A c \in Joined : docker[s][c] = "none"
    /\ shell[s].pc = "joining" => \A c \in Joined \cap shell[s].left : docker[s][c] = "none"

StackSound(s) == StackRuns(s) /\ (s \notin deaf => StackClean(s))

\* Whether docker heard of the others does not change.
SameEars(s) == \A t \in Slots : t # s => (t \in deaf' <=> t \in deaf)

LocalInv ==
    /\ docker \in [Slots -> Stacks] /\ shell \in [Slots -> Shells]
    /\ \A s \in Slots : StackSound(s)

\* The sidecars have names of their own.
Sidecars == "init" \notin Parts /\ "main" \notin Parts

\* An empty stack is a stack.
LEMMA EmptyStack ==
    Mine!Nothing \in Stacks /\ \A c \in Joined \union {"init"} : Mine!Nothing[c] = "none"
BY DEF Mine!Nothing, Stacks, Joined, Mine!Containers

\* At the start nothing runs.
LEMMA LocalBegins == Mine!Init => LocalInv
<1>1. SUFFICES ASSUME Mine!Init PROVE LocalInv
  OBVIOUS
<1>2. shell \in [Slots -> Shells] /\ \A s \in Slots : shell[s].pc = "idle"
  BY <1>1 DEF Mine!Init, Shells
<1>3. docker \in [Slots -> Stacks]
  BY <1>1, EmptyStack DEF Mine!Init
<1>4. QED
  BY <1>2, <1>3 DEF LocalInv, StackSound, StackRuns, StackClean

\* A step on one stack leaves the others as they are.
LEMMA LocalTurns ==
    ASSUME LocalInv, NEW s \in Slots, NEW stack \in Stacks, NEW new \in Shells,
           docker' = [docker EXCEPT ![s] = stack], shell' = [shell EXCEPT ![s] = new],
           SameEars(s), StackSound(s)'
    PROVE  LocalInv'
<1>1. docker' \in [Slots -> Stacks] /\ shell' \in [Slots -> Shells]
  BY DEF LocalInv
<1>2. ASSUME NEW t \in Slots PROVE StackSound(t)'
  <2>1. CASE t = s
    BY <2>1
  <2>2. CASE t # s
    <3>1. docker'[t] = docker[t] /\ shell'[t] = shell[t] /\ StackSound(t)
      BY <2>2 DEF LocalInv
    <3>2. t \in deaf' <=> t \in deaf
      BY <2>2 DEF SameEars
    <3>3. QED
      BY <3>1, <3>2 DEF StackSound, StackRuns, StackClean, Joined, Mine!Nothing, Mine!Containers
  <2>3. QED
    BY <2>1, <2>2
<1>3. QED
  BY <1>1, <1>2 DEF LocalInv, Stacks, Shells, Mine!Containers

\* Stopping a stack empties it, unless docker did not hear, and no other: it is
\* found by its whole name.
LEMMA StopsItsOwn ==
    ASSUME LocalInv, NEW s \in Slots, Mine!StopStack(s)
    PROVE  /\ \E stack \in Stacks : docker' = [docker EXCEPT ![s] = stack]
                                    /\ (s \notin deaf' => stack = Mine!Nothing)
           /\ SameEars(s)
<1>1. PICK stays \in SUBSET {c \in Mine!Containers : docker[s][c] # "none"} :
         /\ docker' = [t \in Slots |-> IF t \in {s}
                          THEN [c \in Mine!Containers |-> IF c \in stays THEN docker[t][c] ELSE "none"]
                          ELSE docker[t]]
         /\ deaf' = IF stays # {} THEN deaf \union {s} ELSE deaf \ {s}
  BY DEF Mine!StopStack, Mine!Named
<1> DEFINE stack == [c \in Mine!Containers |-> IF c \in stays THEN docker[s][c] ELSE "none"]
<1>2. docker' = [docker EXCEPT ![s] = stack]
  BY <1>1 DEF LocalInv
<1>3. stack \in Stacks
  BY DEF LocalInv, Stacks
<1>4. stays = {} => stack = Mine!Nothing
  BY DEF Mine!Nothing
<1>5. s \notin deaf' => stays = {}
  BY <1>1
<1>6. SameEars(s)
  BY <1>1 DEF SameEars
<1> HIDE DEF stack
<1>7. QED
  BY <1>2, <1>3, <1>4, <1>5, <1>6

\* A terminal moves, and its stack is what the place asks for.
LEMMA LocalGoes ==
    ASSUME LocalInv, NEW s \in Slots, NEW to, Mine!Goes(s, to), NEW stack \in Stacks,
           docker' = [docker EXCEPT ![s] = stack], SameEars(s),
           \/ to \in {"idle", "asking", "stopping", "refused"}
           \/ to \in {"pulling", "initialising"} /\ (s \notin deaf' => stack = Mine!Nothing)
           \/ to = "starting" /\ (s \notin deaf' => \A c \in Joined : stack[c] = "none")
           \/ to = "failed" /\ (s \notin deaf' => \A c \in Joined : stack[c] # "running")
           \/ to = "up" /\ \A c \in Joined : stack[c] = "running"
    PROVE  LocalInv'
<1> DEFINE new == [shell[s] EXCEPT !.pc = to]
<1>1. shell[s] \in Shells /\ shell' = [shell EXCEPT ![s] = new]
  BY DEF LocalInv, Mine!Goes
<1>2. new \in Shells /\ new.pc = to
  BY <1>1 DEF Shells
<1> HIDE DEF new
<1>3. shell'[s].pc = to /\ docker'[s] = stack
  BY <1>1, <1>2 DEF LocalInv
<1>4. StackSound(s)'
  BY <1>3 DEF StackSound, StackRuns, StackClean, Joined, Mine!Nothing, Mine!Containers
<1>5. QED
  BY <1>1, <1>2, <1>4, LocalTurns

\* The steps that leave the stack as it is, up to the start of its containers.
LEMMA LocalWalks ==
    ASSUME LocalInv, NEW s \in Slots,
           Mine!Run(s) \/ Mine!Plan(s) \/ Mine!Pull(s) \/ Mine!Up(s) \/ Mine!Interrupt(s)
    PROVE  LocalInv'
<1>1. /\ docker[s] \in Stacks /\ docker' = [docker EXCEPT ![s] = docker[s]]
      /\ StackSound(s) /\ deaf' = deaf /\ SameEars(s)
  BY DEF LocalInv, SameEars, Mine!Run, Mine!Plan, Mine!Pull, Mine!Up, Mine!Interrupt
<1>2. CASE Mine!Run(s) \/ Mine!Plan(s) \/ Mine!Interrupt(s)
  <2>1. PICK to \in {"idle", "asking", "stopping", "refused"} : Mine!Goes(s, to)
    BY <1>2 DEF Mine!Run, Mine!Plan, Mine!Interrupt, Mine!At
  <2>2. QED
    BY <1>1, <2>1, LocalGoes
<1>3. CASE Mine!Pull(s)
  <2>1. Mine!Goes(s, "initialising") /\ (s \notin deaf => docker[s] = Mine!Nothing)
    BY <1>1, <1>3 DEF Mine!Pull, Mine!At, StackSound, StackClean
  <2>2. QED
    BY <1>1, <2>1, LocalGoes
<1>4. CASE Mine!Up(s)
  <2>1. Mine!Goes(s, "up") /\ \A c \in Joined : docker[s][c] = "running"
    BY <1>1, <1>4 DEF Mine!Up, Mine!At, StackSound, StackRuns
  <2>2. QED
    BY <1>1, <2>1, LocalGoes
<1>5. QED
  BY <1>2, <1>3, <1>4

\* The steps that stop the stack.
LEMMA LocalStops ==
    ASSUME LocalInv, NEW s \in Slots, Mine!Stop(s) \/ Mine!JoinFails(s) \/ Mine!StopCommand(s)
    PROVE  LocalInv'
<1>1. Mine!StopStack(s)
  BY DEF Mine!Stop, Mine!JoinFails, Mine!StopCommand
<1>s. PICK stack \in Stacks : /\ docker' = [docker EXCEPT ![s] = stack] /\ SameEars(s)
                              /\ (s \notin deaf' => stack = Mine!Nothing)
  BY <1>1, StopsItsOwn
<1>2. PICK to \in {"pulling", "failed", "idle"} : Mine!Goes(s, to)
  BY DEF Mine!Stop, Mine!JoinFails, Mine!StopCommand, Mine!At
<1>3. \A c \in Joined : Mine!Nothing[c] # "running"
  BY EmptyStack
<1>4. QED
  BY <1>s, <1>2, <1>3, LocalGoes

\* An initialiser meets a free name; it may be left where it is interrupted.
LEMMA LocalInitialises ==
    ASSUME Sidecars, LocalInv, NEW s \in Slots, Mine!Initialise(s)
    PROVE  LocalInv'
<1>1. /\ shell[s].pc = "initialising" /\ (s \notin deaf => docker[s] = Mine!Nothing)
      /\ docker[s] \in Stacks /\ docker \in [Slots -> Stacks] /\ deaf' = deaf /\ SameEars(s)
  BY DEF Mine!Initialise, Mine!At, LocalInv, StackSound, StackClean, SameEars
<1>2. CASE UNCHANGED docker
  <2>1. docker' = [docker EXCEPT ![s] = docker[s]]
    BY <1>1, <1>2
  <2>2. PICK to \in {"starting", "failed"} : Mine!Goes(s, to)
    BY DEF Mine!Initialise, Mine!At
  <2>3. s \notin deaf => \A c \in Joined : docker[s][c] = "none"
    BY <1>1, EmptyStack
  <2>4. QED
    BY <1>1, <2>1, <2>2, <2>3, LocalGoes
<1>3. CASE docker' = [docker EXCEPT ![s]["init"] = "running"] /\ Mine!Goes(s, "failed")
  <2> DEFINE stack == [docker[s] EXCEPT !["init"] = "running"]
  <2>1. docker' = [docker EXCEPT ![s] = stack]
    BY <1>1, <1>3
  <2>2. stack \in Stacks
    BY <1>1 DEF Stacks
  <2>3. \A c \in Joined : stack[c] = docker[s][c]
    BY <1>1 DEF Sidecars, Joined, Stacks, Mine!Containers
  <2>4. s \notin deaf => \A c \in Joined : docker[s][c] = "none"
    BY <1>1, EmptyStack
  <2> HIDE DEF stack
  <2>5. QED
    BY <1>1, <1>3, <2>1, <2>2, <2>3, <2>4, LocalGoes
<1>4. QED
  BY <1>2, <1>3 DEF Mine!Initialise, Mine!At

\* The main container runs, with all sidecars still to join, or stays created.
LEMMA LocalStarts ==
    ASSUME Sidecars, LocalInv, NEW s \in Slots, Mine!StartMain(s)
    PROVE  LocalInv'
<1>1. /\ shell[s].pc = "starting" /\ docker[s] \in Stacks /\ shell[s] \in Shells
      /\ (s \notin deaf => \A c \in Joined : docker[s][c] = "none")
      /\ docker \in [Slots -> Stacks] /\ shell \in [Slots -> Shells]
      /\ deaf' = deaf /\ SameEars(s)
  BY DEF Mine!StartMain, LocalInv, StackSound, StackClean, SameEars
<1>2. "main" \in Joined /\ "main" \in Mine!Containers /\ Joined \subseteq Mine!Containers
  BY DEF Joined, Mine!Containers
<1>3. CASE /\ docker' = [docker EXCEPT ![s]["main"] = "running"]
           /\ shell' = [shell EXCEPT ![s].pc = "joining", ![s].left = Parts]
  <2> DEFINE stack == [docker[s] EXCEPT !["main"] = "running"]
             new   == [shell[s] EXCEPT !.pc = "joining", !.left = Parts]
  <2>1. docker' = [docker EXCEPT ![s] = stack] /\ shell' = [shell EXCEPT ![s] = new]
    BY <1>1, <1>3
  <2>2. /\ stack \in Stacks /\ stack["main"] = "running"
        /\ s \notin deaf => \A c \in Joined : c # "main" => stack[c] = "none"
    BY <1>1, <1>2 DEF Stacks
  <2>3. new \in Shells /\ new.pc = "joining" /\ new.left = Parts
    BY <1>1 DEF Shells
  <2> HIDE DEF stack, new
  <2>4. docker'[s] = stack /\ shell'[s] = new
    BY <1>1, <2>1
  <2>5. \A c \in Joined : c = "main" <=> c \notin Parts
    BY DEF Joined, Sidecars
  <2>6. /\ \A c \in Joined \ shell'[s].left : docker'[s][c] = "running"
        /\ s \notin deaf' => \A c \in Joined \cap shell'[s].left : docker'[s][c] = "none"
    BY <1>1, <2>2, <2>3, <2>4, <2>5
  <2>7. StackSound(s)'
    BY <2>3, <2>4, <2>6 DEF StackSound, StackRuns, StackClean, Joined
  <2>8. QED
    BY <1>1, <2>1, <2>2, <2>3, <2>7, LocalTurns
<1>4. CASE docker' = [docker EXCEPT ![s]["main"] = "created"] /\ Mine!Goes(s, "failed")
  <2> DEFINE stack == [docker[s] EXCEPT !["main"] = "created"]
  <2>1. docker' = [docker EXCEPT ![s] = stack]
    BY <1>1, <1>4
  <2>2. stack \in Stacks /\ (s \notin deaf => \A c \in Joined : stack[c] # "running")
    BY <1>1, <1>2 DEF Stacks
  <2> HIDE DEF stack
  <2>3. QED
    BY <1>1, <1>4, <2>1, <2>2, LocalGoes
<1>5. CASE docker' = docker /\ docker[s]["main"] # "none" /\ Mine!Goes(s, "failed")
  <2>1. docker' = [docker EXCEPT ![s] = docker[s]] /\ s \in deaf
    BY <1>1, <1>2, <1>5
  <2>2. QED
    BY <1>1, <1>5, <2>1, LocalGoes
<1>6. QED
  BY <1>3, <1>4, <1>5 DEF Mine!StartMain, Mine!Free, Mine!Becomes

\* A sidecar joins what runs.
LEMMA LocalJoins ==
    ASSUME Sidecars, LocalInv, NEW s \in Slots, Mine!Join(s)
    PROVE  LocalInv'
<1>1. PICK c \in shell[s].left :
         /\ shell[s].pc = "joining"
         /\ docker' = [docker EXCEPT ![s][c] = "running"]
         /\ shell' = [shell EXCEPT ![s].left = @ \ {c}]
         /\ deaf' = deaf
  BY DEF Mine!Join, Mine!Becomes
<1>2. /\ docker[s] \in Stacks /\ shell[s] \in Shells
      /\ \A d \in Joined \ shell[s].left : docker[s][d] = "running"
      /\ s \notin deaf => \A d \in Joined \cap shell[s].left : docker[s][d] = "none"
      /\ docker \in [Slots -> Stacks] /\ shell \in [Slots -> Shells] /\ SameEars(s)
  BY <1>1 DEF LocalInv, StackSound, StackRuns, StackClean, SameEars
<1>3. Joined \subseteq Mine!Containers /\ c \in Joined
  BY <1>2 DEF Joined, Mine!Containers, Shells
<1> DEFINE stack == [docker[s] EXCEPT ![c] = "running"]
           new   == [shell[s] EXCEPT !.left = shell[s].left \ {c}]
<1>4. docker' = [docker EXCEPT ![s] = stack] /\ shell' = [shell EXCEPT ![s] = new]
  BY <1>1, <1>2
<1>5. stack \in Stacks /\ \A d \in Joined : stack[d] = IF d = c THEN "running" ELSE docker[s][d]
  BY <1>2, <1>3 DEF Stacks
<1>6. new \in Shells /\ new.pc = "joining" /\ new.left = shell[s].left \ {c}
  BY <1>1, <1>2 DEF Shells
<1> HIDE DEF stack, new
<1>7. docker'[s] = stack /\ shell'[s] = new
  BY <1>2, <1>4
<1>8. /\ \A d \in Joined \ shell'[s].left : docker'[s][d] = "running"
      /\ s \notin deaf' => \A d \in Joined \cap shell'[s].left : docker'[s][d] = "none"
  BY <1>1, <1>2, <1>5, <1>6, <1>7
<1>9. StackSound(s)'
  BY <1>6, <1>7, <1>8 DEF StackSound, StackRuns, StackClean, Joined
<1>10. QED
  BY <1>2, <1>4, <1>5, <1>6, <1>9, LocalTurns

\* No step of the module disturbs the invariant.
LEMMA LocalStep == Sidecars /\ LocalInv /\ [Mine!Next]_Mine!localVars => LocalInv'
<1>1. SUFFICES ASSUME Sidecars, LocalInv, [Mine!Next]_Mine!localVars PROVE LocalInv'
  OBVIOUS
<1>2. CASE UNCHANGED Mine!localVars \/ Mine!Login \/ Mine!Revoke \/ Mine!PassChanges
  <2>1. UNCHANGED <<docker, shell, deaf>>
    BY <1>2 DEF Mine!localVars, Mine!Login, Mine!Revoke, Mine!PassChanges
  <2>2. QED
    BY <1>1, <2>1 DEF LocalInv, StackSound, StackRuns, StackClean, Stacks, Shells, Joined, Mine!Nothing, Mine!Containers
<1>3. QED
  BY <1>1, <1>2, LocalWalks, LocalStops, LocalInitialises, LocalStarts, LocalJoins DEF Mine!Next

\* What "run" said is up is up, whole, until its own terminal says otherwise; and
\* where docker did as it was last told, a run that failed by itself leaves nothing
\* running but its initialiser, and none meets a name of its own (stop_stack by
\* whole name).  A run that is interrupted may leave a part of its stack.
THEOREM UpIsWhole == Sidecars /\ Mine!Spec => []Mine!StacksAreWhole
<1>1. SUFFICES ASSUME Sidecars PROVE Mine!Spec => []Mine!StacksAreWhole
  OBVIOUS
<1>2. LocalInv /\ [Mine!Next]_Mine!localVars => LocalInv'
  BY <1>1, LocalStep
<1>3. LocalInv => Mine!StacksAreWhole
  <2>1. SUFFICES ASSUME NEW s \in Slots, StackRuns(s), s \notin deaf => StackClean(s)
                 PROVE  /\ shell[s].pc = "up" => \A c \in Joined : docker[s][c] = "running"
                        /\ s \notin deaf =>
                              /\ shell[s].pc = "failed" => \A c \in Joined : docker[s][c] # "running"
                              /\ shell[s].pc = "initialising" => docker[s]["init"] = "none"
                              /\ shell[s].pc = "starting" => docker[s]["main"] = "none"
    BY DEF LocalInv, StackSound, Joined, Mine!StacksAreWhole, Mine!Free
  <2>2. s \notin deaf /\ shell[s].pc = "initialising" => docker[s]["init"] = "none"
    BY <2>1, EmptyStack DEF StackClean
  <2>3. "main" \in Joined
    BY DEF Joined
  <2>4. QED
    BY <2>1, <2>2, <2>3 DEF StackRuns, StackClean
<1>4. QED
  BY <1>2, <1>3, LocalBegins, PTL DEF Mine!Spec

\* A run without the right to it changes nothing of what runs: it ends before
\* the stack is stopped, and nobody else's steps touch that stack (cmd_run).
THEOREM RefusedIsHarmless == Sidecars /\ Mine!Spec => Mine!RefusedTouchesNothing
<1>1. SUFFICES ASSUME Sidecars PROVE Mine!Spec => Mine!RefusedTouchesNothing
  OBVIOUS
<1>2. LocalInv /\ [Mine!Next]_Mine!localVars => LocalInv'
  BY <1>1, LocalStep
<1>3. ASSUME LocalInv, [Mine!Next]_Mine!localVars PROVE Mine!RefusedLetsBe
  <2>1. SUFFICES ASSUME NEW s \in Slots, shell'[s].pc = "refused", docker'[s] # docker[s] PROVE FALSE
    BY DEF Mine!RefusedLetsBe
  <2>2. /\ docker \in [Slots -> Stacks] /\ shell \in [Slots -> Shells]
    BY <1>3 DEF LocalInv
  <2>3. PICK t \in Slots :
           \/ Mine!Run(t) \/ Mine!Plan(t) \/ Mine!Stop(t) \/ Mine!Pull(t) \/ Mine!Initialise(t)
           \/ Mine!StartMain(t) \/ Mine!Join(t) \/ Mine!JoinFails(t) \/ Mine!Up(t)
           \/ Mine!Interrupt(t) \/ Mine!StopCommand(t)
    BY <1>3, <2>1 DEF Mine!Next, Mine!localVars, Mine!Login, Mine!Revoke, Mine!PassChanges
  <2>4. CASE Mine!Stop(t) \/ Mine!JoinFails(t) \/ Mine!StopCommand(t)
    <3>1. \E stack \in Stacks : docker' = [docker EXCEPT ![t] = stack]
      BY <1>3, <2>4, StopsItsOwn DEF Mine!Stop, Mine!JoinFails, Mine!StopCommand
    <3>2. t = s
      BY <2>1, <2>2, <3>1
    <3>3. shell'[s].pc # "refused"
      BY <2>2, <2>4, <3>2 DEF Mine!Stop, Mine!JoinFails, Mine!StopCommand, Mine!At, Mine!Goes, Shells
    <3>4. QED
      BY <2>1, <3>3
  <2>5. CASE Mine!Initialise(t) \/ Mine!StartMain(t) \/ Mine!Join(t)
    <3>1. t = s
      BY <2>1, <2>2, <2>5 DEF Mine!Initialise, Mine!StartMain, Mine!Join, Mine!Becomes
    <3>2. shell'[s].pc # "refused"
      BY <2>2, <2>5, <3>1 DEF Mine!Initialise, Mine!StartMain, Mine!Join, Mine!At, Mine!Goes, Shells
    <3>3. QED
      BY <2>1, <3>2
  <2>6. CASE Mine!Run(t) \/ Mine!Plan(t) \/ Mine!Pull(t) \/ Mine!Up(t) \/ Mine!Interrupt(t)
    BY <2>1, <2>6 DEF Mine!Run, Mine!Plan, Mine!Pull, Mine!Up, Mine!Interrupt
  <2>7. QED
    BY <2>3, <2>4, <2>5, <2>6
<1>4. QED
  BY <1>2, <1>3, LocalBegins, PTL DEF Mine!Spec, Mine!RefusedTouchesNothing

-----------------------------------------------------------------------------
(* SelfHost.                                                                *)

CONSTANTS Calls, Names
VARIABLES compose, config, keyfile, env, dot, state, call, stacks, identity
Setup == INSTANCE SelfHost WITH secret <- keyfile

HostPlaces == {"idle", "check", "copy", "read", "mount", "config", "secret", "env",
               "dot", "state", "restore", "docker", "done"}
HostCalls  == [cmd : Setup!Commands \union {"none"}, name : Names \union {"none"},
               mode : Setup!Modes \union {"none"}, pc : HostPlaces,
               read : {"none", "mounted", "twice"}]
HostStates == [author : Calls, name : Names \union {"none"}, mode : Setup!Modes \union {"none"}]

HostTypes ==
    /\ call \in [Calls -> HostCalls]
    /\ state \in HostStates \union {Setup!NoState}

\* A call behind the copy of the configuration made that copy, and every file
\* that it has written since is its own; one that goes to docker bears the name.
WritesItsOwn(c) ==
    /\ call[c].pc \in {"secret", "env", "dot", "state"} => config = c
    /\ call[c].pc \in {"env", "dot", "state"} => keyfile = c
    /\ call[c].pc \in {"dot", "state"} => env = c
    /\ call[c].pc = "docker" => state # Setup!NoState /\ call[c].name = state.name

\* The author of the state wrote the other files, and writes no more.
Authored ==
    /\ state # Setup!NoState =>
          /\ config = state.author /\ keyfile = state.author /\ env = state.author
          /\ call[state.author].pc \in {"restore", "docker", "done"}
    /\ state = Setup!NoState => stacks = {}
    /\ stacks \subseteq {state.name}

HostInv == HostTypes /\ Authored /\ \A c \in Calls : WritesItsOwn(c)

\* At the start the directory is empty.
LEMMA HostBegins == Setup!Init => HostInv
<1>1. SUFFICES ASSUME Setup!Init PROVE HostInv
  OBVIOUS
<1>2. Setup!NotYet \in HostCalls /\ Setup!NotYet.pc = "idle"
  BY DEF Setup!NotYet, HostCalls, HostPlaces
<1>3. HostTypes
  BY <1>1, <1>2 DEF Setup!Init, HostTypes
<1>4. Authored
  BY <1>1 DEF Setup!Init, Authored
<1>5. \A c \in Calls : WritesItsOwn(c)
  BY <1>1, <1>2 DEF Setup!Init, WritesItsOwn
<1>6. QED
  BY <1>3, <1>4, <1>5 DEF HostInv

\* A call that moves keeps its name, and the other calls stay where they are.
LEMMA HostMoves ==
    ASSUME HostInv, NEW c \in Calls, NEW to \in HostPlaces, Setup!Goes(c, to)
    PROVE  /\ call' \in [Calls -> HostCalls]
           /\ call'[c].pc = to /\ call'[c].name = call[c].name
           /\ \A d \in Calls : d # c => call'[d] = call[d]
BY DEF HostInv, HostTypes, HostCalls, Setup!Goes

\* The files that count, and what docker runs, stay as they are; the call that
\* moves does not come to a place where it would write them.
LEMMA HostQuiet ==
    ASSUME HostInv, NEW c \in Calls, UNCHANGED <<config, keyfile, env, state, stacks>>,
           call' \in [Calls -> HostCalls], \A d \in Calls : d # c => call'[d] = call[d],
           \/ call'[c].pc \in {"check", "copy", "read", "mount", "config", "restore", "done"}
           \/ call'[c].pc = "docker" /\ state # Setup!NoState /\ call'[c].name = state.name,
           call[c].pc \in {"restore", "docker", "done"} =>
              call'[c].pc \in {"restore", "docker", "done"}
    PROVE  HostInv'
<1>1. HostTypes'
  BY DEF HostInv, HostTypes, HostStates, HostCalls, HostPlaces, Setup!Commands, Setup!Modes,
         Setup!NoState
<1>2. ASSUME NEW d \in Calls PROVE WritesItsOwn(d)'
  <2>1. WritesItsOwn(d)
    BY DEF HostInv
  <2>2. CASE d = c
    BY <2>2 DEF WritesItsOwn, Setup!NoState
  <2>3. CASE d # c
    BY <2>1, <2>3 DEF WritesItsOwn, Setup!NoState
  <2>4. QED
    BY <2>2, <2>3
<1>3. Authored'
  <2>1. state # Setup!NoState => call'[state.author].pc \in {"restore", "docker", "done"}
    <3>1. SUFFICES ASSUME state # Setup!NoState
                   PROVE  call'[state.author].pc \in {"restore", "docker", "done"}
      OBVIOUS
    <3>2. state.author \in Calls /\ call[state.author].pc \in {"restore", "docker", "done"}
      BY <3>1 DEF HostInv, HostTypes, Authored, HostStates
    <3>3. QED
      BY <3>2
  <2>2. QED
    BY <2>1 DEF HostInv, Authored, Setup!NoState
<1>4. QED
  BY <1>1, <1>2, <1>3 DEF HostInv

\* While somebody is at a place where files are written, there is no state.
LEMMA NotYetThere ==
    ASSUME HostInv, NEW c \in Calls, call[c].pc \in {"secret", "env", "dot", "state"}
    PROVE  state = Setup!NoState
<1>1. config = c
  BY DEF HostInv, WritesItsOwn
<1>2. SUFFICES ASSUME state # Setup!NoState PROVE FALSE
  OBVIOUS
<1>3. state.author = c
  BY <1>1, <1>2 DEF HostInv, Authored
<1>4. QED
  BY <1>2, <1>3 DEF HostInv, Authored

\* A step that writes one of the files before there is a state: others are not
\* disturbed, for none of them is behind the copy of the configuration.
LEMMA HostWrites ==
    ASSUME HostInv, NEW c \in Calls, UNCHANGED <<state, stacks>>, state = Setup!NoState,
           call' \in [Calls -> HostCalls], \A d \in Calls : d # c => call'[d] = call[d],
           \A d \in Calls : d # c => call[d].pc \notin {"secret", "env", "dot", "state"},
           WritesItsOwn(c)'
    PROVE  HostInv'
<1>1. HostTypes'
  BY DEF HostInv, HostTypes, HostStates, HostCalls, HostPlaces, Setup!Commands, Setup!Modes,
         Setup!NoState
<1>2. ASSUME NEW d \in Calls, d # c PROVE WritesItsOwn(d)'
  BY <1>2 DEF HostInv, WritesItsOwn
<1>3. Authored'
  BY DEF HostInv, Authored, Setup!NoState
<1>4. QED
  BY <1>1, <1>2, <1>3 DEF HostInv

\* Whoever is behind the copy of the configuration is there alone.
LEMMA AloneBehind ==
    ASSUME HostInv, NEW c \in Calls, call[c].pc \in {"secret", "env", "dot", "state"}
    PROVE  \A d \in Calls : d # c => call[d].pc \notin {"secret", "env", "dot", "state"}
BY DEF HostInv, WritesItsOwn

\* The steps that lead up to the copy of the configuration, and those that read
\* the state back, are refused or are cut off.
LEMMA HostReads ==
    ASSUME HostInv, NEW c \in Calls,
           \/ Setup!Begin(c) \/ Setup!Check(c) \/ Setup!CopyTemplates(c) \/ Setup!ReadCompose(c)
           \/ Setup!WriteCompose(c) \/ Setup!Restore(c) \/ Setup!NotInitialized(c)
           \/ Setup!Killed(c)
    PROVE  HostInv'
<1>1. call \in [Calls -> HostCalls]
  BY DEF HostInv, HostTypes
<1>2. CASE Setup!Begin(c)
  <2>1. PICK cmd \in Setup!Commands, n \in Names, m \in Setup!Modes,
             pc \in {"check", "restore"} :
          call' = [call EXCEPT ![c] =
             [cmd |-> cmd, name |-> n, mode |-> m, read |-> "none", pc |-> pc]]
    BY <1>2 DEF Setup!Begin
  <2> DEFINE new == [cmd |-> cmd, name |-> n, mode |-> m, read |-> "none", pc |-> pc]
  <2>2. new \in HostCalls /\ new.pc = pc
    BY DEF HostCalls, HostPlaces
  <2>3. call' = [call EXCEPT ![c] = new]
    BY <2>1
  <2> HIDE DEF new
  <2>4. /\ call' \in [Calls -> HostCalls] /\ call'[c].pc \in {"check", "restore"}
        /\ \A d \in Calls : d # c => call'[d] = call[d]
    BY <1>1, <2>2, <2>3
  <2>5. call[c].pc = "idle" /\ UNCHANGED <<config, keyfile, env, state, stacks>>
    BY <1>2 DEF Setup!Begin, Setup!Files
  <2>6. QED
    BY <2>4, <2>5, HostQuiet
<1>3. CASE Setup!ReadCompose(c)
  <2>1. call[c].pc = "read" /\ UNCHANGED <<config, keyfile, env, state, stacks>>
    BY <1>3 DEF Setup!ReadCompose, Setup!Files
  <2>2. PICK read \in {"mounted", "twice"} :
          call' = [call EXCEPT ![c].pc = "mount", ![c].read = read]
    BY <1>3 DEF Setup!ReadCompose
  <2> DEFINE new == [call[c] EXCEPT !.pc = "mount", !.read = read]
  <2>3. call' = [call EXCEPT ![c] = new]
    BY <1>1, <2>2
  <2>4. new \in HostCalls /\ new.pc = "mount"
    BY <1>1 DEF HostCalls, HostPlaces
  <2> HIDE DEF new
  <2>5. /\ call' \in [Calls -> HostCalls] /\ call'[c].pc = "mount"
        /\ \A d \in Calls : d # c => call'[d] = call[d]
    BY <1>1, <2>3, <2>4
  <2>6. QED
    BY <2>1, <2>5, HostQuiet
<1>4. CASE Setup!Restore(c)
  <2>1. PICK pc \in {"done", "docker"} :
          call' = [call EXCEPT ![c].name = state.name, ![c].mode = state.mode, ![c].pc = pc]
    BY <1>4 DEF Setup!Restore
  <2>2. state # Setup!NoState /\ UNCHANGED <<config, keyfile, env, state, stacks>>
    BY <1>4 DEF Setup!Restore, Setup!Files
  <2>3. state.name \in Names \union {"none"} /\ state.mode \in Setup!Modes \union {"none"}
    BY <2>2 DEF HostInv, HostTypes, HostStates
  <2> DEFINE new == [call[c] EXCEPT !.name = state.name, !.mode = state.mode, !.pc = pc]
  <2>4. call' = [call EXCEPT ![c] = new]
    BY <1>1, <2>1
  <2>5. new \in HostCalls /\ new.pc = pc /\ new.name = state.name
    BY <1>1, <2>3 DEF HostCalls, HostPlaces
  <2> HIDE DEF new
  <2>6. /\ call' \in [Calls -> HostCalls] /\ call'[c].pc = pc /\ call'[c].name = state.name
        /\ \A d \in Calls : d # c => call'[d] = call[d]
    BY <1>1, <2>4, <2>5
  <2>7. QED
    BY <2>2, <2>6, HostQuiet
<1>5. CASE \/ Setup!Check(c) \/ Setup!CopyTemplates(c) \/ Setup!WriteCompose(c)
           \/ Setup!NotInitialized(c) \/ Setup!Killed(c)
  <2>1. PICK to \in {"copy", "read", "config", "done"} :
          /\ Setup!Goes(c, to)
          /\ call[c].pc \in {"restore", "docker", "done"} => to = "done"
    BY <1>5 DEF Setup!Check, Setup!CopyTemplates, Setup!WriteCompose, Setup!NotInitialized,
                Setup!Killed, Setup!At
  <2>2. UNCHANGED <<config, keyfile, env, state, stacks>>
    BY <1>5 DEF Setup!Check, Setup!CopyTemplates, Setup!WriteCompose, Setup!NotInitialized,
                Setup!Killed, Setup!Files
  <2>3. to \in HostPlaces
    BY DEF HostPlaces
  <2>4. QED
    BY <2>1, <2>2, <2>3, HostMoves, HostQuiet
<1>6. QED
  BY <1>2, <1>3, <1>4, <1>5

\* The configuration is copied by the first that comes: the copy fails where
\* there is one.
LEMMA HostCopies ==
    ASSUME "none" \notin Calls, HostInv, NEW c \in Calls, Setup!CopyConfig(c)
    PROVE  HostInv'
<1>1. "secret" \in HostPlaces /\ "done" \in HostPlaces
  BY DEF HostPlaces
<1>2. CASE config = "none"
  <2>1. /\ call[c].pc = "config" /\ Setup!Goes(c, "secret") /\ config' = c
        /\ UNCHANGED <<state, stacks>>
    BY <1>2 DEF Setup!CopyConfig, Setup!At
  <2>2. \A d \in Calls : call[d].pc \notin {"secret", "env", "dot", "state"}
    BY <1>2 DEF HostInv, WritesItsOwn
  <2>3. state = Setup!NoState
    BY <1>2 DEF HostInv, HostTypes, Authored, HostStates
  <2>4. WritesItsOwn(c)'
    BY <1>1, <2>1, HostMoves DEF WritesItsOwn
  <2>5. QED
    BY <1>1, <2>1, <2>2, <2>3, <2>4, HostMoves, HostWrites
<1>3. CASE config # "none"
  <2>1. /\ call[c].pc = "config" /\ Setup!Goes(c, "done")
        /\ UNCHANGED <<config, keyfile, env, state, stacks>>
    BY <1>3 DEF Setup!CopyConfig, Setup!At
  <2>2. QED
    BY <1>1, <2>1, HostMoves, HostQuiet
<1>4. QED
  BY <1>2, <1>3

\* The files after it, up to the state.
LEMMA HostFiles ==
    ASSUME HostInv, NEW c \in Calls,
           Setup!WriteSecret(c) \/ Setup!WriteEnv(c) \/ Setup!MakeDot(c)
    PROVE  HostInv'
<1>1. "env" \in HostPlaces /\ "dot" \in HostPlaces /\ "state" \in HostPlaces
  BY DEF HostPlaces
<1>2. UNCHANGED <<config, state, stacks>>
  BY DEF Setup!WriteSecret, Setup!WriteEnv, Setup!MakeDot
<1>3. /\ call[c].pc \in {"secret", "env", "dot", "state"} /\ WritesItsOwn(c)
      /\ \E to \in {"env", "dot", "state"} : Setup!Goes(c, to)
  BY DEF Setup!WriteSecret, Setup!WriteEnv, Setup!MakeDot, Setup!At, HostInv
<1>4. state = Setup!NoState
  BY <1>3, NotYetThere
<1>5. WritesItsOwn(c)'
  <2>1. CASE Setup!WriteSecret(c)
    BY <1>1, <1>2, <1>3, <2>1, HostMoves DEF Setup!WriteSecret, Setup!At, WritesItsOwn
  <2>2. CASE Setup!WriteEnv(c)
    BY <1>1, <1>2, <1>3, <2>2, HostMoves DEF Setup!WriteEnv, Setup!At, WritesItsOwn
  <2>3. CASE Setup!MakeDot(c)
    BY <1>1, <1>2, <1>3, <2>3, HostMoves DEF Setup!MakeDot, Setup!At, WritesItsOwn
  <2>4. QED
    BY <2>1, <2>2, <2>3
<1>6. \A d \in Calls : d # c => call[d].pc \notin {"secret", "env", "dot", "state"}
  BY <1>3, AloneBehind
<1>7. QED
  BY <1>1, <1>2, <1>3, <1>4, <1>5, <1>6, HostMoves, HostWrites

\* The state is written last, by the call that wrote all the other files.
LEMMA HostWritesState ==
    ASSUME "none" \notin Calls, HostInv, NEW c \in Calls, Setup!WriteState(c)
    PROVE  HostInv'
<1>1. /\ call[c].pc = "state" /\ UNCHANGED <<config, keyfile, env, stacks>>
      /\ state' = [author |-> c, name |-> call[c].name, mode |-> call[c].mode]
  BY DEF Setup!WriteState, Setup!At
<1>2. PICK to \in {"done", "restore"} : Setup!Goes(c, to)
  BY DEF Setup!WriteState, Setup!At
<1>3. to \in HostPlaces
  BY DEF HostPlaces
<1>4. /\ call' \in [Calls -> HostCalls] /\ call'[c].pc = to
      /\ \A d \in Calls : d # c => call'[d] = call[d]
  BY <1>2, <1>3, HostMoves
<1>5. state = Setup!NoState
  BY <1>1, NotYetThere
<1>6. config = c /\ keyfile = c /\ env = c /\ stacks = {}
  BY <1>1, <1>5 DEF HostInv, WritesItsOwn, Authored
<1>7. state' \in HostStates /\ state'.author = c
  BY <1>1 DEF HostStates, HostInv, HostTypes, HostCalls
<1>8. state' # Setup!NoState
  <2>1. Setup!NoState.author = "none"
    BY DEF Setup!NoState
  <2>2. QED
    BY <1>7, <2>1
<1>9. \A d \in Calls : d # c => call[d].pc \notin {"secret", "env", "dot", "state"}
  BY <1>1, AloneBehind
<1>10. \A d \in Calls : call[d].pc # "docker"
  BY <1>5 DEF HostInv, WritesItsOwn
<1>11. HostTypes'
  BY <1>4, <1>7 DEF HostTypes, HostStates, HostCalls, HostPlaces, Setup!Commands, Setup!Modes
<1>12. Authored'
  BY <1>1, <1>4, <1>6, <1>7, <1>8 DEF Authored, Setup!NoState
<1>13. ASSUME NEW d \in Calls PROVE WritesItsOwn(d)'
  <2>1. call'[d].pc \notin {"secret", "env", "dot", "state", "docker"}
    BY <1>4, <1>9, <1>10
  <2>2. QED
    BY <2>1 DEF WritesItsOwn
<1>14. QED
  BY <1>11, <1>12, <1>13 DEF HostInv

\* Docker is given the name in the state.
LEMMA HostDocker ==
    ASSUME HostInv, NEW c \in Calls, Setup!Docker(c)
    PROVE  HostInv'
<1>1. /\ call[c].pc = "docker" /\ Setup!Goes(c, "done") /\ UNCHANGED <<config, keyfile, env, state>>
      /\ stacks' \subseteq stacks \union {call[c].name}
  BY DEF Setup!Docker, Setup!At, Setup!Files
<1>2. state # Setup!NoState /\ call[c].name = state.name
  BY <1>1 DEF HostInv, WritesItsOwn
<1>3. "done" \in HostPlaces
  BY DEF HostPlaces
<1>4. /\ call' \in [Calls -> HostCalls] /\ call'[c].pc = "done"
      /\ \A d \in Calls : d # c => call'[d] = call[d]
  BY <1>1, <1>3, HostMoves
<1>5. HostTypes'
  BY <1>1, <1>4 DEF HostInv, HostTypes, HostStates, HostCalls, HostPlaces, Setup!Commands,
                    Setup!Modes, Setup!NoState
<1>6. Authored'
  <2>1. call'[state.author].pc \in {"restore", "docker", "done"}
    <3>1. state.author \in Calls /\ call[state.author].pc \in {"restore", "docker", "done"}
      BY <1>2 DEF HostInv, HostTypes, Authored, HostStates
    <3>2. QED
      BY <1>4, <3>1
  <2>2. QED
    BY <1>1, <1>2, <2>1 DEF HostInv, Authored, Setup!NoState
<1>7. ASSUME NEW d \in Calls PROVE WritesItsOwn(d)'
  BY <1>1, <1>4 DEF HostInv, WritesItsOwn, Setup!NoState
<1>8. QED
  BY <1>5, <1>6, <1>7 DEF HostInv

\* No step of the module disturbs the invariant.
LEMMA HostStep == "none" \notin Calls /\ HostInv /\ [Setup!Next]_Setup!hostVars => HostInv'
<1>1. SUFFICES ASSUME "none" \notin Calls, HostInv, [Setup!Next]_Setup!hostVars PROVE HostInv'
  OBVIOUS
<1>2. CASE UNCHANGED Setup!hostVars \/ Setup!Edit
  <2>1. UNCHANGED <<config, keyfile, env, state, call, stacks>>
    BY <1>2 DEF Setup!hostVars, Setup!Edit, Setup!Files
  <2>2. HostTypes'
    BY <1>1, <2>1 DEF HostInv, HostTypes, HostStates, HostCalls, HostPlaces, Setup!Commands,
                      Setup!Modes, Setup!NoState
  <2>3. Authored'
    BY <1>1, <2>1 DEF HostInv, Authored, Setup!NoState
  <2>4. \A c \in Calls : WritesItsOwn(c)'
    BY <1>1, <2>1 DEF HostInv, WritesItsOwn, Setup!NoState
  <2>5. QED
    BY <2>2, <2>3, <2>4 DEF HostInv
<1>3. QED
  BY <1>1, <1>2, HostReads, HostCopies, HostFiles, HostWritesState, HostDocker
     DEF Setup!Next, Setup!Step, Setup!Initialize

\* However many calls begin on one empty directory, and wherever they are killed,
\* the files of one that counts as initialized come from one call, and what
\* docker runs from it bears the name in its state (initialize, restore_deployment).
THEOREM FilesOfOneCall == "none" \notin Calls /\ Setup!Spec => []Setup!OneDeployment
<1>1. SUFFICES ASSUME "none" \notin Calls PROVE Setup!Spec => []Setup!OneDeployment
  OBVIOUS
<1>2. HostInv /\ [Setup!Next]_Setup!hostVars => HostInv'
  BY <1>1, HostStep
<1>3. HostInv => Setup!OneDeployment
  BY DEF HostInv, Authored, Setup!OneDeployment
<1>4. QED
  BY <1>2, <1>3, HostBegins, PTL DEF Setup!Spec

-----------------------------------------------------------------------------
(* SignIn.                                                                  *)

CONSTANTS Products, MaxTries, MaxWrong, MaxSetups, MaxRounds, Models, Defaults, MaxRebuilds
VARIABLES product, app, account, wrong, saved, conf, mark, script, stored, chosen, rebuilds
Wall == INSTANCE SignIn

\* What is provisioned by default is on offer.
Offered == Defaults \subseteq Models

SignTypes ==
    /\ script \in [step : Wall!Steps, tries : Int, left : SUBSET Models]
    /\ stored \in [Models -> {"none", "old", "now"}]

\* Which defaults are still to be written the script knows.
SignInv ==
    /\ SignTypes
    /\ Wall!DefaultsAreCurrent
    /\ script.step = "defaults" => \A m \in Defaults \ script.left : stored[m] = "now"

\* The scripts begin, with nothing in Dify.
LEMMA SignBegins == Wall!Init => SignInv
BY DEF Wall!Init, SignInv, SignTypes, Wall!Fresh, Wall!Steps, Wall!PassesOn,
   Wall!DefaultsAreCurrent

\* A step to a place where nothing is said of the defaults.
LEMMA SignGoes ==
    ASSUME SignInv, NEW step \in Wall!Steps \ {"defaults", "rest"}, Wall!Goto(step),
           UNCHANGED stored
    PROVE  SignInv'
BY DEF SignInv, SignTypes, Wall!Goto, Wall!Fresh, Wall!Steps, Wall!DefaultsAreCurrent

\* A round more, and whatever else leaves the script where it is.
LEMMA SignStays ==
    ASSUME SignInv, script' \in [step : Wall!Steps, tries : Int, left : SUBSET Models],
           script'.step = script.step, script'.left = script.left,
           UNCHANGED stored
    PROVE  SignInv'
BY DEF SignInv, SignTypes, Wall!DefaultsAreCurrent

LEMMA SignAgain ==
    ASSUME SignInv, script' = [script EXCEPT !.tries = @ + 1] \/ script' = script
    PROVE  /\ script' \in [step : Wall!Steps, tries : Int, left : SUBSET Models]
           /\ script'.step = script.step /\ script'.left = script.left
BY DEF SignInv, SignTypes

\* A model is written while the script is at the defaults or at the others.
LEMMA SignWrites ==
    ASSUME SignInv, NEW m \in Models, NEW told, Wall!Written(m, told)
    PROVE  /\ stored' \in [Models -> {"none", "old", "now"}]
           /\ \A n \in Models : stored'[n] = IF n = m THEN "now" ELSE stored[n]
BY DEF SignInv, SignTypes, Wall!Written

\* Dify's script: the login, its refusal and the marker.
LEMMA SignDify ==
    ASSUME SignInv, Wall!DifyLogin \/ Wall!DifyRefused \/ Wall!DifyMark
    PROVE  SignInv'
<1>1. CASE Wall!DifyLogin
  <2>1. /\ Wall!Goto("mark") /\ UNCHANGED stored
    BY <1>1 DEF Wall!DifyLogin
  <2>2. QED
    BY <2>1, SignGoes DEF Wall!Steps
<1>2. CASE Wall!DifyRefused
  <2>1. /\ script' = [script EXCEPT !.tries = IF @ < MaxTries THEN @ + 1 ELSE @]
        /\ UNCHANGED stored
    BY <1>2 DEF Wall!DifyRefused
  <2>2. script' = [script EXCEPT !.tries = @ + 1] \/ script' = script
    BY <2>1 DEF SignInv, SignTypes
  <2>3. QED
    BY <2>1, <2>2, SignAgain, SignStays
<1>3. CASE Wall!DifyMark
  <2>1. Wall!Goto("plugin") /\ UNCHANGED stored
    BY <1>3 DEF Wall!DifyMark, Wall!Mark
  <2>2. QED
    BY <2>1, SignGoes DEF Wall!Steps
<1>4. QED
  BY <1>1, <1>2, <1>3

\* Dify's script: the plug-in and the models.
LEMMA SignModels ==
    ASSUME Offered, SignInv,
           Wall!DifyPlugin \/ Wall!DifyDefault \/ Wall!DifyNotYet \/ Wall!DifyRest
    PROVE  SignInv'
<1>2. script.step \in {"plugin", "defaults", "rest"}
  BY DEF Wall!DifyPlugin, Wall!DifyDefault, Wall!DifyNotYet, Wall!DifyRest
<1>3. CASE Wall!Goto("sleep") /\ UNCHANGED stored
  BY <1>2, <1>3, SignGoes DEF Wall!Steps
<1>4. CASE Wall!DifyPlugin
  <2>1. CASE script' = [Wall!Fresh EXCEPT !.step = "defaults", !.left = Defaults]
    <3>1. UNCHANGED stored
      BY <1>4 DEF Wall!DifyPlugin
    <3>2. /\ script' \in [step : Wall!Steps, tries : Int, left : SUBSET Models]
          /\ script'.step = "defaults" /\ script'.left = Defaults
      <4>1. script' = [step |-> "defaults", tries |-> 0, left |-> Defaults]
        BY <2>1 DEF Wall!Fresh
      <4>2. QED
        BY <4>1 DEF Wall!Steps, Offered
    <3>3. QED
      BY <1>2, <3>1, <3>2 DEF SignInv, SignTypes, Wall!DefaultsAreCurrent
  <2>2. QED
    BY <1>3, <1>4, <2>1 DEF Wall!DifyPlugin
<1>5. CASE Wall!DifyNotYet
  <2>1. CASE Wall!Again
    <3>1. UNCHANGED stored
      BY <1>5 DEF Wall!DifyNotYet
    <3>2. QED
      BY <2>1, <3>1, SignAgain, SignStays DEF Wall!Again
  <2>2. QED
    BY <1>3, <1>5, <2>1 DEF Wall!DifyNotYet
<1>6. CASE Wall!DifyDefault
  <2>1. PICK m \in script.left, told \in BOOLEAN :
           /\ Wall!Written(m, told)
           /\ script' = IF script.left = {m}
                        THEN [Wall!Fresh EXCEPT !.step = "rest", !.left = Models \ Defaults]
                        ELSE [script EXCEPT !.left = @ \ {m}]
    BY <1>6 DEF Wall!DifyDefault
  <2>2. m \in Models /\ script.step = "defaults"
    BY <1>6, <2>1 DEF Wall!DifyDefault, SignInv, SignTypes
  <2>3. /\ stored' \in [Models -> {"none", "old", "now"}]
        /\ \A n \in Models : stored'[n] = IF n = m THEN "now" ELSE stored[n]
    BY <2>1, <2>2, SignWrites
  <2>4. \A n \in Defaults \ (script.left \ {m}) : stored'[n] = "now"
    BY <2>2, <2>3 DEF SignInv, Offered
  <2>5. CASE script.left = {m}
    <3>1. script' = [Wall!Fresh EXCEPT !.step = "rest", !.left = Models \ Defaults]
      BY <2>1, <2>5
    <3>2. /\ script' \in [step : Wall!Steps, tries : Int, left : SUBSET Models]
          /\ script'.step = "rest"
      <4>1. script' = [step |-> "rest", tries |-> 0, left |-> Models \ Defaults]
        BY <3>1 DEF Wall!Fresh
      <4>2. Models \ Defaults \in SUBSET Models
        OBVIOUS
      <4>3. QED
        BY <4>1, <4>2 DEF Wall!Steps
    <3>3. \A n \in Defaults : stored'[n] = "now"
      BY <2>4, <2>5
    <3>4. QED
      BY <1>2, <2>3, <3>2, <3>3
         DEF SignInv, SignTypes, Wall!DefaultsAreCurrent
  <2>6. CASE script.left # {m}
    <3>1. /\ script' \in [step : Wall!Steps, tries : Int, left : SUBSET Models]
          /\ script'.step = "defaults" /\ script'.left = script.left \ {m}
      BY <2>1, <2>2, <2>6 DEF SignInv, SignTypes
    <3>2. QED
      BY <1>2, <2>3, <2>4, <3>1
         DEF SignInv, SignTypes, Wall!DefaultsAreCurrent
  <2>7. QED
    BY <2>5, <2>6
<1>7. CASE Wall!DifyRest
  <2>1. CASE script.left # {}
    <3>1. PICK m \in script.left :
             /\ script' = [script EXCEPT !.left = @ \ {m}]
             /\ Wall!Written(m, FALSE) \/ UNCHANGED <<stored, chosen>>
      BY <1>7, <2>1 DEF Wall!DifyRest
    <3>2. m \in Models /\ script.step = "rest"
      BY <1>7, <3>1 DEF Wall!DifyRest, SignInv, SignTypes
    <3>3. /\ script' \in [step : Wall!Steps, tries : Int, left : SUBSET Models]
          /\ script'.step = "rest"
      BY <3>1, <3>2 DEF SignInv, SignTypes
    <3>4. /\ stored' \in [Models -> {"none", "old", "now"}]
          /\ \A n \in Models : stored[n] = "now" => stored'[n] = "now"
      BY <3>1, <3>2, SignWrites DEF SignInv, SignTypes
    <3>5. QED
      BY <1>2, <3>2, <3>3, <3>4
         DEF SignInv, SignTypes, Offered, Wall!DefaultsAreCurrent
  <2>2. QED
    BY <1>3, <1>7, <2>1 DEF Wall!DifyRest
<1>8. QED
  BY <1>4, <1>5, <1>6, <1>7

\* The scripts of Coze, Hermes and OpenMausBot.
LEMMA SignOthers ==
    ASSUME SignInv, \/ Wall!CozeTry \/ Wall!CozeMark \/ Wall!HermesTry \/ Wall!HermesMark
                    \/ Wall!MausTry \/ Wall!MausMark
    PROVE  SignInv'
<1>1. UNCHANGED stored
  BY DEF Wall!CozeTry, Wall!CozeMark, Wall!HermesTry, Wall!HermesMark, Wall!MausTry, Wall!MausMark,
     Wall!Mark
<1>2. CASE Wall!Again
  BY <1>1, <1>2, SignAgain, SignStays DEF Wall!Again
<1>3. CASE \E step \in {"mark", "over", "sleep"} : Wall!Goto(step)
  BY <1>1, <1>3, SignGoes DEF Wall!Steps
<1>4. QED
  BY <1>2, <1>3 DEF Wall!CozeTry, Wall!CozeMark, Wall!HermesTry, Wall!HermesMark, Wall!MausTry,
     Wall!MausMark, Wall!Mark

\* What happens to the product, its session and the instance.
LEMMA SignAround ==
    ASSUME SignInv, Wall!Refresh \/ Wall!AppSwitches \/ Wall!SessionEnds \/ Wall!Rebuild
    PROVE  SignInv'
<1>1. CASE Wall!Refresh
  <2>1. Wall!Goto("login") /\ UNCHANGED stored
    BY <1>1 DEF Wall!Refresh
  <2>2. QED
    BY <2>1, SignGoes DEF Wall!Steps
<1>2. CASE Wall!AppSwitches \/ Wall!SessionEnds
  <2>1. UNCHANGED <<stored, script>>
    BY <1>2 DEF Wall!AppSwitches, Wall!SessionEnds
  <2>2. QED
    BY <2>1, SignAgain, SignStays
<1>3. CASE Wall!Rebuild
  <2>1. script' = Wall!Fresh
    BY <1>3 DEF Wall!Rebuild
  <2>2. stored' \in [Models -> {"none", "old", "now"}]
    BY <1>3 DEF Wall!Rebuild, SignInv, SignTypes
  <2>3. QED
    BY <2>1, <2>2 DEF SignInv, SignTypes, Wall!Fresh, Wall!Steps, Wall!DefaultsAreCurrent
<1>4. QED
  BY <1>1, <1>2, <1>3

LEMMA SignStep == Offered /\ SignInv /\ [Wall!Next]_Wall!signVars => SignInv'
<1>1. SUFFICES ASSUME Offered, SignInv, [Wall!Next]_Wall!signVars PROVE SignInv'
  OBVIOUS
<1>2. CASE UNCHANGED Wall!signVars
  BY <1>1, <1>2 DEF Wall!signVars, SignInv, SignTypes, Wall!DefaultsAreCurrent
<1>3. QED
  BY <1>1, <1>2, SignDify, SignModels, SignOthers, SignAround DEF Wall!Next, Wall!ScriptStep

\* products.py: when the default models are done with, Dify has the token of
\* this very instance for each, whatever it had before.
THEOREM DefaultsHaveTheToken == Offered /\ Wall!Spec => []Wall!DefaultsAreCurrent
<1>1. SUFFICES ASSUME Offered PROVE Wall!Spec => []Wall!DefaultsAreCurrent
  OBVIOUS
<1>2. SignInv /\ [Wall!Next]_Wall!signVars => SignInv'
  BY <1>1, SignStep
<1>3. SignInv => Wall!DefaultsAreCurrent
  BY DEF SignInv
<1>4. QED
  BY <1>2, <1>3, SignBegins, PTL DEF Wall!Spec

-----------------------------------------------------------------------------
(* Gates.                                                                   *)

CONSTANTS Sold, Locked, Sales, MaxNow
VARIABLES now, spent, passes, sale, boxes, seen, waiting, word, asking
Gate == INSTANCE Gates WITH Products <- Sold, box <- boxes, said <- word

\* Whatever is done, the last answer is an asset of a product only if the lock
\* was asked about that product, in the same step or before its workspace was
\* waited for.
LEMMA AskedFirst ==
    ASSUME Gate!Quiet \notin Sold, Gate!Next
    PROVE  Gate!PassIsAsked
<1>1. CASE word' = Gate!Quiet /\ asking' \subseteq asking
  BY <1>1 DEF Gate!PassIsAsked
<1>2. CASE Gate!Exempt \/ Gate!RevokeLockExemption \/ Gate!Tick \/ Gate!Spend
  BY <1>1, <1>2 DEF Gate!Exempt, Gate!RevokeLockExemption, Gate!Tick, Gate!Spend
<1>3. ASSUME NEW o \in Sales, Gate!PassReads(o) \/ Gate!PassInserts(o) PROVE Gate!PassIsAsked
  BY <1>1, <1>3 DEF Gate!PassReads, Gate!PassInserts
<1>4. ASSUME NEW p \in Sold,
             \/ Gate!WorkShell(p) \/ Gate!WorkEntry(p) \/ Gate!WorkStatus(p) \/ Gate!WorkStop(p)
             \/ Gate!Heartbeat(p) \/ Gate!HalfMinute(p) \/ Gate!Die(p)
      PROVE  Gate!PassIsAsked
  BY <1>1, <1>4 DEF Gate!WorkShell, Gate!WorkEntry, Gate!WorkStatus, Gate!WorkStop, Gate!Heartbeat,
     Gate!HalfMinute, Gate!Die, Gate!Polls, Gate!TurnedAway
<1>5. ASSUME NEW p \in Sold, Gate!WorkRoute(p) PROVE Gate!PassIsAsked
  <2>1. CASE Gate!FastRoute(p)
    BY <2>1 DEF Gate!FastRoute, Gate!Served, Gate!PassIsAsked
  <2>2. CASE Gate!ColdRoute(p)
    BY <1>5, <2>2 DEF Gate!ColdRoute, Gate!PassIsAsked
  <2>3. CASE Gate!ColdAnswer(p)
    <3>1. p \in asking /\ asking' \subseteq asking /\ (word' = Gate!Quiet \/ word' = p)
      BY <2>3 DEF Gate!ColdAnswer, Gate!Served
    <3>2. QED
      BY <1>1, <3>1 DEF Gate!PassIsAsked
  <2>4. CASE Gate!TurnedAway
    BY <1>1, <2>4 DEF Gate!TurnedAway
  <2>5. QED
    BY <1>5, <2>1, <2>2, <2>3, <2>4 DEF Gate!WorkRoute
<1>6. QED
  BY <1>2, <1>3, <1>4, <1>5 DEF Gate!Next

\* work_route: no asset of a locked product goes to a user whose pass had expired
\* or was taken back when he asked for it, not even in the half minute after his
\* last one; one that waits for its workspace is served though the pass ends.
THEOREM LockComesFirst == Gate!Quiet \notin Sold /\ Gate!Spec => Gate!AssetsNeedAPass
<1>1. SUFFICES ASSUME Gate!Quiet \notin Sold PROVE Gate!Spec => Gate!AssetsNeedAPass
  OBVIOUS
<1>2. [Gate!Next]_Gate!gateVars => [Gate!PassIsAsked]_Gate!gateVars
  BY <1>1, AskedFirst
<1>3. QED
  BY <1>2, PTL DEF Gate!Spec, Gate!AssetsNeedAPass

-----------------------------------------------------------------------------
(* Preview.                                                                 *)

CONSTANTS Shares, Ports, Blocked
VARIABLES running, static, serving, disk, cookie, views, conns, mounted, stayed
View == INSTANCE Preview WITH Files <- Shares, tab <- views

Shown == [step : View!Steps, port : Ports \union {0}, page : Ports \union {0},
          asset : BOOLEAN, files : SUBSET Shares]

\* The files that have stayed are on the disk, and in what the instance said if it
\* said anything.
StayedKept ==
    \A t \in Tabs : /\ stayed[t] \subseteq disk
                    /\ views[t].step = "ports" /\ views[t].files # {} => stayed[t] \subseteq views[t].files

ViewInv == View!TypeOK /\ View!ConnectionsReturn /\ StayedKept

\* Nothing is shown yet, and nothing is connected.
LEMMA ViewBegins == View!Init => ViewInv
<1>1. SUFFICES ASSUME View!Init PROVE ViewInv
  OBVIOUS
<1>2. View!Blank \in Shown /\ View!Blank.step \notin View!Open
  BY DEF View!Blank, Shown, View!Steps, View!Open
<1>3. views \in [Tabs -> Shown]
  BY <1>1, <1>2 DEF View!Init
<1>4. {t \in Tabs : views[t].step \in View!Open} = {}
  BY <1>1, <1>2 DEF View!Init
<1>5. StayedKept
  BY <1>1 DEF View!Init, View!Blank, StayedKept
<1>6. QED
  BY <1>1, <1>3, <1>4, <1>5 DEF View!Init, ViewInv, View!TypeOK, View!ConnectionsReturn, Shown

\* One views shows something else, and has its connection exactly if it needs one;
\* what it lists, if it lists now, is what has stayed.
LEMMA ViewOne ==
    ASSUME ViewInv, NEW t \in Tabs, NEW new \in Shown, views' = [views EXCEPT ![t] = new],
           conns' = IF new.step \in View!Open THEN conns \union {t} ELSE conns \ {t},
           cookie' \in Ports \union {0}, UNCHANGED <<running, static, serving, disk, mounted>>,
           stayed' = stayed \/ stayed' = [stayed EXCEPT ![t] = disk],
           mounted /\ new.step = "listed" => stayed'[t] \subseteq new.files,
           new.step = "ports" /\ new.files # {} => stayed'[t] \subseteq new.files
    PROVE  ViewInv' /\ View!ListsThem
<1>1. /\ views' \in [Tabs -> Shown] /\ views'[t] = new
      /\ \A u \in Tabs : u # t => views'[u] = views[u]
  BY DEF ViewInv, View!TypeOK, Shown
<1>2. conns' = {u \in Tabs : views'[u].step \in View!Open}
  BY <1>1 DEF ViewInv, View!ConnectionsReturn
<1>3. /\ stayed' \in [Tabs -> SUBSET Shares] /\ stayed'[t] \subseteq disk
      /\ \A u \in Tabs : u # t => stayed'[u] = stayed[u]
  BY DEF ViewInv, View!TypeOK, StayedKept
<1>4. View!TypeOK'
  <2>1. running' \in BOOLEAN /\ static' \in BOOLEAN /\ mounted' \in BOOLEAN
    BY Zenon DEF ViewInv, View!TypeOK
  <2>2. QED
    BY <1>1, <1>2, <1>3, <2>1 DEF ViewInv, View!TypeOK, Shown
<1>5. StayedKept'
  BY <1>1, <1>3 DEF ViewInv, StayedKept
<1>6. View!ListsThem
  BY <1>1 DEF View!ListsThem
<1>7. QED
  BY <1>2, <1>4, <1>5, <1>6 DEF ViewInv, View!ConnectionsReturn

\* A views that has no connection.
LEMMA ViewShut ==
    ASSUME ViewInv, NEW t \in Tabs, views[t].step \notin View!Open
    PROVE  conns \ {t} = conns
BY DEF ViewInv, View!ConnectionsReturn

\* What happens in the instance shows in no views.
LEMMA ViewAround ==
    ASSUME ViewInv, View!Wakes \/ View!Works
    PROVE  ViewInv' /\ View!ListsThem
<1>1. UNCHANGED <<cookie, views, conns>>
  BY DEF View!Wakes, View!Works
<1>2. serving' \subseteq Ports /\ disk' \subseteq Shares
  BY DEF View!Wakes, View!Works, ViewInv, View!TypeOK
<1>3. running' \in BOOLEAN /\ static' \in BOOLEAN /\ mounted' \in BOOLEAN
  BY Zenon DEF View!Wakes, View!Works, ViewInv, View!TypeOK
<1>4. /\ stayed' \in [Tabs -> SUBSET Shares]
      /\ \A t \in Tabs : stayed'[t] \subseteq stayed[t] /\ stayed'[t] \subseteq disk'
  BY DEF View!Wakes, View!Works, ViewInv, View!TypeOK, StayedKept
<1>5. View!TypeOK'
  BY <1>1, <1>2, <1>3, <1>4 DEF ViewInv, View!TypeOK
<1>6. StayedKept'
  BY <1>1, <1>4 DEF ViewInv, StayedKept
<1>7. QED
  BY <1>1, <1>5, <1>6 DEF ViewInv, View!ConnectionsReturn, View!ListsThem

\* What the tabs show, one field at a time.
LEMMA TabIs ==
    ASSUME ViewInv, NEW t \in Tabs
    PROVE  /\ views[t] \in Shown /\ views[t].port \in Ports \union {0}
           /\ views[t].page \in Ports \union {0}
BY DEF ViewInv, View!TypeOK, Shown

\* A page with nothing on it but what is said.
LEMMA BlankIs ==
    /\ View!Blank \in Shown /\ View!Blank.step = "idle"
    /\ \A step \in View!Steps : /\ [View!Blank EXCEPT !.step = step] \in Shown
                                /\ [View!Blank EXCEPT !.step = step].step = step
    /\ \A files \in SUBSET Shares :
          \A step \in View!Steps :
             /\ [View!Blank EXCEPT !.step = step, !.files = files] \in Shown
             /\ [View!Blank EXCEPT !.step = step, !.files = files].step = step
             /\ [View!Blank EXCEPT !.step = step, !.files = files].files = files
<1>1. View!Blank \in Shown /\ View!Blank.step = "idle"
  BY DEF View!Blank, Shown, View!Steps
<1>2. QED
  BY <1>1 DEF Shown, View!Steps

\* The list, a file of it, and the server's answer to it.
LEMMA ViewLists ==
    ASSUME ViewInv, NEW t \in Tabs,
           \/ View!Index(t) \/ View!AskStatic(t) \/ View!ListFiles(t)
           \/ \E f \in Shares : View!OpenFile(t, f)
    PROVE  ViewInv' /\ View!ListsThem
<1>1. views[t].step \notin View!Open
  BY DEF View!Index, View!AskStatic, View!ListFiles, View!OpenFile, View!Quiet, View!At, View!Open
<1>2. UNCHANGED <<running, static, serving, disk, mounted, cookie, conns>>
  BY DEF View!Index, View!AskStatic, View!ListFiles, View!OpenFile, View!Instance
<1>3. /\ disk \subseteq Shares /\ cookie \in Ports \union {0} /\ stayed[t] \subseteq disk
      /\ views[t].files \subseteq Shares /\ stayed \in [Tabs -> SUBSET Shares]
  BY TabIs DEF ViewInv, View!TypeOK, StayedKept, Shown
<1>4. ASSUME NEW new \in Shown, new.step \notin View!Open, views' = [views EXCEPT ![t] = new],
             stayed' = stayed \/ stayed' = [stayed EXCEPT ![t] = disk],
             mounted /\ new.step = "listed" => stayed'[t] \subseteq new.files,
             new.step = "ports" /\ new.files # {} => stayed'[t] \subseteq new.files
      PROVE  ViewInv' /\ View!ListsThem
  BY <1>1, <1>2, <1>3, <1>4, ViewShut, ViewOne
<1>5. ASSUME NEW files \in SUBSET Shares, NEW step \in {"listed", "ports"},
             views' = [views EXCEPT ![t] = [View!Blank EXCEPT !.step = step, !.files = files]],
             stayed' = stayed \/ stayed' = [stayed EXCEPT ![t] = disk],
             mounted /\ step = "listed" => stayed'[t] \subseteq files,
             step = "ports" /\ files # {} => stayed'[t] \subseteq files
      PROVE  ViewInv' /\ View!ListsThem
  <2> DEFINE new == [View!Blank EXCEPT !.step = step, !.files = files]
  <2>1. step \in View!Steps /\ step \notin View!Open
    BY DEF View!Steps, View!Open
  <2>2. new \in Shown /\ new.step = step /\ new.files = files
    BY <2>1, BlankIs
  <2> HIDE DEF new
  <2>3. views' = [views EXCEPT ![t] = new]
    BY <1>5 DEF new
  <2>4. QED
    BY <1>4, <1>5, <2>1, <2>2, <2>3
<1>6. CASE View!Index(t)
  <2>1. CASE running
    <3> DEFINE new == [View!Blank EXCEPT !.step = "listing"]
    <3>1. new \in Shown /\ new.step = "listing"
      BY BlankIs DEF View!Steps
    <3>2. views' = [views EXCEPT ![t] = new]
      BY <1>6, <2>1 DEF View!Index
    <3> HIDE DEF new
    <3>3. QED
      BY <1>4, <1>6, <3>1, <3>2 DEF View!Index, View!Open
  <2>2. CASE ~running
    <3>1. views' = [views EXCEPT ![t] = [View!Blank EXCEPT !.step = "listed", !.files = View!OfflineFiles]]
      BY <1>6, <2>2 DEF View!Index, View!Listed
    <3>2. View!OfflineFiles \in SUBSET Shares /\ (mounted => View!OfflineFiles = disk)
      BY <1>3 DEF View!OfflineFiles
    <3>3. stayed' = [stayed EXCEPT ![t] = disk] /\ stayed'[t] = disk
      BY <1>3, <1>6 DEF View!Index
    <3>4. QED
      BY <1>5, <3>1, <3>2, <3>3
  <2>3. QED
    BY <2>1, <2>2
<1>a. CASE View!AskStatic(t)
  <2>1. /\ views' = [views EXCEPT ![t] = [View!Blank EXCEPT !.step = "ports", !.files = View!StaticFiles]]
        /\ stayed' = stayed
    BY <1>a DEF View!AskStatic, View!Instance
  <2>2. View!StaticFiles \in SUBSET Shares /\ (View!StaticFiles # {} => View!StaticFiles = disk)
    BY <1>3 DEF View!StaticFiles
  <2>3. QED
    BY <1>3, <1>5, <2>1, <2>2
<1>b. CASE View!ListFiles(t)
  <2> DEFINE files == IF views[t].files = {} THEN View!OfflineFiles ELSE views[t].files
  <2>1. /\ views' = [views EXCEPT ![t] = [View!Blank EXCEPT !.step = "listed", !.files = files]]
        /\ stayed' = stayed /\ views[t].step = "ports"
    BY <1>b DEF View!ListFiles, View!Listed, View!Instance, View!At
  <2>2. files \in SUBSET Shares
    BY <1>3 DEF View!OfflineFiles
  <2>3. mounted => stayed[t] \subseteq files
    BY <1>3, <2>1 DEF View!OfflineFiles, ViewInv, StayedKept
  <2> HIDE DEF files
  <2>4. QED
    BY <1>5, <2>1, <2>2, <2>3
<1>7. ASSUME NEW f \in Shares, View!OpenFile(t, f) PROVE ViewInv' /\ View!ListsThem
  <2>1. \/ views' = [views EXCEPT ![t] = [View!Blank EXCEPT !.step = "file"]]
        \/ views' = [views EXCEPT ![t] = View!Blank]
    BY <1>7 DEF View!OpenFile
  <2> DEFINE new == [View!Blank EXCEPT !.step = "file"]
  <2>2. new \in Shown /\ new.step = "file" /\ View!Blank \in Shown /\ View!Blank.step = "idle"
    BY BlankIs DEF View!Steps
  <2>3. views' = [views EXCEPT ![t] = new] \/ views' = [views EXCEPT ![t] = View!Blank]
    BY <2>1
  <2> HIDE DEF new
  <2>4. QED
    BY <1>2, <1>4, <1>7, <2>2, <2>3 DEF View!Open, View!OpenFile, View!Instance
<1>8. QED
  BY <1>6, <1>7, <1>a, <1>b

\* The browser asks for a page of a server, or for one of its assets.
LEMMA ViewAsks ==
    ASSUME ViewInv, NEW t \in Tabs, NEW p \in Ports, NEW asset \in BOOLEAN, View!Proxy(t, p, asset)
    PROVE  ViewInv' /\ View!ListsThem
<1>1. views[t].step \notin View!Open
  BY DEF View!Proxy, View!Quiet, View!Open
<1>2. UNCHANGED <<running, static, serving, disk, mounted, stayed, cookie, conns>> /\ cookie \in Ports \union {0}
  BY DEF View!Proxy, View!Instance, ViewInv, View!TypeOK
<1>3. \E new \in Shown : views' = [views EXCEPT ![t] = new] /\ new.step \in {"idle", "asked"}
  <2> DEFINE shown == IF asset THEN views[t].page ELSE 0
  <2>1. shown \in Ports \union {0} /\ p \in Ports \union {0}
    BY TabIs
  <2>2. \/ views' = [views EXCEPT ![t] = View!Blank]
        \/ views' = [views EXCEPT ![t] = [View!Blank EXCEPT !.step = "asked", !.port = p,
                                                        !.asset = asset, !.page = shown]]
    BY DEF View!Proxy
  <2> HIDE DEF shown
  <2> DEFINE new == [View!Blank EXCEPT !.step = "asked", !.port = p, !.asset = asset, !.page = shown]
  <2>3. new \in Shown /\ new.step = "asked" /\ View!Blank \in Shown /\ View!Blank.step = "idle"
    <3>1. View!Blank \in Shown /\ View!Blank.step = "idle"
      BY BlankIs
    <3>2. "asked" \in View!Steps
      BY DEF View!Steps
    <3> HIDE DEF View!Blank
    <3>3. new \in Shown /\ new.step = "asked"
      BY ONLY <2>1, <3>1, <3>2, asset \in BOOLEAN DEF Shown, new
    <3>4. QED
      BY <3>1, <3>3
  <2>4. views' = [views EXCEPT ![t] = new] \/ views' = [views EXCEPT ![t] = View!Blank]
    BY <2>2
  <2> HIDE DEF new
  <2>5. QED
    BY <2>3, <2>4
<1>4. PICK new \in Shown : views' = [views EXCEPT ![t] = new] /\ new.step \in {"idle", "asked"}
  BY <1>3
<1>5. new.step \notin View!Open /\ new.step \notin {"listed", "ports"}
  BY <1>4 DEF View!Open
<1>6. QED
  BY <1>1, <1>2, <1>4, <1>5, ViewShut, ViewOne

\* A views goes to another step and perhaps shows a page of the server now; its
\* connection is open exactly if somebody reads from it there.
LEMMA ViewGoes ==
    ASSUME ViewInv, NEW t \in Tabs, NEW step \in View!Steps \ {"listed", "ports"},
           NEW shown \in Ports \union {0},
           views' = [views EXCEPT ![t].step = step, ![t].page = shown],
           conns' = IF step \in View!Open THEN conns \union {t} ELSE conns \ {t},
           cookie' \in Ports \union {0}, UNCHANGED <<running, static, serving, disk, mounted, stayed>>
    PROVE  ViewInv' /\ View!ListsThem
<1> DEFINE new == [views[t] EXCEPT !.step = step, !.page = shown]
<1>1. new \in Shown /\ new.step = step
  BY TabIs DEF Shown
<1>2. views' = [views EXCEPT ![t] = new]
  BY DEF ViewInv, View!TypeOK
<1> HIDE DEF new
<1>3. QED
  BY <1>1, <1>2, ViewOne

\* The proxy's own steps.
LEMMA ViewProxies ==
    ASSUME ViewInv, NEW t \in Tabs,
           \/ View!Forward(t) \/ View!Sort(t) \/ View!ReadHtml(t) \/ View!Relay(t) \/ View!Collect(t)
    PROVE  ViewInv' /\ View!ListsThem
<1>1. UNCHANGED <<running, static, serving, disk, mounted, stayed>>
  BY DEF View!Forward, View!Sort, View!ReadHtml, View!Relay, View!Collect, View!Instance
<1>2. cookie \in Ports \union {0} /\ views[t].page \in Ports \union {0} /\ views[t].port \in Ports \union {0}
  BY TabIs DEF ViewInv, View!TypeOK
<1>3. ASSUME NEW step \in View!Steps \ {"listed", "ports"}, View!Go(t, step), UNCHANGED cookie,
             conns' = IF step \in View!Open THEN conns \union {t} ELSE conns \ {t}
      PROVE  ViewInv' /\ View!ListsThem
  <2>1. views' = [views EXCEPT ![t].step = step, ![t].page = views[t].page]
    BY <1>3, TabIs DEF View!Go, ViewInv, View!TypeOK, Shown
  <2>2. QED
    BY <1>1, <1>2, <1>3, <2>1, ViewGoes
<1>4. ASSUME NEW step \in View!Steps \ {"listed", "ports"}, View!Given(t, step),
             conns' = IF step \in View!Open THEN conns \union {t} ELSE conns \ {t}
      PROVE  ViewInv' /\ View!ListsThem
  <2>1. CASE views[t].asset
    <3>1. views' = [views EXCEPT ![t].step = step, ![t].page = views[t].page]
      BY <1>4, <2>1 DEF View!Given
    <3>2. QED
      BY <1>1, <1>2, <1>4, <3>1, ViewGoes DEF View!Given
  <2>2. CASE ~views[t].asset
    <3>1. views' = [views EXCEPT ![t].step = step, ![t].page = views[t].port]
      BY <1>4, <2>2 DEF View!Given
    <3>2. QED
      BY <1>1, <1>2, <1>4, <3>1, ViewGoes DEF View!Given
  <2>3. QED
    BY <2>1, <2>2
<1>5. views[t].step \in View!Open => conns = conns \union {t}
  BY DEF ViewInv, View!ConnectionsReturn
<1>6. views[t].step \notin View!Open => conns = conns \ {t}
  BY ViewShut
<1>7. CASE View!Forward(t)
  BY <1>3, <1>6, <1>7 DEF View!Forward, View!At, View!Open, View!Steps
<1>8. CASE View!Sort(t)
  BY <1>3, <1>4, <1>5, <1>8 DEF View!Sort, View!At, View!Open, View!Steps, View!Close
<1>9. CASE View!ReadHtml(t)
  BY <1>3, <1>4, <1>9 DEF View!ReadHtml, View!Open, View!Steps, View!Close
<1>10. CASE View!Relay(t)
  <2>1. CASE View!At(t, "ready") /\ UNCHANGED <<conns, cookie>>
             /\ views' \in {[views EXCEPT ![t].step = s] : s \in {"streaming", "forsaken"}}
    <3>1. PICK s \in {"streaming", "forsaken"} : View!Go(t, s)
      BY <2>1 DEF View!Go
    <3>2. QED
      BY <1>3, <1>5, <2>1, <3>1 DEF View!At, View!Open, View!Steps
  <2>2. CASE View!Go(t, "idle") /\ View!Close(t) /\ UNCHANGED cookie
    BY <1>3, <2>2 DEF View!Open, View!Steps, View!Close
  <2>3. QED
    BY <1>10, <2>1, <2>2 DEF View!Relay
<1>11. CASE View!Collect(t)
  BY <1>3, <1>11 DEF View!Collect, View!Open, View!Steps, View!Close
<1>12. QED
  BY <1>7, <1>8, <1>9, <1>10, <1>11

LEMMA ViewStep == ViewInv /\ [View!Next]_View!previewVars => ViewInv' /\ View!ListsThem
<1>1. SUFFICES ASSUME ViewInv, [View!Next]_View!previewVars PROVE ViewInv' /\ View!ListsThem
  OBVIOUS
<1>2. CASE UNCHANGED View!previewVars
  BY <1>1, <1>2 DEF View!previewVars, ViewInv, View!TypeOK, View!ConnectionsReturn, View!ListsThem, StayedKept
<1>3. ASSUME NEW t \in Tabs, View!Fallback(t) PROVE ViewInv' /\ View!ListsThem
  <2>1. cookie \in Ports /\ View!Proxy(t, cookie, TRUE)
    BY <1>1, <1>3 DEF View!Fallback, ViewInv, View!TypeOK
  <2>2. QED
    BY <1>1, <2>1, ViewAsks
<1>4. QED
  BY <1>1, <1>2, <1>3, ViewAround, ViewLists, ViewAsks, ViewProxies DEF View!Next

\* workspace.py: where the backend's volumes are mounted, the list shows every file
\* that has been there since it was asked for, be the instance asleep, on its way
\* there, or without its own server.
THEOREM ListedAsTheyAre == View!Spec => View!FilesAreListed
<1>1. ViewInv /\ [View!Next]_View!previewVars => ViewInv' /\ [View!ListsThem]_View!previewVars
  BY ViewStep
<1>2. QED
  BY <1>1, ViewBegins, PTL DEF View!Spec, View!FilesAreListed

\* workspace.py: a connection to an instance is open exactly as long as something
\* reads from it, however the page or the stream ends.
THEOREM NoConnectionLeaks == View!Spec => []View!ConnectionsReturn
<1>1. ViewInv /\ [View!Next]_View!previewVars => ViewInv'
  BY ViewStep
<1>2. ViewInv => View!ConnectionsReturn
  BY DEF ViewInv
<1>3. QED
  BY <1>1, <1>2, ViewBegins, PTL DEF View!Spec

-----------------------------------------------------------------------------
(* Production.                                                              *)

CONSTANTS Window, MinSpan, Ttl, MaxClock
VARIABLES clock, edge, samples, pts, slow, told, forgot, missed, behind, faults
Studio == INSTANCE Production
    WITH MaxNow <- MaxClock, now <- clock, good <- samples, lost <- missed, trouble <- faults

ToldInv ==
    /\ slow \in [Rooms -> BOOLEAN] /\ told \in [Rooms -> Studio!Reports]
    /\ Studio!ToldAsKnown

\* Nothing is told, and nothing is slow.
LEMMA ToldBegins == Studio!Init => ToldInv
BY DEF Studio!Init, ToldInv, Studio!Reports, Studio!ToldAsKnown

\* A sample of one room: it is judged, it is of another scene, or it is neither.
LEMMA ToldSample ==
    ASSUME ToldInv, NEW r \in Rooms, NEW e, Studio!Sample(r, e)
    PROVE  ToldInv'
<1>1. CASE UNCHANGED <<slow, told, forgot, missed>>
  BY <1>1 DEF ToldInv, Studio!ToldAsKnown
<1>2. CASE Studio!NewScene(r)
  BY <1>2 DEF ToldInv, Studio!ToldAsKnown, Studio!NewScene, Studio!Reports
<1>3. ASSUME NEW q, Studio!Judge(r, q) PROVE ToldInv'
  <2>1. ASSUME NEW kind \in {"slow", "recovered"}, Studio!Record(r, kind),
               slow' = [slow EXCEPT ![r] = (kind = "slow")]
        PROVE  ToldInv'
    <3>1. slow' \in [Rooms -> BOOLEAN] /\ told' \in [Rooms -> Studio!Reports]
      BY <2>1 DEF ToldInv, Studio!Record, Studio!Reports
    <3>2. ASSUME NEW s \in Rooms \ missed'
          PROVE  /\ slow'[s] => told'[s] = "slow"
                 /\ told'[s] = "slow" /\ ~slow'[s] => s \in forgot'
      BY <2>1, <3>2 DEF ToldInv, Studio!ToldAsKnown, Studio!Record, Studio!Reports
    <3>3. QED
      BY <3>1, <3>2 DEF ToldInv, Studio!ToldAsKnown
  <2>2. \/ Studio!Record(r, "slow") /\ slow' = [slow EXCEPT ![r] = TRUE]
        \/ Studio!Record(r, "recovered") /\ slow' = [slow EXCEPT ![r] = FALSE]
        \/ UNCHANGED <<slow, told, forgot, missed>>
    BY <1>3 DEF Studio!Judge, Studio!Reported
  <2>3. QED
    BY <1>1, <2>1, <2>2
<1>4. QED
  BY <1>1, <1>2, <1>3 DEF Studio!Sample, Studio!Reported

LEMMA ToldStep == ToldInv /\ [Studio!Next]_Studio!productionVars => ToldInv'
<1>1. SUFFICES ASSUME ToldInv, [Studio!Next]_Studio!productionVars PROVE ToldInv'
  OBVIOUS
<1>2. CASE UNCHANGED <<slow, told, forgot, missed>>
  BY <1>1, <1>2 DEF ToldInv, Studio!ToldAsKnown
<1>3. CASE UNCHANGED Studio!productionVars
  BY <1>2, <1>3 DEF Studio!productionVars
<1>4. CASE Studio!Tick \/ Studio!ListRooms \/ \E r \in Rooms : Studio!Begin(r) \/ Studio!End(r)
  BY <1>2, <1>4 DEF Studio!Tick, Studio!ListRooms, Studio!Begin, Studio!End, Studio!Sampler,
     Studio!Reported
<1>5. CASE Studio!Restart
  BY <1>1, <1>5 DEF ToldInv, Studio!ToldAsKnown, Studio!Restart
<1>6. ASSUME NEW r \in Rooms, Studio!Status(r) \/ Studio!Captions(r) PROVE ToldInv'
  <2>1. \E e : Studio!Sample(r, e)
    BY <1>6 DEF Studio!Status, Studio!Captions
  <2>2. QED
    BY <1>1, <2>1, ToldSample
<1>7. QED
  BY <1>1, <1>3, <1>4, <1>5, <1>6 DEF Studio!Next

\* live.py: the last report on a room says whether its sampler takes it to be
\* slow, through windows, scenes and restarts, unless it forgot the room or the
\* report was not stored.
THEOREM LastReportIsTrue == Studio!Spec => []Studio!ToldAsKnown
<1>1. ToldInv => Studio!ToldAsKnown
  BY DEF ToldInv
<1>2. QED
  BY <1>1, ToldBegins, ToldStep, PTL DEF Studio!Spec

\* The window is a length of time.
Windowed == Window \in Nat

Stamps == Int \X Int

\* Samples in the order they were taken, none of them of the future.
Ascends(q) ==
    /\ q \in Seq(Stamps)
    /\ \A i, j \in 1..Len(q) : i <= j => q[i][1] <= q[j][1] /\ q[i][2] <= q[j][2]
    /\ \A i \in 1..Len(q) : q[i][1] <= clock

\* The last of them is not further from the first than the window is long.
Fits(q) == \A i \in 1..Len(q) : q[i][1] - q[1][1] <= Window

WindowInv ==
    /\ clock \in Int /\ edge \in [Rooms -> Int]
    /\ \A r \in Rooms : samples[r].edge \in Int
    /\ pts \in [Rooms -> Seq(Stamps)]
    /\ \A r \in Rooms : Ascends(pts[r]) /\ Fits(pts[r])

\* There are no samples before the first.
LEMMA NoSamples == ASSUME clock \in Int PROVE Ascends(<<>>) /\ Fits(<<>>)
<1>1. <<>> \in Seq(Stamps) /\ Len(<<>>) = 0 /\ 1..0 = {}
  OBVIOUS
<1>2. QED
  BY <1>1 DEF Ascends, Fits

LEMMA WindowBegins == ASSUME Windowed, Studio!Init PROVE WindowInv
<1>1. clock \in Int /\ edge \in [Rooms -> Int] /\ \A r \in Rooms : samples[r].edge \in Int
  BY DEF Studio!Init, Studio!Nothing
<1>2. \A r \in Rooms : pts[r] = <<>>
  BY DEF Studio!Init
<1>3. pts \in [Rooms -> Seq(Stamps)]
  BY DEF Studio!Init
<1>4. QED
  BY <1>1, <1>2, <1>3, NoSamples DEF WindowInv

\* A sample of now, of a video no shorter than the last, goes to the end.
LEMMA SampleAppends ==
    ASSUME NEW q, Ascends(q), clock \in Int, NEW e \in Int,
           q = <<>> \/ q[Len(q)][2] <= e
    PROVE  /\ Ascends(Append(q, <<clock, e>>))
           /\ Append(q, <<clock, e>>)[Len(q) + 1] = <<clock, e>>
           /\ Len(Append(q, <<clock, e>>)) = Len(q) + 1
<1> DEFINE new == Append(q, <<clock, e>>)
<1>1. q \in Seq(Stamps) /\ Len(q) \in Nat /\ <<clock, e>> \in Stamps
  BY DEF Ascends, Stamps
<1>2. /\ new \in Seq(Stamps) /\ Len(new) = Len(q) + 1 /\ new[Len(q) + 1] = <<clock, e>>
      /\ \A i \in 1..Len(q) : new[i] = q[i]
  BY <1>1
<1> HIDE DEF new
<1>3. \A i \in 1..Len(q) : q[i][1] \in Int /\ q[i][2] \in Int /\ q[i][1] <= clock
  BY <1>1 DEF Ascends, Stamps
<1>4. ASSUME NEW i \in 1..Len(q) PROVE q[i][2] <= e
  <2>1. Len(q) \in 1..Len(q) /\ i <= Len(q) /\ q # <<>>
    BY <1>1
  <2>2. q[i][2] <= q[Len(q)][2] /\ q[Len(q)][2] \in Int /\ q[i][2] \in Int
    BY <1>3, <2>1 DEF Ascends
  <2>3. QED
    BY <2>1, <2>2
<1>5. ASSUME NEW i \in 1..Len(new), NEW j \in 1..Len(new), i <= j
      PROVE  new[i][1] <= new[j][1] /\ new[i][2] <= new[j][2]
  <2>1. CASE j \in 1..Len(q)
    <3>1. i \in 1..Len(q)
      BY <1>1, <1>2, <1>5, <2>1
    <3>2. QED
      BY <1>2, <1>5, <2>1, <3>1 DEF Ascends
  <2>2. CASE j \notin 1..Len(q)
    <3>1. j = Len(q) + 1
      BY <1>1, <1>2, <2>2
    <3>2. new[j][1] = clock /\ new[j][2] = e
      BY <1>2, <3>1
    <3>3. CASE i \in 1..Len(q)
      BY <1>2, <1>3, <1>4, <3>2, <3>3
    <3>4. CASE i \notin 1..Len(q)
      <4>1. i = j
        BY <1>1, <1>2, <3>1, <3>4
      <4>2. QED
        BY <3>2, <4>1
    <3>5. QED
      BY <3>3, <3>4
  <2>3. QED
    BY <2>1, <2>2
<1>6. ASSUME NEW i \in 1..Len(new) PROVE new[i][1] <= clock
  <2>1. CASE i \in 1..Len(q)
    BY <1>2, <1>3, <2>1
  <2>2. CASE i \notin 1..Len(q)
    <3>1. i = Len(q) + 1
      BY <1>1, <1>2, <2>2
    <3>2. new[i][1] = clock
      BY <1>2, <3>1
    <3>3. QED
      BY <3>2
  <2>3. QED
    BY <2>1, <2>2
<1>7. QED
  BY <1>2, <1>5, <1>6 DEF Ascends, new

\* What is left when the oldest go is as ordered as before.
LEMMA OldestGo ==
    ASSUME NEW q, Ascends(q), NEW f \in 1..Len(q)
    PROVE  /\ Ascends(SubSeq(q, f, Len(q)))
           /\ Len(SubSeq(q, f, Len(q))) = Len(q) - f + 1
           /\ \A i \in 1..(Len(q) - f + 1) : SubSeq(q, f, Len(q))[i] = q[f + i - 1]
<1> DEFINE new == SubSeq(q, f, Len(q))
<1>1. q \in Seq(Stamps) /\ Len(q) \in Nat
  BY DEF Ascends
<1>2. /\ new \in Seq(Stamps) /\ Len(new) = Len(q) - f + 1
      /\ \A i \in 1..(Len(q) - f + 1) : new[i] = q[f + i - 1]
  BY <1>1
<1> HIDE DEF new
<1>3. ASSUME NEW i \in 1..Len(new) PROVE f + i - 1 \in 1..Len(q) /\ new[i] = q[f + i - 1]
  BY <1>1, <1>2
<1>4. ASSUME NEW i \in 1..Len(new), NEW j \in 1..Len(new), i <= j
      PROVE  new[i][1] <= new[j][1] /\ new[i][2] <= new[j][2]
  <2>1. f + i - 1 <= f + j - 1
    BY <1>1, <1>2, <1>4
  <2>2. QED
    BY <1>3, <2>1 DEF Ascends
<1>5. QED
  BY <1>2, <1>3, <1>4 DEF Ascends, new

\* Some sample is the first within the window, if one is.
LEMMA FirstWithin ==
    ASSUME NEW q, Ascends(q), clock \in Int, Windowed,
           NEW n \in 1..Len(q), clock - q[n][1] <= Window
    PROVE  \E i \in 1..Len(q) : /\ clock - q[i][1] <= Window
                                /\ \A j \in 1..(i - 1) : clock - q[j][1] > Window
<1> DEFINE Inside == {i \in 1..Len(q) : clock - q[i][1] <= Window}
<1>1. q \in Seq(Stamps) /\ Len(q) \in Nat
  BY DEF Ascends
<1>2. Inside \in SUBSET Nat /\ Inside # {}
  OBVIOUS
<1>3. IsFiniteSet(Inside)
  <2>1. IsFiniteSet(1..Len(q))
    BY <1>1, FS_Interval
  <2>2. QED
    BY <2>1, FS_Subset
<1>4. PICK m \in Inside : \A x \in Inside : m <= x
  <2> HIDE DEF Inside
  <2>1. QED
    BY <1>2, <1>3, LeastOf
<1>5. ASSUME NEW j \in 1..(m - 1) PROVE clock - q[j][1] > Window
  <2>1. j \in 1..Len(q) /\ ~(m <= j)
    BY <1>1, <1>4
  <2>2. ~(clock - q[j][1] <= Window)
    BY <1>4, <2>1
  <2>3. q[j][1] \in Int /\ Window \in Int
    <3>1. q[j] \in Stamps
      BY ONLY <1>1, <2>1
    <3>2. QED
      BY ONLY <3>1, Windowed DEF Stamps, Windowed
  <2>4. QED
    BY <2>2, <2>3
<1>6. QED
  BY <1>4, <1>5

\* The samples with the new one are ordered, and fit into the window.
LEMMA PointsFit ==
    ASSUME WindowInv, Windowed, NEW r \in Rooms, NEW e \in Int
    PROVE  /\ Studio!Points(r, e) \in Seq(Stamps)
           /\ Ascends(Studio!Points(r, e)) /\ Fits(Studio!Points(r, e))
<1> DEFINE old == Studio!Before(r, e)
           q == Studio!Sampled(r, e)
<1>1. Ascends(old) /\ (old = <<>> \/ old[Len(old)][2] <= e)
  <2>1. CASE Studio!OtherScene(r, e)
    <3>1. old = <<>>
      BY <2>1 DEF Studio!Before
    <3>2. QED
      BY <3>1, NoSamples DEF WindowInv
  <2>2. CASE ~Studio!OtherScene(r, e)
    <3>1. old = pts[r] /\ Ascends(pts[r])
      BY <2>2 DEF Studio!Before, WindowInv
    <3>2. pts[r] # <<>> => ~(e < pts[r][Len(pts[r])][2])
      BY <2>2 DEF Studio!OtherScene, Studio!Last
    <3>3. ASSUME pts[r] # <<>> PROVE pts[r][Len(pts[r])][2] \in Int
      <4>1. pts[r] \in Seq(Stamps) /\ Len(pts[r]) \in 1..Len(pts[r])
        BY <3>1, <3>3 DEF Ascends
      <4>2. QED
        BY <4>1 DEF Stamps
    <3>4. QED
      BY <3>1, <3>2, <3>3
  <2>3. QED
    BY <2>1, <2>2
<1>2. clock \in Int
  BY DEF WindowInv
<1>3. Ascends(q) /\ Len(q) \in 1..Len(q) /\ q[Len(q)] = <<clock, e>>
  <2>1. CASE old # <<>> /\ old[Len(old)] = <<clock, e>>
    <3>1. q = old
      BY <2>1 DEF Studio!Sampled, Studio!Last
    <3>2. Len(old) \in 1..Len(old)
      BY <1>1, <2>1 DEF Ascends
    <3>3. QED
      BY <1>1, <2>1, <3>1, <3>2
  <2>2. CASE ~(old # <<>> /\ old[Len(old)] = <<clock, e>>)
    <3>1. q = Append(old, <<clock, e>>)
      BY <2>2 DEF Studio!Sampled, Studio!Last
    <3>2. Len(old) \in Nat
      BY <1>1 DEF Ascends
    <3> HIDE DEF old, q
    <3>3. QED
      BY <1>1, <1>2, <3>1, <3>2, SampleAppends
  <2>3. QED
    BY <2>1, <2>2
<1> DEFINE Within(i) == /\ clock - q[i][1] <= Window
                        /\ \A j \in 1..(i - 1) : clock - q[j][1] > Window
           first == CHOOSE i \in 1..Len(q) : Within(i)
<1>4. Studio!Points(r, e) = SubSeq(q, first, Len(q))
  BY DEF Studio!Points
<1> HIDE DEF old, q
<1>5. clock - q[Len(q)][1] <= Window
  <2>1. q[Len(q)][1] = clock
    BY <1>3
  <2>2. QED
    BY <1>2, <2>1 DEF Windowed
<1>6. \E i \in 1..Len(q) : Within(i)
  BY <1>2, <1>3, <1>5, FirstWithin
<1>7. first \in 1..Len(q) /\ clock - q[first][1] <= Window
  BY <1>6
<1> HIDE DEF first, Within
<1> DEFINE new == SubSeq(q, first, Len(q))
<1>8. /\ Ascends(new) /\ Len(new) = Len(q) - first + 1
      /\ \A i \in 1..(Len(q) - first + 1) : new[i] = q[first + i - 1]
  BY <1>3, <1>7, OldestGo
<1> HIDE DEF new
<1>9. ASSUME NEW i \in 1..Len(new) PROVE new[i][1] - new[1][1] <= Window
  <2>1. Len(q) \in Nat /\ Len(new) \in Nat /\ first \in Nat
    BY <1>3, <1>7, <1>8 DEF Ascends
  <2>2. first + 1 - 1 = first /\ 1 \in 1..(Len(q) - first + 1)
    BY <1>7, <2>1
  <2>3. new[1] = q[first]
    BY <1>8, <2>2
  <2>4. new \in Seq(Stamps) /\ 1 \in 1..Len(new)
    BY <1>8, <2>1, <2>2 DEF Ascends
  <2>5. new[i][1] <= clock /\ new[i][1] \in Int /\ new[1][1] \in Int
    BY <1>8, <2>4 DEF Ascends, Stamps
  <2>6. clock - new[1][1] <= Window
    BY <1>7, <2>3
  <2>7. QED
    BY ONLY <1>2, <2>5, <2>6, Windowed DEF Windowed
<1>10. Ascends(new) /\ Fits(new) /\ new \in Seq(Stamps)
  BY <1>8, <1>9 DEF Ascends, Fits
<1>11. QED
  BY <1>4, <1>10 DEF new

\* A sample changes the samples of its room.
LEMMA WindowSample ==
    ASSUME WindowInv, Windowed, NEW r \in Rooms, NEW e \in Int, Studio!Sample(r, e),
           clock' = clock, edge' = edge,
           \A s \in Rooms : samples'[s].edge = samples[s].edge \/ samples'[s].edge = edge[s]
    PROVE  WindowInv'
<1>1. PICK q \in Seq(Stamps) : Ascends(q) /\ Fits(q) /\ pts' = [pts EXCEPT ![r] = q]
  <2>1. <<>> \in Seq(Stamps) /\ Ascends(<<>>) /\ Fits(<<>>)
    BY NoSamples DEF WindowInv
  <2>2. QED
    BY <2>1, PointsFit DEF Studio!Sample
<1>2. pts' \in [Rooms -> Seq(Stamps)] /\ \A s \in Rooms : Ascends(pts'[s]) /\ Fits(pts'[s])
  BY <1>1 DEF WindowInv
<1>3. \A s \in Rooms : samples'[s].edge \in Int
  BY DEF WindowInv
<1>4. clock' \in Int /\ edge' \in [Rooms -> Int]
  BY DEF WindowInv
<1>5. ASSUME NEW p PROVE (Ascends(p) <=> Ascends(p)') /\ (Fits(p) <=> Fits(p)')
  BY DEF Ascends, Fits
<1>6. QED
  BY <1>2, <1>3, <1>4 DEF WindowInv, Ascends, Fits

LEMMA WindowStep ==
    ASSUME Windowed, WindowInv, [Studio!Next]_Studio!productionVars
    PROVE  WindowInv'
<1>1. ASSUME clock' \in Int, clock <= clock', edge' \in [Rooms -> Int],
             \A r \in Rooms : samples'[r].edge \in Int,
             \/ pts' = pts
             \/ pts' = [r \in Rooms |-> <<>>] 
      PROVE  WindowInv'
  <2>1. CASE pts' = pts
    <3>1. ASSUME NEW r \in Rooms PROVE (Ascends(pts[r]) /\ Fits(pts[r]))'
      <4>1. Ascends(pts[r]) /\ Fits(pts[r]) /\ clock \in Int
        BY DEF WindowInv
      <4>2. \A i \in 1..Len(pts[r]) : pts[r][i][1] <= clock'
        <5>1. \A i \in 1..Len(pts[r]) : pts[r][i][1] \in Int /\ pts[r][i][1] <= clock
          BY <4>1 DEF Ascends, Stamps
        <5>2. QED
          BY <1>1, <4>1, <5>1
      <4>3. QED
        BY <2>1, <4>1, <4>2 DEF Ascends, Fits
    <3>2. pts' \in [Rooms -> Seq(Stamps)]
      BY <2>1 DEF WindowInv
    <3>3. QED
      BY <1>1, <3>1, <3>2 DEF WindowInv
  <2>2. CASE pts' = [r \in Rooms |-> <<>>]
    <3>1. \A r \in Rooms : pts'[r] = <<>>
      BY <2>2
    <3>2. pts' \in [Rooms -> Seq(Stamps)]
      BY <2>2
    <3>3. <<>> \in Seq(Stamps) /\ Len(<<>>) = 0 /\ 1..0 = {}
      OBVIOUS
    <3>4. \A r \in Rooms : (Ascends(pts[r]) /\ Fits(pts[r]))'
      BY <3>1, <3>3 DEF Ascends, Fits
    <3>5. QED
      BY <1>1, <3>2, <3>4 DEF WindowInv
  <2>3. QED
    BY <1>1, <2>1, <2>2
<1>2. CASE UNCHANGED Studio!productionVars
  BY <1>1, <1>2 DEF Studio!productionVars, WindowInv
<1>3. CASE Studio!Tick
  <2>1. clock' = clock + 1 /\ clock \in Int
    BY <1>3 DEF Studio!Tick, WindowInv
  <2>2. PICK lazy : edge' = [r \in Rooms |-> IF edge[r] = 0 \/ r \in lazy THEN edge[r]
                                             ELSE edge[r] + 1]
    BY <1>3 DEF Studio!Tick
  <2>3. edge' \in [Rooms -> Int]
    BY <2>2 DEF WindowInv
  <2>4. samples' = samples /\ pts' = pts
    BY <1>3 DEF Studio!Tick, Studio!Sampler
  <2>5. clock' \in Int /\ clock <= clock'
    BY <2>1
  <2>6. QED
    BY <1>1, <2>3, <2>4, <2>5 DEF WindowInv
<1>4. ASSUME NEW r \in Rooms, Studio!Begin(r) \/ Studio!End(r) PROVE WindowInv'
  <2>1. clock' = clock /\ samples' = samples /\ pts' = pts
        /\ (edge' = [edge EXCEPT ![r] = 1] \/ edge' = [edge EXCEPT ![r] = 0])
    BY <1>4 DEF Studio!Begin, Studio!End, Studio!Sampler
  <2>2. edge' \in [Rooms -> Int] /\ clock' \in Int /\ clock <= clock'
    BY <2>1 DEF WindowInv
  <2>3. QED
    BY <1>1, <2>1, <2>2 DEF WindowInv
<1>5. CASE Studio!ListRooms \/ Studio!Restart
  <2>1. /\ clock' = clock /\ edge' = edge
        /\ pts' = pts \/ pts' = [r \in Rooms |-> <<>>]
    BY <1>5 DEF Studio!ListRooms, Studio!Restart
  <2>2. \A r \in Rooms : samples'[r].edge = edge[r] \/ samples'[r].edge = 0
    BY <1>5 DEF Studio!ListRooms, Studio!Restart, Studio!Nothing
  <2>3. clock' \in Int /\ clock <= clock' /\ \A r \in Rooms : samples'[r].edge \in Int
    BY <2>1, <2>2 DEF WindowInv
  <2>4. QED
    BY <1>1, <2>1, <2>3 DEF WindowInv
<1>6. ASSUME NEW r \in Rooms, Studio!Status(r) \/ Studio!Captions(r) PROVE WindowInv'
  <2>1. edge[r] \in Int /\ samples[r].edge \in Int
    BY DEF WindowInv
  <2>2. PICK e \in Int : Studio!Sample(r, e)
    BY <1>6, <2>1 DEF Studio!Status, Studio!Captions
  <2>3. /\ clock' = clock /\ edge' = edge
        /\ \/ samples' = samples
           \/ samples' = [samples EXCEPT ![r] = [at |-> clock, edge |-> edge[r]]]
    <3>1. CASE Studio!Status(r)
      BY <3>1 DEF Studio!Status
    <3>2. CASE Studio!Captions(r)
      BY <3>2 DEF Studio!Captions
    <3>3. QED
      BY <1>6, <3>1, <3>2
  <2>4. \A s \in Rooms : samples'[s].edge = samples[s].edge \/ samples'[s].edge = edge[s]
    <3>1. CASE samples' = samples
      BY <3>1
    <3>2. CASE samples' = [samples EXCEPT ![r] = [at |-> clock, edge |-> edge[r]]]
      BY <3>2 DEF WindowInv
    <3>3. QED
      BY <2>3, <3>1, <3>2
  <2>5. QED
    BY <2>2, <2>3, <2>4, WindowSample
<1>7. QED
  BY <1>2, <1>3, <1>4, <1>5, <1>6 DEF Studio!Next

\* live.py:1055-1057: whatever was sampled, in whatever scene and with whatever
\* answer, the samples that are judged are in order and within the window.
THEOREM JudgedWithinTheWindow == Windowed => (Studio!Spec => []Studio!WindowHolds)
<1>1. SUFFICES ASSUME Windowed PROVE Studio!Spec => []Studio!WindowHolds
  OBVIOUS
<1>2. WindowInv => Studio!WindowHolds
  <2>1. ASSUME WindowInv, NEW r \in Rooms, NEW i \in 2..Len(pts[r])
        PROVE  /\ pts[r][i - 1][1] <= pts[r][i][1] /\ pts[r][i - 1][2] <= pts[r][i][2]
               /\ pts[r][i][1] - pts[r][1][1] <= Window
    <3>1. Ascends(pts[r]) /\ Fits(pts[r])
      BY <2>1 DEF WindowInv
    <3>2. Len(pts[r]) \in Nat
      BY <3>1 DEF Ascends
    <3>3. i \in 1..Len(pts[r]) /\ i - 1 \in 1..Len(pts[r]) /\ i - 1 <= i
      BY <3>2
    <3>4. QED
      BY <3>1, <3>3 DEF Ascends, Fits
  <2>2. QED
    BY <2>1 DEF Studio!WindowHolds
<1>3. Studio!Init => WindowInv
  BY <1>1, WindowBegins
<1>4. WindowInv /\ [Studio!Next]_Studio!productionVars => WindowInv'
  BY <1>1, WindowStep
<1>5. QED
  BY <1>2, <1>3, <1>4, PTL DEF Studio!Spec

-----------------------------------------------------------------------------
(* ImageCache.                                                              *)

CONSTANTS Runs, Caches, Layouts, Images
VARIABLES enabled, cache, run, eip, excused, upsets
Store == INSTANCE ImageCache WITH trouble <- upsets

\* A group has an image, and neither the cloud nor a colleague is a run.
Grouped == {} \notin UNION Layouts /\ "eci" \notin Runs /\ "other" \notin Runs

AllImages == (UNION UNION Layouts) \union Images
AllGroups == (SUBSET AllImages) \ {{}}
Makers    == Runs \union {"eci", "other", "none"}
Copies    == [images : SUBSET AllImages, maker : Makers,
              status : {"unborn", "building", "ready", "failed", "gone"}]
Courses   == [pc : {"idle", "list", "decide", "await", "allocate", "create", "wait", "finally",
                    "release", "sweep", "done", "killed"},
              cmd : {"none", "rebuild", "prepare"}, groups : SUBSET AllGroups,
              left : SUBSET SUBSET AllImages, todo : SUBSET SUBSET AllImages,
              building : SUBSET Caches, stale : SUBSET Caches,
              group : SUBSET AllImages, id : SUBSET Caches, ready : BOOLEAN]

ImageTypes ==
    /\ enabled \subseteq AllGroups /\ cache \in [Caches -> Copies] /\ run \in [Runs -> Courses]
    /\ eip \in [Runs -> {"none", "held", "leaked"}]
    /\ \A r \in Runs : run[r].pc = "idle" => run[r] = Store!Idle
    /\ \A r \in Runs : \A c, d \in run[r].id : c = d

\* What a run has begun to build and not seen end.
Unfinished(r) == {c \in Caches : cache[c].status = "building" /\ cache[c].maker = r}

\* A run that was refused nothing holds its address while it builds, and knows
\* the one cache that it builds.
BuildSound(r) ==
    /\ run[r].pc \in {"idle", "list", "decide", "await", "allocate", "sweep", "done"} =>
          eip[r] = "none" /\ Unfinished(r) = {}
    /\ run[r].pc \in {"create", "release"} => Unfinished(r) = {}
    /\ run[r].pc = "create" => ~run[r].ready
    /\ run[r].pc = "wait" => ~run[r].ready /\ Unfinished(r) \subseteq run[r].id
    /\ run[r].pc = "finally" =>
          IF run[r].ready \/ run[r].id = {} THEN Unfinished(r) = {}
          ELSE Unfinished(r) \subseteq run[r].id

\* What is to be swept has failed, or no product of the run knows an image of it.
StaleSound(r) ==
    \A c \in run[r].stale :
       /\ cache[c].status # "unborn"
       /\ \/ cache[c].status \in {"failed", "gone"}
          \/ cache[c].images \cap UNION run[r].groups = {}

ImageInv ==
    /\ ImageTypes
    /\ \A r \in Runs : StaleSound(r) /\ (r \in excused \/ BuildSound(r))

\* A step under which caches only grow older: they begin, end and go.
Older ==
    \A c \in Caches : cache[c].status # "unborn" =>
       /\ cache'[c].images = cache[c].images /\ cache'[c].maker = cache[c].maker
       /\ cache'[c].status # "unborn"
       /\ cache'[c].status = "building" => cache[c].status = "building"
       /\ cache[c].status \in {"failed", "gone"} => cache'[c].status \in {"failed", "gone"}

\* A step in which a run has no new cache.
NoneFor(r) ==
    \A c \in Caches :
       cache[c].status = "unborn" /\ cache'[c].status = "building" => cache'[c].maker # r

LEMMA LayoutIs ==
    ASSUME Grouped, NEW l \in Layouts
    PROVE  l \subseteq AllGroups
<1>1. ASSUME NEW g \in l PROVE g \in AllGroups
  <2>1. g \in UNION Layouts
    BY <1>1
  <2>2. ASSUME NEW i \in g PROVE i \in AllImages
    BY <2>1, <2>2 DEF AllImages
  <2>3. QED
    BY <2>1, <2>2 DEF Grouped, AllGroups
<1>2. QED
  BY <1>1

\* Everything begins with a layout, whose groups have an image each.
LEMMA ImageBegins == Grouped /\ Store!Init => ImageInv
<1>1. SUFFICES ASSUME Grouped, Store!Init PROVE ImageInv
  OBVIOUS
<1>2. enabled \subseteq AllGroups
  BY <1>1, LayoutIs DEF Store!Init
<1>3. /\ Store!Never \in Copies /\ Store!Never.status = "unborn"
      /\ Store!Idle \in Courses /\ Store!Idle.pc = "idle" /\ Store!Idle.id = {} /\ Store!Idle.stale = {}
  BY DEF Store!Never, Copies, Makers, Store!Idle, Courses
<1>4. ImageTypes
  BY <1>1, <1>2, <1>3 DEF Store!Init, ImageTypes
<1>5. ASSUME NEW r \in Runs PROVE StaleSound(r) /\ BuildSound(r)
  BY <1>1, <1>3 DEF Store!Init, StaleSound, BuildSound, Unfinished
<1>6. QED
  BY <1>4, <1>5 DEF ImageInv

\* What a run builds becomes no more by itself.
LEMMA NothingNew ==
    ASSUME ImageTypes, NEW r \in Runs, Older, NoneFor(r)
    PROVE  Unfinished(r)' \subseteq Unfinished(r)
BY DEF ImageTypes, Copies, Older, NoneFor, Unfinished

\* What is stale stays so.
LEMMA StaleStays ==
    ASSUME ImageInv, NEW r \in Runs, Older,
           run'[r].stale \subseteq run[r].stale, run'[r].groups = run[r].groups
    PROVE  StaleSound(r)'
<1>1. run[r].stale \subseteq Caches
  BY DEF ImageInv, ImageTypes, Courses
<1>2. ASSUME NEW c \in run'[r].stale
      PROVE  /\ cache'[c].status # "unborn"
             /\ \/ cache'[c].status \in {"failed", "gone"}
                \/ cache'[c].images \cap UNION run'[r].groups = {}
  BY <1>1 DEF ImageInv, StaleSound, Older
<1>3. QED
  BY <1>2 DEF StaleSound

\* A run that takes no step, while others do.
LEMMA OthersStay ==
    ASSUME ImageInv, NEW r \in Runs, Older, NoneFor(r), run'[r] = run[r], eip'[r] = eip[r],
           excused \subseteq excused'
    PROVE  StaleSound(r)' /\ (r \in excused' \/ BuildSound(r)')
<1>1. Unfinished(r)' \subseteq Unfinished(r)
  BY NothingNew DEF ImageInv
<1>2. StaleSound(r)'
  BY StaleStays
<1>3. BuildSound(r) => BuildSound(r)'
  BY <1>1 DEF BuildSound
<1>4. QED
  BY <1>2, <1>3 DEF ImageInv

\* A cache is born to somebody.
LEMMA BornIs ==
    ASSUME ImageTypes, NEW c \in Store!With("unborn"), NEW g \in SUBSET AllImages, NEW who \in Makers,
           Store!Born(c, g, who)
    PROVE  /\ cache' \in [Caches -> Copies] /\ Older /\ \A q \in Runs \ {who} : NoneFor(q)
           /\ \A r \in Runs : Unfinished(r)' \subseteq Unfinished(r) \union {c}
<1> DEFINE new == [images |-> g, status |-> "building", maker |-> who]
<1>1. c \in Caches /\ cache[c].status = "unborn" /\ cache' = [cache EXCEPT ![c] = new]
  BY DEF Store!With, Store!Born
<1>2. new \in Copies /\ new.maker = who
  BY DEF Copies
<1> HIDE DEF new
<1>3. cache' \in [Caches -> Copies] /\ cache'[c] = new /\ \A d \in Caches \ {c} : cache'[d] = cache[d]
  BY <1>1, <1>2 DEF ImageTypes
<1>4. Older /\ \A q \in Runs \ {who} : NoneFor(q)
  BY <1>1, <1>2, <1>3 DEF Older, NoneFor
<1>5. \A r \in Runs : Unfinished(r)' \subseteq Unfinished(r) \union {c}
  BY <1>3 DEF Unfinished
<1>6. QED
  BY <1>3, <1>4, <1>5

\* A cache ends.
LEMMA EndIs ==
    ASSUME ImageTypes, NEW c \in Caches, NEW s \in {"ready", "failed", "gone"},
           s = "gone" \/ cache[c].status = "building", cache' = [cache EXCEPT ![c].status = s]
    PROVE  /\ cache' \in [Caches -> Copies] /\ Older /\ \A q \in Runs : NoneFor(q)
           /\ cache'[c].status = s
<1> DEFINE new == [cache[c] EXCEPT !.status = s]
<1>1. /\ new \in Copies /\ new.status = s
      /\ new.images = cache[c].images /\ new.maker = cache[c].maker
  BY DEF ImageTypes, Copies
<1>2. cache' = [cache EXCEPT ![c] = new]
  BY DEF ImageTypes
<1> HIDE DEF new
<1>3. cache' \in [Caches -> Copies] /\ cache'[c] = new /\ \A d \in Caches \ {c} : cache'[d] = cache[d]
  BY <1>1, <1>2 DEF ImageTypes
<1>4. QED
  BY <1>1, <1>3 DEF Older, NoneFor

\* No cache changes.
LEMMA NoCache ==
    ASSUME ImageTypes, UNCHANGED cache
    PROVE  cache' \in [Caches -> Copies] /\ Older /\ \A q \in Runs : NoneFor(q)
BY DEF ImageTypes, Older, NoneFor

\* What the cloud, colleagues and the operator do.
LEMMA ImageWorld ==
    ASSUME Grouped, ImageInv, \/ Store!CloudBuilds \/ Store!CloudEnds \/ Store!OtherBuilds
                              \/ Store!OtherDrops \/ Store!Deploy
    PROVE  ImageInv'
<1>1. UNCHANGED <<run, eip, excused>>
  BY DEF Store!CloudBuilds, Store!CloudEnds, Store!OtherBuilds, Store!OtherDrops, Store!Deploy
<1>2. ImageTypes
  BY DEF ImageInv
<1>3. enabled' \subseteq AllGroups
  BY <1>2, LayoutIs DEF Store!CloudBuilds, Store!CloudEnds, Store!OtherBuilds, Store!OtherDrops,
     Store!Deploy, ImageTypes
<1>4. cache' \in [Caches -> Copies] /\ Older /\ \A q \in Runs : NoneFor(q)
  <2>1. ASSUME NEW g \in enabled, NEW c \in Store!With("unborn"), NEW who \in {"eci", "other"},
               Store!Born(c, g, who)
        PROVE  cache' \in [Caches -> Copies] /\ Older /\ \A q \in Runs : NoneFor(q)
    <3>1. g \in SUBSET AllImages /\ who \in Makers /\ who \notin Runs
      BY <1>2 DEF ImageTypes, AllGroups, Makers, Grouped
    <3>2. QED
      BY <1>2, <2>1, <3>1, BornIs
  <2>2. ASSUME NEW c \in Store!With("building"), NEW s \in {"ready", "failed", "gone"},
               cache' = [cache EXCEPT ![c].status = s]
        PROVE  cache' \in [Caches -> Copies] /\ Older /\ \A q \in Runs : NoneFor(q)
    BY <1>2, <2>2, EndIs DEF Store!With
  <2>3. CASE Store!CloudBuilds
    BY <2>1, <2>3 DEF Store!CloudBuilds
  <2>4. CASE Store!OtherBuilds
    BY <2>1, <2>4 DEF Store!OtherBuilds
  <2>5. CASE Store!CloudEnds
    BY <2>2, <2>5 DEF Store!CloudEnds
  <2>6. CASE Store!OtherDrops
    BY <2>2, <2>6 DEF Store!OtherDrops
  <2>7. CASE Store!Deploy
    BY <1>2, <2>7, NoCache DEF Store!Deploy
  <2>8. QED
    BY <2>3, <2>4, <2>5, <2>6, <2>7
<1>5. ImageTypes'
  BY <1>1, <1>2, <1>3, <1>4 DEF ImageTypes
<1>6. \A r \in Runs : StaleSound(r)' /\ (r \in excused' \/ BuildSound(r)')
  BY <1>1, <1>4, OthersStay
<1>7. QED
  BY <1>5, <1>6 DEF ImageInv

\* A run goes its way; the others see at most that caches grow older.
LEMMA ImageRun ==
    ASSUME ImageInv, NEW r \in Runs, NEW new \in Courses, Store!Set(r, new), UNCHANGED enabled,
           new.pc # "idle", \A c, d \in new.id : c = d,
           cache' \in [Caches -> Copies], Older, \A q \in Runs \ {r} : NoneFor(q),
           NEW e \in {"none", "held", "leaked"}, eip' = [eip EXCEPT ![r] = e],
           excused \subseteq excused', StaleSound(r)', r \in excused' \/ BuildSound(r)'
    PROVE  ImageInv'
<1>1. /\ run' \in [Runs -> Courses] /\ run'[r] = new
      /\ \A q \in Runs \ {r} : run'[q] = run[q] /\ eip'[q] = eip[q]
      /\ eip' \in [Runs -> {"none", "held", "leaked"}]
  BY DEF ImageInv, ImageTypes, Store!Set
<1>2. ImageTypes'
  BY <1>1 DEF ImageInv, ImageTypes
<1>3. \A q \in Runs \ {r} : StaleSound(q)' /\ (q \in excused' \/ BuildSound(q)')
  BY <1>1, OthersStay
<1>4. QED
  BY <1>2, <1>3 DEF ImageInv

\* A step of a run that leaves what it knows as stale and its groups.
LEMMA ImageOnward ==
    ASSUME ImageInv, NEW r \in Runs, NEW new \in Courses, Store!Set(r, new), UNCHANGED enabled,
           new.stale \subseteq run[r].stale, new.groups = run[r].groups,
           new.pc # "idle", \A c, d \in new.id : c = d,
           cache' \in [Caches -> Copies], Older, \A q \in Runs \ {r} : NoneFor(q),
           NEW e \in {"none", "held", "leaked"}, eip' = [eip EXCEPT ![r] = e],
           excused \subseteq excused', r \in excused' \/ BuildSound(r)'
    PROVE  ImageInv'
<1>1. run'[r] = new
  BY DEF ImageInv, ImageTypes, Store!Set
<1>2. StaleSound(r)'
  BY <1>1, StaleStays
<1>3. QED
  BY <1>2, ImageRun

\* One that reads and decides, and touches neither caches nor its address, from
\* one place where it builds nothing to another.
LEMMA ImageDecides ==
    ASSUME ImageInv, NEW r \in Runs, NEW new \in Courses, Store!Set(r, new), Store!Kept,
           run[r].pc \in {"list", "decide", "await"},
           new.pc \in {"decide", "await", "allocate", "sweep"}, \A c, d \in new.id : c = d,
           StaleSound(r)'
    PROVE  ImageInv'
<1>1. UNCHANGED <<enabled, cache, eip, excused>>
  BY DEF Store!Kept
<1>2. eip[r] \in {"none", "held", "leaked"} /\ eip' = [eip EXCEPT ![r] = eip[r]]
  BY <1>1 DEF ImageInv, ImageTypes
<1>3. cache' \in [Caches -> Copies] /\ Older /\ \A q \in Runs : NoneFor(q)
  BY <1>1, NoCache DEF ImageInv
<1>4. run'[r] = new
  BY DEF ImageInv, ImageTypes, Store!Set
<1>5. r \in excused' \/ BuildSound(r)'
  BY <1>1, <1>4 DEF ImageInv, BuildSound, Unfinished
<1>6. QED
  BY <1>1, <1>2, <1>3, <1>5, ImageRun

\* A run begins with the layout, or with an image.
LEMMA ImageStarts ==
    ASSUME ImageInv, NEW r \in Runs, Store!Begin(r)
    PROVE  ImageInv'
<1>1. run[r].pc = "idle" /\ Store!Kept
  BY DEF Store!Begin
<1>2. ASSUME NEW cmd \in {"rebuild", "prepare"}, NEW wanted \in SUBSET AllGroups,
             Store!Set(r, [Store!Idle EXCEPT !.pc = "list", !.cmd = cmd, !.groups = wanted])
      PROVE  ImageInv'
  <2> DEFINE new == [Store!Idle EXCEPT !.pc = "list", !.cmd = cmd, !.groups = wanted]
  <2>1. new \in Courses /\ new.pc = "list" /\ new.id = {} /\ new.stale = {}
    <3>1. Store!Idle \in Courses /\ Store!Idle.id = {} /\ Store!Idle.stale = {}
      BY DEF Store!Idle, Courses
    <3>2. QED
      BY <3>1 DEF Courses
  <2>2. Store!Set(r, new)
    BY <1>2
  <2> HIDE DEF new
  <2>3. run'[r] = new
    BY <2>2 DEF ImageInv, ImageTypes, Store!Set
  <2>4. UNCHANGED <<enabled, cache, eip, excused>>
    BY <1>1 DEF Store!Kept
  <2>5. StaleSound(r)' /\ (r \in excused' \/ BuildSound(r)')
    BY <1>1, <2>1, <2>3, <2>4 DEF ImageInv, BuildSound, StaleSound, Unfinished
  <2>6. eip[r] \in {"none", "held", "leaked"} /\ eip' = [eip EXCEPT ![r] = eip[r]]
    BY <2>4 DEF ImageInv, ImageTypes
  <2>7. cache' \in [Caches -> Copies] /\ Older /\ \A q \in Runs : NoneFor(q)
    BY <2>4, NoCache DEF ImageInv
  <2>8. QED
    BY <2>1, <2>2, <2>4, <2>5, <2>6, <2>7, ImageRun
<1>3. enabled \in SUBSET AllGroups
  BY DEF ImageInv, ImageTypes
<1>4. ASSUME NEW i \in Images PROVE {{i}} \in SUBSET AllGroups
  <2>1. {i} \in AllGroups
    <3>1. i \in {i} /\ {i} \subseteq AllImages
      BY <1>4 DEF AllImages
    <3>2. {i} # {}
      BY <3>1
    <3>3. QED
      BY <3>1, <3>2 DEF AllGroups
  <2>2. QED
    BY <2>1
<1>5. QED
  BY <1>2, <1>3, <1>4 DEF Store!Begin

\* It reads the list of caches.
LEMMA ImageLists ==
    ASSUME ImageInv, NEW r \in Runs, Store!List(r)
    PROVE  ImageInv'
<1> DEFINE bare  == {g \in run[r].groups : ~\E c \in Store!With("ready") : Store!Covers(c, g)}
           stale == IF run[r].cmd = "rebuild" THEN Store!Stale(run[r].groups) ELSE {}
           new   == [run[r] EXCEPT !.pc = "decide", !.left = bare,
                                   !.building = Store!With("building"), !.stale = stale]
<1>1. run[r].pc = "list" /\ Store!Kept /\ Store!Set(r, new)
  BY DEF Store!List
<1>2. run[r] \in Courses /\ \A c, d \in run[r].id : c = d
  BY DEF ImageInv, ImageTypes
<1>3. bare \in SUBSET SUBSET AllImages /\ Store!With("building") \in SUBSET Caches /\ stale \in SUBSET Caches
  BY <1>2 DEF Courses, Store!With, Store!Stale, Store!Listed, AllGroups
<1>4. \A c \in stale : /\ cache[c].status # "unborn"
                       /\ \/ cache[c].status \in {"failed", "gone"}
                          \/ cache[c].images \cap UNION run[r].groups = {}
  BY DEF Store!Stale, Store!Listed
<1> HIDE DEF bare, stale
<1>5. /\ new \in Courses /\ new.pc = "decide" /\ new.stale = stale
      /\ new.groups = run[r].groups /\ new.id = run[r].id
  BY <1>2, <1>3 DEF Courses
<1> HIDE DEF new
<1>6. run'[r] = new /\ UNCHANGED cache
  BY <1>1 DEF ImageInv, ImageTypes, Store!Set, Store!Kept
<1>7. StaleSound(r)'
  BY <1>4, <1>5, <1>6 DEF StaleSound
<1>8. QED
  BY <1>1, <1>2, <1>5, <1>7, ImageDecides

\* What a run does that has nothing to wait for: it notes the group, or builds it.
LEMMA MissingIs ==
    ASSUME ImageInv, NEW r \in Runs, NEW g \in SUBSET AllImages
    PROVE  /\ Store!Missing(r, g) \in Courses
           /\ Store!Missing(r, g).pc \in {"decide", "allocate"}
           /\ Store!Missing(r, g).stale = run[r].stale /\ Store!Missing(r, g).groups = run[r].groups
           /\ Store!Missing(r, g).id = run[r].id
<1>1. run[r] \in Courses
  BY DEF ImageInv, ImageTypes
<1>2. run[r].left \ {g} \in SUBSET SUBSET AllImages /\ run[r].todo \union {g} \in SUBSET SUBSET AllImages
  BY <1>1 DEF Courses
<1>3. CASE run[r].cmd = "rebuild"
  BY <1>1, <1>2, <1>3 DEF Store!Missing, Courses
<1>4. CASE run[r].cmd # "rebuild"
  BY <1>1, <1>2, <1>4 DEF Store!Missing, Courses
<1>5. QED
  BY <1>3, <1>4

\* It decides of a group, or that all are decided of, or that the cache it
\* waited for is good.
LEMMA ImageChooses ==
    ASSUME ImageInv, NEW r \in Runs, Store!Decide(r) \/ Store!Decided(r) \/ Store!AwaitGood(r)
    PROVE  ImageInv'
<1>1. run[r] \in Courses /\ \A c, d \in run[r].id : c = d
  BY DEF ImageInv, ImageTypes
<1>2. run[r].pc \in {"decide", "await"} /\ Store!Kept
  BY DEF Store!Decide, Store!Decided, Store!AwaitGood
<1>3. ASSUME NEW new \in Courses, Store!Set(r, new),
             new.pc \in {"decide", "await", "allocate", "sweep"}, \A c, d \in new.id : c = d,
             new.stale = run[r].stale, new.groups = run[r].groups
      PROVE  ImageInv'
  <2>1. run'[r] = new /\ Older
    BY <1>2, <1>3, NoCache DEF ImageInv, ImageTypes, Store!Set, Store!Kept
  <2>2. StaleSound(r)'
    BY <1>3, <2>1, StaleStays
  <2>3. QED
    BY <1>2, <1>3, <2>2, ImageDecides
<1>4. ASSUME NEW g \in SUBSET AllImages, Store!Set(r, Store!Missing(r, g)) PROVE ImageInv'
  <2> DEFINE new == Store!Missing(r, g)
  <2>1. /\ new \in Courses /\ new.pc \in {"decide", "allocate"} /\ new.stale = run[r].stale
        /\ new.groups = run[r].groups /\ new.id = run[r].id
    BY MissingIs
  <2>2. Store!Set(r, new)
    BY <1>4
  <2> HIDE DEF new
  <2>3. QED
    BY <1>1, <1>3, <2>1, <2>2
<1>5. CASE Store!Decide(r)
  <2>1. PICK g \in run[r].left :
           LET watched == {c \in run[r].building : Store!Covers(c, g)}
           IN  IF watched = {} THEN Store!Set(r, Store!Missing(r, g))
               ELSE \E c \in watched :
                       Store!Set(r, [run[r] EXCEPT !.pc = "await", !.group = g, !.id = {c}])
    BY <1>5 DEF Store!Decide
  <2>2. g \in SUBSET AllImages /\ run[r].building \subseteq Caches
    BY <1>1, <2>1 DEF Courses
  <2>3. ASSUME NEW c \in run[r].building,
               Store!Set(r, [run[r] EXCEPT !.pc = "await", !.group = g, !.id = {c}])
        PROVE  ImageInv'
    <3> DEFINE new == [run[r] EXCEPT !.pc = "await", !.group = g, !.id = {c}]
    <3>1. /\ new \in Courses /\ new.pc = "await" /\ new.stale = run[r].stale
          /\ new.groups = run[r].groups /\ new.id = {c}
      BY <1>1, <2>2 DEF Courses
    <3>2. Store!Set(r, new)
      BY <2>3
    <3> HIDE DEF new
    <3>3. QED
      BY <1>3, <3>1, <3>2
  <2>4. QED
    BY <1>4, <2>1, <2>2, <2>3
<1>6. CASE Store!Decided(r)
  <2>1. ASSUME NEW g \in run[r].todo,
               Store!Set(r, [run[r] EXCEPT !.pc = "allocate", !.group = g, !.todo = @ \ {g}])
        PROVE  ImageInv'
    <3> DEFINE new == [run[r] EXCEPT !.pc = "allocate", !.group = g, !.todo = run[r].todo \ {g}]
    <3>1. /\ new \in Courses /\ new.pc = "allocate" /\ new.stale = run[r].stale
          /\ new.groups = run[r].groups /\ new.id = run[r].id
      BY <1>1 DEF Courses
    <3>2. Store!Set(r, new)
      BY <2>1
    <3> HIDE DEF new
    <3>3. QED
      BY <1>1, <1>3, <3>1, <3>2
  <2>2. ASSUME Store!Goes(r, "sweep") PROVE ImageInv'
    <3> DEFINE new == [run[r] EXCEPT !.pc = "sweep"]
    <3>1. /\ new \in Courses /\ new.pc = "sweep" /\ new.stale = run[r].stale
          /\ new.groups = run[r].groups /\ new.id = run[r].id
      BY <1>1 DEF Courses
    <3>2. Store!Set(r, new)
      BY <2>2 DEF Store!Goes, Store!Set
    <3> HIDE DEF new
    <3>3. QED
      BY <1>1, <1>3, <3>1, <3>2
  <2>3. QED
    BY <1>6, <2>1, <2>2 DEF Store!Decided
<1>7. CASE Store!AwaitGood(r)
  <2>1. run[r].group \in SUBSET AllImages
    BY <1>1 DEF Courses
  <2>2. ASSUME Store!Set(r, [run[r] EXCEPT !.pc = "decide", !.left = @ \ {run[r].group}])
        PROVE  ImageInv'
    <3> DEFINE new == [run[r] EXCEPT !.pc = "decide", !.left = run[r].left \ {run[r].group}]
    <3>1. /\ new \in Courses /\ new.pc = "decide" /\ new.stale = run[r].stale
          /\ new.groups = run[r].groups /\ new.id = run[r].id
      BY <1>1 DEF Courses
    <3>2. Store!Set(r, new)
      BY <2>2
    <3> HIDE DEF new
    <3>3. QED
      BY <1>1, <1>3, <3>1, <3>2
  <2>3. QED
    BY <1>4, <1>7, <2>1, <2>2 DEF Store!AwaitGood
<1>8. QED
  BY <1>5, <1>6, <1>7

\* A cache is dropped, or the run is excused.
LEMMA DropIs ==
    ASSUME ImageInv, NEW r \in Runs, NEW c \in Caches, Store!Drop(r, c)
    PROVE  /\ cache' \in [Caches -> Copies] /\ Older /\ \A q \in Runs : NoneFor(q)
           /\ excused \subseteq excused' /\ (r \in excused' \/ cache'[c].status = "gone")
<1>1. CASE cache' = [cache EXCEPT ![c].status = "gone"] /\ UNCHANGED excused
  <2>1. "gone" \in {"ready", "failed", "gone"}
    OBVIOUS
  <2>2. QED
    BY <1>1, <2>1, EndIs DEF ImageInv
<1>2. CASE UNCHANGED cache /\ excused' = excused \cup {r}
  BY <1>2, NoCache DEF ImageInv
<1>3. QED
  BY <1>1, <1>2 DEF Store!Drop, Store!Excuse

\* A run goes on, and knows as much as before.
LEMMA PlaceIs ==
    ASSUME ImageInv, NEW r \in Runs, NEW pc, Store!Goes(r, pc),
           pc \in {"list", "decide", "await", "allocate", "create", "wait", "finally", "release",
                   "sweep", "done", "killed"}
    PROVE  /\ [run[r] EXCEPT !.pc = pc] \in Courses /\ Store!Set(r, [run[r] EXCEPT !.pc = pc])
           /\ [run[r] EXCEPT !.pc = pc].pc = pc /\ [run[r] EXCEPT !.pc = pc].stale = run[r].stale
           /\ [run[r] EXCEPT !.pc = pc].groups = run[r].groups
           /\ [run[r] EXCEPT !.pc = pc].id = run[r].id
           /\ [run[r] EXCEPT !.pc = pc].todo = run[r].todo
           /\ [run[r] EXCEPT !.pc = pc].ready = run[r].ready
<1>1. run[r] \in Courses
  BY DEF ImageInv, ImageTypes
<1>2. /\ [run[r] EXCEPT !.pc = pc] \in Courses
      /\ [run[r] EXCEPT !.pc = pc].pc = pc /\ [run[r] EXCEPT !.pc = pc].stale = run[r].stale
      /\ [run[r] EXCEPT !.pc = pc].groups = run[r].groups
      /\ [run[r] EXCEPT !.pc = pc].id = run[r].id
      /\ [run[r] EXCEPT !.pc = pc].todo = run[r].todo
      /\ [run[r] EXCEPT !.pc = pc].ready = run[r].ready
  BY <1>1 DEF Courses
<1>3. Store!Set(r, [run[r] EXCEPT !.pc = pc])
  BY DEF Store!Goes, Store!Set
<1>4. QED
  BY <1>2, <1>3

\* The build that it waited for failed or takes too long.
LEMMA ImageGivesUp ==
    ASSUME ImageInv, NEW r \in Runs, Store!AwaitBad(r)
    PROVE  ImageInv'
<1>1. run[r] \in Courses /\ \A c, d \in run[r].id : c = d
  BY DEF ImageInv, ImageTypes
<1>2. PICK c \in run[r].id : Store!Drop(r, c) /\ Store!Set(r, Store!Missing(r, run[r].group))
  BY DEF Store!AwaitBad
<1> DEFINE new == Store!Missing(r, run[r].group)
<1>3. /\ new \in Courses /\ new.pc \in {"decide", "allocate"} /\ new.stale = run[r].stale
      /\ new.groups = run[r].groups /\ new.id = run[r].id
  BY <1>1, MissingIs DEF Courses
<1>4. Store!Set(r, new)
  BY <1>2
<1> HIDE DEF new
<1>5. /\ cache' \in [Caches -> Copies] /\ Older /\ \A q \in Runs : NoneFor(q)
      /\ excused \subseteq excused'
  BY <1>1, <1>2, DropIs DEF Courses
<1>6. /\ UNCHANGED <<enabled, eip>> /\ run[r].pc = "await" /\ run'[r] = new
      /\ eip[r] \in {"none", "held", "leaked"} /\ eip' = [eip EXCEPT ![r] = eip[r]]
  BY <1>4 DEF Store!AwaitBad, Store!Set, ImageInv, ImageTypes
<1>7. Unfinished(r)' \subseteq Unfinished(r)
  BY <1>5, NothingNew DEF ImageInv
<1>8. r \in excused' \/ BuildSound(r)'
  BY <1>3, <1>5, <1>6, <1>7 DEF ImageInv, BuildSound
<1>9. QED
  BY <1>1, <1>3, <1>4, <1>5, <1>6, <1>8, ImageOnward

\* An address is taken, or the run ends.
LEMMA ImageAllocates ==
    ASSUME ImageInv, NEW r \in Runs, Store!Allocate(r)
    PROVE  ImageInv'
<1>1. run[r] \in Courses /\ run[r].pc = "allocate" /\ \A c, d \in run[r].id : c = d
  BY DEF ImageInv, ImageTypes, Store!Allocate
<1>2. /\ UNCHANGED <<enabled, cache>>
      /\ cache' \in [Caches -> Copies] /\ Older /\ \A q \in Runs : NoneFor(q)
  BY NoCache DEF Store!Allocate, ImageInv
<1>3. CASE /\ eip' = [eip EXCEPT ![r] = "held"] /\ UNCHANGED <<excused, upsets>>
           /\ Store!Set(r, [run[r] EXCEPT !.pc = "create", !.id = {}, !.ready = FALSE])
  <2> DEFINE new == [run[r] EXCEPT !.pc = "create", !.id = {}, !.ready = FALSE]
  <2>1. /\ new \in Courses /\ new.pc = "create" /\ new.stale = run[r].stale
        /\ new.groups = run[r].groups /\ new.id = {} /\ ~new.ready
    BY <1>1 DEF Courses
  <2>2. Store!Set(r, new)
    BY <1>3
  <2> HIDE DEF new
  <2>3. run'[r] = new
    BY <2>2 DEF Store!Set, ImageInv, ImageTypes
  <2>4. r \in excused' \/ BuildSound(r)'
    BY <1>1, <1>2, <1>3, <2>1, <2>3 DEF ImageInv, BuildSound, Unfinished
  <2>5. QED
    BY <1>2, <1>3, <2>1, <2>2, <2>4, ImageOnward
<1>4. CASE /\ Store!Excuse(r) /\ Store!Goes(r, "done")
           /\ \E e \in {"none", "leaked"} : eip' = [eip EXCEPT ![r] = e]
  <2> DEFINE new == [run[r] EXCEPT !.pc = "done"]
  <2>1. /\ new \in Courses /\ Store!Set(r, new) /\ new.pc = "done" /\ new.stale = run[r].stale
        /\ new.groups = run[r].groups /\ new.id = run[r].id
    BY <1>4, PlaceIs
  <2> HIDE DEF new
  <2>2. PICK e \in {"none", "leaked"} : eip' = [eip EXCEPT ![r] = e]
    BY <1>4
  <2>3. e \in {"none", "held", "leaked"} /\ excused \subseteq excused' /\ r \in excused'
    BY <1>4 DEF Store!Excuse
  <2>4. \A q \in Runs \ {r} : NoneFor(q)
    BY <1>2
  <2>5. UNCHANGED enabled /\ new.pc # "idle" /\ \A c, d \in new.id : c = d
    BY <1>1, <1>2, <2>1
  <2>6. QED
    BY <1>2, <2>1, <2>2, <2>3, <2>4, <2>5, ImageOnward
<1>5. QED
  BY <1>3, <1>4 DEF Store!Allocate

\* The build begins, or its answer is lost.
LEMMA ImageCreates ==
    ASSUME ImageInv, NEW r \in Runs, Store!Create(r)
    PROVE  ImageInv'
<1>1. run[r] \in Courses /\ run[r].pc = "create" /\ \A c, d \in run[r].id : c = d
  BY DEF ImageInv, ImageTypes, Store!Create
<1>2. /\ UNCHANGED <<enabled, eip>> /\ eip[r] \in {"none", "held", "leaked"}
      /\ eip' = [eip EXCEPT ![r] = eip[r]]
  BY DEF Store!Create, ImageInv, ImageTypes
<1>3. run[r].group \in SUBSET AllImages /\ r \in Makers
  BY <1>1 DEF Courses, Makers
<1>4. ASSUME NEW c \in Store!With("unborn"), Store!Born(c, run[r].group, r)
      PROVE  /\ cache' \in [Caches -> Copies] /\ Older /\ \A q \in Runs \ {r} : NoneFor(q)
             /\ Unfinished(r)' \subseteq Unfinished(r) \union {c}
  BY <1>3, <1>4, BornIs DEF ImageInv
<1>5. ASSUME NEW c \in Store!With("unborn"), Store!Born(c, run[r].group, r), UNCHANGED excused,
             Store!Set(r, [run[r] EXCEPT !.pc = "wait", !.id = {c}])
      PROVE  ImageInv'
  <2> DEFINE new == [run[r] EXCEPT !.pc = "wait", !.id = {c}]
  <2>1. /\ new \in Courses /\ new.pc = "wait" /\ new.stale = run[r].stale
        /\ new.groups = run[r].groups /\ new.id = {c} /\ new.ready = run[r].ready
    BY <1>1 DEF Courses, Store!With
  <2>2. Store!Set(r, new)
    BY <1>5
  <2> HIDE DEF new
  <2>3. run'[r] = new
    BY <2>2 DEF Store!Set, ImageInv, ImageTypes
  <2>4. r \in excused' \/ BuildSound(r)'
    BY <1>1, <1>4, <1>5, <2>1, <2>3 DEF ImageInv, BuildSound
  <2>5. QED
    BY <1>2, <1>4, <1>5, <2>1, <2>2, <2>4, ImageOnward
<1>6. CASE /\ Store!Excuse(r) /\ Store!Goes(r, "finally")
           /\ \/ UNCHANGED cache
              \/ \E c \in Store!With("unborn") : Store!Born(c, run[r].group, r)
  <2> DEFINE new == [run[r] EXCEPT !.pc = "finally"]
  <2>1. /\ new \in Courses /\ Store!Set(r, new) /\ new.pc = "finally" /\ new.stale = run[r].stale
        /\ new.groups = run[r].groups /\ new.id = run[r].id
    BY <1>6, PlaceIs
  <2> HIDE DEF new
  <2>2. cache' \in [Caches -> Copies] /\ Older /\ \A q \in Runs \ {r} : NoneFor(q)
    BY <1>4, <1>6, NoCache DEF ImageInv
  <2>3. /\ UNCHANGED enabled /\ excused \subseteq excused' /\ r \in excused'
        /\ new.stale \subseteq run[r].stale /\ new.pc # "idle" /\ \A c, d \in new.id : c = d
    BY <1>1, <1>2, <1>6, <2>1 DEF Store!Excuse
  <2>4. PICK e \in {"none", "held", "leaked"} : eip' = [eip EXCEPT ![r] = e]
    BY <1>1, <1>2
  <2>5. QED
    BY <2>1, <2>2, <2>3, <2>4, ImageOnward
<1>7. QED
  BY <1>5, <1>6 DEF Store!Create

\* It waits no longer.
LEMMA ImageWaits ==
    ASSUME ImageInv, NEW r \in Runs, Store!Wait(r)
    PROVE  ImageInv'
<1>1. run[r] \in Courses /\ run[r].pc = "wait" /\ Store!Kept /\ \A c, d \in run[r].id : c = d
  BY DEF ImageInv, ImageTypes, Store!Wait
<1>2. /\ UNCHANGED <<enabled, cache, eip, excused>> /\ eip[r] \in {"none", "held", "leaked"}
      /\ eip' = [eip EXCEPT ![r] = eip[r]]
      /\ cache' \in [Caches -> Copies] /\ Older /\ \A q \in Runs : NoneFor(q)
  BY <1>1, NoCache DEF Store!Kept, ImageInv, ImageTypes
<1>3. PICK c \in run[r].id :
         \/ cache[c].status = "ready" /\ Store!Set(r, [run[r] EXCEPT !.pc = "finally", !.ready = TRUE])
         \/ Store!Goes(r, "finally")
  BY DEF Store!Wait
<1>4. ASSUME NEW new \in Courses, Store!Set(r, new), new.pc = "finally", new.stale = run[r].stale,
             new.groups = run[r].groups, new.id = run[r].id,
             new.ready = run[r].ready \/ (new.ready /\ cache[c].status = "ready")
      PROVE  ImageInv'
  <2>1. run'[r] = new
    BY <1>4 DEF Store!Set, ImageInv, ImageTypes
  <2>2. Unfinished(r)' = Unfinished(r)
    BY <1>2 DEF Unfinished
  <2>3. BuildSound(r) => BuildSound(r)'
    <3>1. SUFFICES ASSUME BuildSound(r) PROVE BuildSound(r)'
      OBVIOUS
    <3>2. ~run[r].ready /\ Unfinished(r) \subseteq run[r].id
      BY <1>1, <3>1 DEF BuildSound
    <3>3. new.ready => Unfinished(r) = {}
      <4>1. SUFFICES ASSUME new.ready, NEW d \in Unfinished(r) PROVE FALSE
        OBVIOUS
      <4>2. d \in run[r].id /\ cache[d].status = "building" /\ cache[c].status = "ready"
        BY <1>4, <3>2, <4>1 DEF Unfinished
      <4>3. c = d
        BY <1>1, <1>3, <4>2
      <4>4. QED
        BY <4>2, <4>3
    <3>4. QED
      BY <1>4, <2>1, <2>2, <3>2, <3>3 DEF BuildSound
  <2>4. r \in excused' \/ BuildSound(r)'
    BY <1>2, <2>3 DEF ImageInv
  <2>5. QED
    BY <1>1, <1>2, <1>4, <2>4, ImageOnward
<1>5. CASE cache[c].status = "ready" /\ Store!Set(r, [run[r] EXCEPT !.pc = "finally", !.ready = TRUE])
  <2> DEFINE new == [run[r] EXCEPT !.pc = "finally", !.ready = TRUE]
  <2>1. /\ new \in Courses /\ new.pc = "finally" /\ new.stale = run[r].stale
        /\ new.groups = run[r].groups /\ new.id = run[r].id /\ new.ready
    BY <1>1 DEF Courses
  <2>2. Store!Set(r, new)
    BY <1>5
  <2> HIDE DEF new
  <2>3. QED
    BY <1>4, <1>5, <2>1, <2>2
<1>6. CASE Store!Goes(r, "finally")
  <2> DEFINE new == [run[r] EXCEPT !.pc = "finally"]
  <2>1. /\ new \in Courses /\ Store!Set(r, new) /\ new.pc = "finally" /\ new.stale = run[r].stale
        /\ new.groups = run[r].groups /\ new.id = run[r].id /\ new.ready = run[r].ready
    BY <1>6, PlaceIs
  <2> HIDE DEF new
  <2>2. QED
    BY <1>4, <2>1
<1>7. QED
  BY <1>3, <1>5, <1>6

\* It drops what it could not finish.
LEMMA ImageFinishes ==
    ASSUME ImageInv, NEW r \in Runs, Store!Finally(r)
    PROVE  ImageInv'
<1>1. /\ run[r] \in Courses /\ run[r].pc = "finally" /\ \A c, d \in run[r].id : c = d
      /\ UNCHANGED <<enabled, eip>> /\ Store!Goes(r, "release")
      /\ eip[r] \in {"none", "held", "leaked"} /\ eip' = [eip EXCEPT ![r] = eip[r]]
  BY DEF ImageInv, ImageTypes, Store!Finally
<1> DEFINE new == [run[r] EXCEPT !.pc = "release"]
<1>2. /\ new \in Courses /\ Store!Set(r, new) /\ new.pc = "release" /\ new.stale = run[r].stale
      /\ new.groups = run[r].groups /\ new.id = run[r].id
  BY <1>1, PlaceIs
<1> HIDE DEF new
<1>3. run'[r] = new
  BY <1>2 DEF Store!Set, ImageInv, ImageTypes
<1>4. CASE (run[r].ready \/ run[r].id = {}) /\ UNCHANGED <<cache, excused>>
  <2>1. cache' \in [Caches -> Copies] /\ Older /\ \A q \in Runs : NoneFor(q)
    BY <1>4, NoCache DEF ImageInv
  <2>2. Unfinished(r)' = Unfinished(r)
    BY <1>4 DEF Unfinished
  <2>3. r \in excused' \/ BuildSound(r)'
    BY <1>1, <1>2, <1>3, <1>4, <2>2 DEF ImageInv, BuildSound
  <2>4. /\ UNCHANGED enabled /\ new.pc # "idle" /\ \A c, d \in new.id : c = d
        /\ excused \subseteq excused' /\ \A q \in Runs \ {r} : NoneFor(q)
    BY <1>1, <1>2, <1>4, <2>1
  <2>5. QED
    BY <1>1, <1>2, <2>1, <2>3, <2>4, ImageOnward
<1>5. CASE ~(run[r].ready \/ run[r].id = {}) /\ \E c \in run[r].id : Store!Drop(r, c)
  <2>1. PICK c \in run[r].id : Store!Drop(r, c)
    BY <1>5
  <2>2. /\ cache' \in [Caches -> Copies] /\ Older /\ \A q \in Runs : NoneFor(q)
        /\ excused \subseteq excused' /\ (r \in excused' \/ cache'[c].status = "gone")
    BY <1>1, <2>1, DropIs DEF Courses
  <2>3. Unfinished(r)' \subseteq Unfinished(r)
    BY <2>2, NothingNew DEF ImageInv
  <2>4. r \in excused' \/ BuildSound(r)'
    <3>1. SUFFICES ASSUME r \notin excused' PROVE BuildSound(r)'
      OBVIOUS
    <3>2. Unfinished(r) \subseteq run[r].id /\ cache'[c].status = "gone"
      BY <1>1, <1>5, <2>2, <3>1 DEF ImageInv, BuildSound
    <3>3. Unfinished(r)' = {}
      <4>1. SUFFICES ASSUME NEW d \in Unfinished(r)' PROVE FALSE
        OBVIOUS
      <4>2. d \in run[r].id /\ cache'[d].status = "building"
        BY <2>3, <3>2, <4>1 DEF Unfinished
      <4>3. QED
        BY <1>1, <2>1, <3>2, <4>2
    <3>4. QED
      BY <1>2, <1>3, <3>3 DEF BuildSound
  <2>5. QED
    BY <1>1, <1>2, <2>2, <2>4, ImageOnward
<1>6. QED
  BY <1>4, <1>5 DEF Store!Finally

\* It gives its address back.
LEMMA ImageReleases ==
    ASSUME ImageInv, NEW r \in Runs, Store!Release(r)
    PROVE  ImageInv'
<1>1. run[r] \in Courses /\ run[r].pc = "release" /\ \A c, d \in run[r].id : c = d
  BY DEF ImageInv, ImageTypes, Store!Release
<1>2. /\ UNCHANGED <<enabled, cache>>
      /\ cache' \in [Caches -> Copies] /\ Older /\ \A q \in Runs : NoneFor(q)
  BY NoCache DEF Store!Release, ImageInv
<1>3. Unfinished(r)' = Unfinished(r)
  BY <1>2 DEF Unfinished
<1>4. PICK pc \in {"done", "decide", "sweep"} : Store!Goes(r, pc)
  BY DEF Store!Release, Store!After
<1>5. PICK e \in {"none", "leaked"} :
         /\ eip' = [eip EXCEPT ![r] = e] /\ excused \subseteq excused'
         /\ e = "none" \/ r \in excused'
  BY DEF Store!Release, Store!Excuse
<1> DEFINE new == [run[r] EXCEPT !.pc = pc]
<1>6. /\ new \in Courses /\ Store!Set(r, new) /\ new.pc = pc /\ new.stale = run[r].stale
      /\ new.groups = run[r].groups /\ new.id = run[r].id
  BY <1>4, PlaceIs
<1> HIDE DEF new
<1>7. run'[r] = new /\ eip'[r] = e /\ e \in {"none", "held", "leaked"}
  BY <1>5, <1>6 DEF Store!Set, ImageInv, ImageTypes
<1>8. r \in excused' \/ BuildSound(r)'
  BY <1>1, <1>3, <1>4, <1>5, <1>6, <1>7 DEF ImageInv, BuildSound
<1>9. /\ UNCHANGED enabled /\ new.pc # "idle" /\ \A c, d \in new.id : c = d
      /\ \A q \in Runs \ {r} : NoneFor(q)
  BY <1>1, <1>2, <1>4, <1>6
<1>10. QED
  BY <1>2, <1>5, <1>6, <1>7, <1>8, <1>9, ImageOnward

\* It sweeps.
LEMMA ImageSweeps ==
    ASSUME ImageInv, NEW r \in Runs, Store!Sweep(r)
    PROVE  ImageInv'
<1>1. /\ run[r] \in Courses /\ run[r].pc = "sweep" /\ \A c, d \in run[r].id : c = d
      /\ UNCHANGED <<enabled, eip>>
      /\ eip[r] \in {"none", "held", "leaked"} /\ eip' = [eip EXCEPT ![r] = eip[r]]
  BY DEF ImageInv, ImageTypes, Store!Sweep
<1>2. ASSUME NEW new \in Courses, Store!Set(r, new), new.pc \in {"sweep", "done"},
             new.stale \subseteq run[r].stale, new.groups = run[r].groups, new.id = run[r].id,
             cache' \in [Caches -> Copies], Older, \A q \in Runs : NoneFor(q),
             excused \subseteq excused'
      PROVE  ImageInv'
  <2>1. run'[r] = new
    BY <1>2 DEF Store!Set, ImageInv, ImageTypes
  <2>2. Unfinished(r)' \subseteq Unfinished(r)
    BY <1>2, NothingNew DEF ImageInv
  <2>3. r \in excused' \/ BuildSound(r)'
    BY <1>1, <1>2, <2>1, <2>2 DEF ImageInv, BuildSound
  <2>4. /\ UNCHANGED enabled /\ new.pc # "idle" /\ \A c, d \in new.id : c = d
        /\ \A q \in Runs \ {r} : NoneFor(q)
    BY <1>1, <1>2
  <2>5. QED
    BY <1>1, <1>2, <2>3, <2>4, ImageOnward
<1>3. ASSUME NEW c \in run[r].stale, Store!Drop(r, c),
             Store!Set(r, [run[r] EXCEPT !.stale = @ \ {c}])
      PROVE  ImageInv'
  <2> DEFINE new == [run[r] EXCEPT !.stale = run[r].stale \ {c}]
  <2>1. /\ new \in Courses /\ new.pc = "sweep" /\ new.stale \subseteq run[r].stale
        /\ new.groups = run[r].groups /\ new.id = run[r].id
    BY <1>1 DEF Courses
  <2>2. Store!Set(r, new)
    BY <1>3
  <2> HIDE DEF new
  <2>3. QED
    BY <1>1, <1>2, <1>3, <2>1, <2>2, DropIs DEF Courses
<1>4. ASSUME Store!Goes(r, "done"), UNCHANGED <<cache, excused>> PROVE ImageInv'
  <2> DEFINE new == [run[r] EXCEPT !.pc = "done"]
  <2>1. /\ new \in Courses /\ Store!Set(r, new) /\ new.pc = "done" /\ new.stale = run[r].stale
        /\ new.groups = run[r].groups /\ new.id = run[r].id
    BY <1>4, PlaceIs
  <2> HIDE DEF new
  <2>2. QED
    BY <1>2, <1>4, <2>1, NoCache DEF ImageInv
<1>5. QED
  BY <1>3, <1>4 DEF Store!Sweep

\* It is killed: what it held stays where it is.
LEMMA ImageIsKilled ==
    ASSUME ImageInv, NEW r \in Runs, Store!Killed(r)
    PROVE  ImageInv'
<1>1. /\ run[r] \in Courses /\ \A c, d \in run[r].id : c = d
      /\ UNCHANGED <<enabled, cache, eip, excused>> /\ Store!Goes(r, "killed")
      /\ eip[r] \in {"none", "held", "leaked"} /\ eip' = [eip EXCEPT ![r] = eip[r]]
  BY DEF ImageInv, ImageTypes, Store!Killed
<1> DEFINE new == [run[r] EXCEPT !.pc = "killed"]
<1>2. /\ new \in Courses /\ Store!Set(r, new) /\ new.pc = "killed" /\ new.stale = run[r].stale
      /\ new.groups = run[r].groups /\ new.id = run[r].id
  BY <1>1, PlaceIs
<1> HIDE DEF new
<1>3. run'[r] = new
  BY <1>2 DEF Store!Set, ImageInv, ImageTypes
<1>4. BuildSound(r)'
  BY <1>2, <1>3 DEF BuildSound
<1>5. cache' \in [Caches -> Copies] /\ Older /\ \A q \in Runs : NoneFor(q)
  BY <1>1, NoCache DEF ImageInv
<1>6. /\ UNCHANGED enabled /\ new.pc # "idle" /\ \A c, d \in new.id : c = d
      /\ excused \subseteq excused' /\ \A q \in Runs \ {r} : NoneFor(q)
  BY <1>1, <1>2, <1>5
<1>7. QED
  BY <1>1, <1>2, <1>4, <1>5, <1>6, ImageOnward

\* Every step of Next.
LEMMA ImageStep == Grouped /\ ImageInv /\ [Store!Next]_Store!cacheVars => ImageInv'
<1>1. SUFFICES ASSUME Grouped, ImageInv, [Store!Next]_Store!cacheVars PROVE ImageInv'
  OBVIOUS
<1>2. CASE \/ Store!CloudBuilds \/ Store!CloudEnds \/ Store!OtherBuilds
           \/ Store!OtherDrops \/ Store!Deploy
  BY <1>1, <1>2, ImageWorld
<1>3. ASSUME NEW r \in Runs, Store!Step(r) PROVE ImageInv'
  BY <1>1, <1>3, ImageStarts, ImageLists, ImageChooses, ImageGivesUp, ImageAllocates, ImageCreates,
     ImageWaits, ImageFinishes, ImageReleases, ImageSweeps, ImageIsKilled DEF Store!Step
<1>4. CASE UNCHANGED Store!cacheVars
  BY <1>1, <1>4 DEF Store!cacheVars, ImageInv, ImageTypes, StaleSound, BuildSound, Unfinished
<1>5. QED
  BY <1>1, <1>2, <1>3, <1>4 DEF Store!Next

\* A run that came to its end and was refused nothing leaves neither an
\* address that costs money nor a cache that is built for ever
\* (eci_image_cache.py:321-345).
THEOREM NothingIsLeft == Grouped /\ Store!Spec => []Store!NothingLeftBehind
<1>1. SUFFICES ASSUME Grouped PROVE Store!Spec => []Store!NothingLeftBehind
  OBVIOUS
<1>2. Store!Init => ImageInv
  BY <1>1, ImageBegins
<1>3. ImageInv /\ [Store!Next]_Store!cacheVars => ImageInv'
  BY <1>1, ImageStep
<1>4. ImageInv => Store!NothingLeftBehind
  <2>1. SUFFICES ASSUME ImageInv, NEW r \in Runs \ excused, run[r].pc = "done"
                 PROVE  /\ eip[r] = "none"
                        /\ ~\E c \in Store!With("building") : cache[c].maker = r
    BY DEF Store!NothingLeftBehind
  <2>2. eip[r] = "none" /\ Unfinished(r) = {}
    BY <2>1 DEF ImageInv, BuildSound
  <2>3. QED
    BY <2>2 DEF Unfinished, Store!With
<1>5. QED
  BY <1>2, <1>3, <1>4, PTL DEF Store!Spec

\* A cache that goes away in a sweep is not one from which a product that was
\* enabled when the run began is started (eci_image_cache.py:226-233).
THEOREM SweepSparesOthers == Grouped /\ Store!Spec => Store!SparesTheOthers
<1>1. SUFFICES ASSUME Grouped PROVE Store!Spec => Store!SparesTheOthers
  OBVIOUS
<1>2. Store!Init => ImageInv
  BY <1>1, ImageBegins
<1>3. ImageInv /\ [Store!Next]_Store!cacheVars => ImageInv'
  BY <1>1, ImageStep
<1>4. ImageInv /\ [Store!Next]_Store!cacheVars => [Store!SparesOthers]_Store!cacheVars
  <2>1. SUFFICES ASSUME ImageInv, NEW r \in Runs, NEW c \in Caches, NEW g \in run[r].groups,
                        c \in run[r].stale, cache[c].status = "ready", Store!Covers(c, g)
                 PROVE  FALSE
    BY DEF Store!SparesOthers
  <2>2. cache[c].images \cap UNION run[r].groups = {}
    BY <2>1 DEF ImageInv, StaleSound
  <2>3. g # {} /\ g \subseteq cache[c].images
    BY <2>1 DEF ImageInv, ImageTypes, Courses, AllGroups, Store!Covers
  <2>4. QED
    BY <2>1, <2>2, <2>3
<1>5. QED
  BY <1>2, <1>3, <1>4, PTL DEF Store!Spec, Store!SparesTheOthers

-----------------------------------------------------------------------------
(* MachineTime.                                                             *)

CONSTANTS Machines, Packs, Included, PackSize, Ceilings, MaxTime, MaxRows
VARIABLES time, ends, log, pack, pool, ceiling, busy
Meters == INSTANCE MachineTime
    WITH Products <- Machines, MaxNow <- MaxTime, now <- time, running <- busy

\* Packs and products can be counted, and a plan or a pack has minutes or none.
Metering ==
    /\ IsFiniteSet(Machines) /\ IsFiniteSet(Packs)
    /\ Included \in Nat /\ PackSize \in Nat /\ MaxTime \in Nat

Minute == [left : Nat, until : Int]

\* Nothing is written down for the spans to come.
MeterInv ==
    /\ time \in 0..MaxTime /\ ends \in Int
    /\ log \in [0..MaxTime -> [Machines -> Nat]]
    /\ \A t \in 0..MaxTime : t > time => \A p \in Machines : log[t][p] = 0
    /\ pack \in [Packs -> Minute]

\* The smaller of two, and what of a debt another sum does not cover.
Lesser(a, b) == IF a <= b THEN a ELSE b
Owed(u, n)   == IF n <= u THEN u - n ELSE 0

\* Those before a member in an order.
Earlier(S, order, g) == {h \in S : order[h] < order[g]}

\* Each in its turn pays what it has or what is still to pay.
InTurn(S, order, has, paid, u) ==
    \A g \in S : paid[g] = Lesser(has[g], Owed(u, Total(has, Earlier(S, order, g))))

\* The component has the same sums, and the same extrema of two numbers.
LEMMA MeterSums ==
    /\ \A f, S : Meters!Total(f, S) = Total(f, S)
    /\ \A a, b \in Int : /\ Meters!Min({a, b}) = Lesser(a, b)
                         /\ Meters!Max({0, a - b}) = Owed(a, b)
<1>1. ASSUME NEW f, NEW S PROVE Meters!Total(f, S) = Total(f, S)
  BY DEF Meters!Total, Total, Meters!MapThenSumSet, MapThenSumSet, Meters!MapThenFoldSet,
     MapThenFoldSet
<1>2. ASSUME NEW a \in Int, NEW b \in Int PROVE Meters!Min({a, b}) = Lesser(a, b)
  <2>1. Lesser(a, b) \in {a, b} /\ \A y \in {a, b} : Lesser(a, b) <= y
    BY DEF Lesser
  <2>2. ASSUME NEW x \in {a, b}, \A y \in {a, b} : x <= y PROVE x = Lesser(a, b)
    BY <2>2 DEF Lesser
  <2>3. QED
    BY <2>1, <2>2 DEF Meters!Min
<1>3. ASSUME NEW a \in Int, NEW b \in Int PROVE Meters!Max({0, a - b}) = Owed(a, b)
  <2>1. Owed(a, b) \in {0, a - b} /\ \A y \in {0, a - b} : Owed(a, b) >= y
    BY DEF Owed
  <2>2. ASSUME NEW x \in {0, a - b}, \A y \in {0, a - b} : x >= y PROVE x = Owed(a, b)
    BY <2>2 DEF Owed
  <2>3. QED
    BY <2>1, <2>2 DEF Meters!Max
<1>4. QED
  BY <1>1, <1>2, <1>3

\* Of finitely many members one is last.
LEMMA LastOf ==
    ASSUME NEW S, IsFiniteSet(S), NEW U \in SUBSET S, U # {}, NEW order, NEW n \in Nat,
           \A g \in S : order[g] \in 1..n
    PROVE  \E g \in U : \A h \in U : order[h] <= order[g]
<1> DEFINE Backward == {n - order[g] : g \in U}
<1>1. Backward \subseteq 0..n
  OBVIOUS
<1>2. IsFiniteSet(Backward)
  <2> HIDE DEF Backward
  <2>1. IsFiniteSet(0..n)
    BY FS_Interval
  <2>2. QED
    BY <1>1, <2>1, FS_Subset
<1>3. Backward \in SUBSET Nat /\ Backward # {}
  OBVIOUS
<1>4. PICK m \in Backward : \A x \in Backward : m <= x
  <2> HIDE DEF Backward
  <2>1. QED
    BY <1>2, <1>3, LeastOf
<1>5. PICK g \in U : m = n - order[g]
  BY <1>4
<1>6. ASSUME NEW h \in U PROVE order[h] <= order[g]
  <2>1. n - order[g] <= n - order[h]
    BY <1>4, <1>5
  <2>2. order[g] \in Nat /\ order[h] \in Nat
    OBVIOUS
  <2>3. QED
    BY ONLY <2>1, <2>2, n \in Nat
<1>7. QED
  BY <1>6

\* All together pay the debt, or all they have.
LEMMA AllPay ==
    ASSUME NEW S, IsFiniteSet(S), NEW order, NEW n \in Nat, \A g \in S : order[g] \in 1..n,
           \A g, h \in S : g # h => order[g] # order[h],
           NEW has, \A g \in S : has[g] \in Nat, NEW u \in Nat, NEW paid,
           InTurn(S, order, has, paid, u)
    PROVE  Total(paid, S) = Lesser(u, Total(has, S))
<1> DEFINE Good == {U \in SUBSET S : (\A g \in U : Earlier(S, order, g) \subseteq U) =>
                                        Total(paid, U) = Lesser(u, Total(has, U))}
<1>1. ASSUME NEW g \in S
      PROVE  /\ Total(has, Earlier(S, order, g)) \in Nat
             /\ paid[g] \in Nat
  <2>1. Earlier(S, order, g) \in SUBSET S
    BY DEF Earlier
  <2>2. Total(has, Earlier(S, order, g)) \in Nat
    BY <2>1, TotalMonotone
  <2>3. has[g] \in Nat
    OBVIOUS
  <2>4. paid[g] = Lesser(has[g], Owed(u, Total(has, Earlier(S, order, g))))
    BY DEF InTurn
  <2>5. QED
    BY ONLY u \in Nat, <2>2, <2>3, <2>4 DEF Lesser, Owed
<1>2. ASSUME NEW U \in SUBSET S, \A V \in SUBSET U : V # U => V \in Good
      PROVE  U \in Good
  <2> SUFFICES ASSUME \A g \in U : Earlier(S, order, g) \subseteq U
               PROVE  Total(paid, U) = Lesser(u, Total(has, U))
    OBVIOUS
  <2>1. CASE U = {}
    <3>1. Total(paid, U) = 0 /\ Total(has, U) = 0
      BY <2>1, TotalEmpty
    <3>2. QED
      BY <3>1 DEF Lesser
  <2>2. CASE U # {}
    <3>1. PICK g \in U : \A h \in U : order[h] <= order[g]
      BY <2>2, LastOf
    <3>2. IsFiniteSet(U)
      BY FS_Subset
    <3> DEFINE V == U \ {g}
    <3>3. Earlier(S, order, g) = V
      <4>1. ASSUME NEW h \in V PROVE h \in Earlier(S, order, g)
        <5>1. h \in S /\ g \in S /\ h # g
          OBVIOUS
        <5>2. order[h] <= order[g] /\ order[h] # order[g] /\ order[h] \in Int /\ order[g] \in Int
          BY <3>1, <5>1
        <5>3. order[h] < order[g]
          BY ONLY <5>2
        <5>4. QED
          BY <5>1, <5>3 DEF Earlier
      <4>2. ASSUME NEW h \in Earlier(S, order, g) PROVE h \in V
        <5>1. h \in U /\ order[h] < order[g] /\ order[g] \in Int
          BY DEF Earlier
        <5>2. QED
          BY <5>1
      <4>3. QED
        BY <4>1, <4>2
    <3>4. ASSUME NEW h \in V PROVE Earlier(S, order, h) \subseteq V
      <4>1. h \in U /\ Earlier(S, order, h) \subseteq U
        OBVIOUS
      <4>2. ~(order[g] < order[h])
        <5>1. order[h] <= order[g] /\ order[h] \in Int /\ order[g] \in Int
          BY <3>1
        <5>2. QED
          BY ONLY <5>1
      <4>3. QED
        BY <4>1, <4>2 DEF Earlier
    <3>5. V \in Good
      BY <1>2, <3>1
    <3>6. Total(paid, V) = Lesser(u, Total(has, V))
      BY <3>4, <3>5
    <3>7. /\ Total(paid, U) = paid[g] + Total(paid, V)
          /\ Total(has, U) = has[g] + Total(has, V)
      <4>1. \A h \in U : paid[h] \in Int /\ has[h] \in Int
        BY <1>1
      <4>2. QED
        BY <3>1, <3>2, <4>1, TotalPick
    <3>8. paid[g] = Lesser(has[g], Owed(u, Total(has, V)))
      BY <3>3 DEF InTurn
    <3>9. Total(has, V) \in Nat /\ has[g] \in Nat
      BY <1>1, <3>3
    <3>10. QED
      BY ONLY u \in Nat, <3>6, <3>7, <3>8, <3>9 DEF Lesser, Owed
  <2>3. QED
    BY <2>1, <2>2
<1>3. SUBSET S \subseteq Good
  <2> HIDE DEF Good
  <2>1. QED
    BY <1>2, SubsetInduction
<1>4. S \in Good
  BY <1>3
<1>5. \A g \in S : Earlier(S, order, g) \subseteq S
  BY DEF Earlier
<1>6. QED
  BY <1>4, <1>5

\* Who pays is preceded by those that have nothing left.
LEMMA PaysAfter ==
    ASSUME NEW S, IsFiniteSet(S), NEW order, \A g \in S : order[g] \in Int,
           NEW has, \A g \in S : has[g] \in Nat, NEW u \in Nat, NEW paid,
           InTurn(S, order, has, paid, u),
           NEW g \in S, NEW h \in S, order[g] < order[h], paid[h] > 0
    PROVE  paid[g] = has[g]
<1> DEFINE A == Earlier(S, order, g)
           B == Earlier(S, order, h)
<1>1. A \subseteq B /\ g \in B /\ g \notin A /\ A \in SUBSET S /\ B \in SUBSET S
  <2>1. \A x \in A : order[x] < order[h]
    <3>1. ASSUME NEW x \in A PROVE order[x] < order[h]
      <4>1. order[x] < order[g] /\ order[x] \in Int /\ order[g] \in Int /\ order[h] \in Int
        BY DEF Earlier
      <4>2. QED
        BY ONLY <4>1, order[g] < order[h]
    <3>2. QED
      BY <3>1
  <2>2. ~(order[g] < order[g])
    <3>1. order[g] \in Int
      OBVIOUS
    <3>2. QED
      BY ONLY <3>1
  <2>3. QED
    BY <2>1, <2>2 DEF Earlier
<1> HIDE DEF A, B
<1>2. IsFiniteSet(B) /\ B \ {g} \in SUBSET B /\ A \in SUBSET (B \ {g})
  BY <1>1, FS_Subset
<1>3. \A x \in B : has[x] \in Nat
  BY <1>1
<1>4. Total(has, B) = has[g] + Total(has, B \ {g})
  <2>1. \A x \in B : has[x] \in Int
    BY <1>3
  <2>2. QED
    BY <1>1, <1>2, <2>1, TotalPick
<1>5. Total(has, A) \in Nat /\ Total(has, A) <= Total(has, B \ {g})
  <2>1. IsFiniteSet(B \ {g})
    BY <1>2, FS_Subset
  <2>2. \A x \in B \ {g} : has[x] \in Nat
    BY <1>3
  <2>3. QED
    BY <1>2, <2>1, <2>2, TotalMonotone
<1>6. Total(has, B \ {g}) \in Nat /\ has[g] \in Nat /\ has[h] \in Nat
  <2>1. Total(has, B \ {g}) \in Nat
    BY <1>2, <1>3, TotalMonotone
  <2>2. QED
    BY <2>1
<1>7. /\ paid[g] = Lesser(has[g], Owed(u, Total(has, A)))
      /\ paid[h] = Lesser(has[h], Owed(u, Total(has, B)))
  BY DEF InTurn, A, B
<1>8. QED
  BY ONLY u \in Nat, paid[h] > 0, <1>4, <1>5, <1>6, <1>7 DEF Lesser, Owed

\* What the packs in use have left.
LEMMA LivePacks ==
    ASSUME Metering, MeterInv
    PROVE  /\ Meters!Live \in SUBSET Packs /\ IsFiniteSet(Meters!Live)
           /\ \A g \in Packs : Meters!Left(pack)[g] = pack[g].left /\ pack[g].left \in Nat
           /\ Meters!LeftIn(pack) = Total(Meters!Left(pack), Meters!Live)
           /\ Meters!LeftIn(pack) \in Nat
<1>1. Meters!Live \in SUBSET Packs
  BY DEF Meters!Live
<1>2. IsFiniteSet(Meters!Live)
  BY <1>1, FS_Subset DEF Metering
<1>3. ASSUME NEW g \in Packs PROVE Meters!Left(pack)[g] = pack[g].left /\ pack[g].left \in Nat
  BY DEF Meters!Left, MeterInv, Minute
<1>4. Meters!LeftIn(pack) = Total(Meters!Left(pack), Meters!Live)
  BY MeterSums DEF Meters!LeftIn
<1> DEFINE has == Meters!Left(pack)
           some == Meters!Live
<1>5. \A g \in some : has[g] \in Nat
  BY <1>1, <1>3
<1> HIDE DEF has, some
<1>6. Total(has, some) \in Nat
  <2>1. IsFiniteSet(some) /\ some \in SUBSET some
    BY <1>2 DEF some
  <2>2. QED
    BY <1>5, <2>1, TotalMonotone
<1>7. QED
  BY <1>1, <1>2, <1>3, <1>4, <1>6 DEF has, some

\* What a debt does to the packs: they pay it in their order, or all they have.
LEMMA DrainPays ==
    ASSUME Metering, MeterInv, NEW u \in Nat, pack' \in Meters!Drain(u)
    PROVE  /\ pack' \in [Packs -> Minute]
           /\ Meters!Drawn = Lesser(u, Meters!LeftIn(pack))
           /\ \A g \in Packs \ Meters!Live : pack'[g] = pack[g]
           /\ \A g, h \in Meters!Live :
                 pack[g].until < pack[h].until /\ pack'[h].left < pack[h].left
                    => pack'[g].left = 0
<1> DEFINE S == Meters!Live
           n == Cardinality(S)
           has == Meters!Left(pack)
<1>1. /\ S \in SUBSET Packs /\ IsFiniteSet(S)
      /\ \A g \in Packs : has[g] = pack[g].left /\ pack[g].left \in Nat
      /\ Meters!LeftIn(pack) = Total(has, S) /\ Total(has, S) \in Nat
  BY LivePacks
<1>2. n \in Nat
  BY <1>1, FS_CardinalityType
<1>3. Meters!Cardinality(S) = n
  BY DEF Meters!Cardinality, Cardinality
<1>4. PICK order \in [S -> 1..n] :
        /\ \A g, h \in S : /\ g # h => order[g] # order[h]
                           /\ pack[g].until < pack[h].until => order[g] < order[h]
        /\ pack' = [g \in Packs |->
             IF g \notin S THEN pack[g]
             ELSE LET earlier == {h \in S : order[h] < order[g]}
                      owed == Meters!Max({0, u - Meters!Total(has, earlier)})
                  IN  [pack[g] EXCEPT !.left = @ - Meters!Min({@, owed})]]
  BY <1>3 DEF Meters!Drain
<1> DEFINE paid == [g \in S |-> Lesser(has[g], Owed(u, Total(has, Earlier(S, order, g))))]
<1> HIDE DEF S, n, has
<1>5. InTurn(S, order, has, paid, u)
  BY DEF InTurn
<1>6. \A g \in S : order[g] \in 1..n /\ order[g] \in Int /\ has[g] \in Nat
  BY <1>1, <1>2, <1>4
<1>7. ASSUME NEW g \in S
      PROVE  /\ pack'[g].left = has[g] - paid[g] /\ pack'[g] \in Minute
             /\ paid[g] \in 0..has[g]
  <2> DEFINE before == Total(has, Earlier(S, order, g))
  <2>1. before \in Nat
    <3>1. Earlier(S, order, g) \in SUBSET S
      BY DEF Earlier
    <3>2. QED
      BY <1>1, <1>6, <3>1, TotalMonotone
  <2>2. paid[g] = Lesser(has[g], Owed(u, before)) /\ has[g] \in Nat /\ has[g] = pack[g].left
    BY <1>1, <1>6
  <2>3. Meters!Max({0, u - Meters!Total(has, {h \in S : order[h] < order[g]})}) = Owed(u, before)
    <3>1. Meters!Total(has, {h \in S : order[h] < order[g]}) = before
      BY MeterSums DEF Earlier
    <3> HIDE DEF before
    <3>2. Meters!Max({0, u - before}) = Owed(u, before)
      <4>1. u \in Int /\ before \in Int
        BY <2>1
      <4>2. QED
        BY ONLY <4>1, MeterSums
    <3>3. QED
      BY <3>1, <3>2
  <2> HIDE DEF before, paid
  <2>4. Owed(u, before) \in Nat
    BY <2>1 DEF Owed
  <2>5. Meters!Min({pack[g].left, Owed(u, before)}) = paid[g]
    <3>1. Meters!Min({has[g], Owed(u, before)}) = Lesser(has[g], Owed(u, before))
      <4>1. has[g] \in Int /\ Owed(u, before) \in Int
        BY <2>2, <2>4
      <4>2. QED
        BY ONLY <4>1, MeterSums
    <3>2. QED
      BY <2>2, <3>1
  <2>6. g \in Packs /\ pack[g] \in Minute
    BY <1>1 DEF MeterInv
  <2>7. pack'[g] = [pack[g] EXCEPT !.left = pack[g].left - paid[g]]
    BY <1>4, <2>3, <2>5, <2>6
  <2>8. paid[g] \in 0..has[g]
    BY ONLY <2>2, <2>4 DEF Lesser
  <2>9. pack[g].left - paid[g] \in Nat
    BY ONLY <2>2, <2>8
  <2>10. pack'[g].left = pack[g].left - paid[g] /\ pack'[g] \in Minute
    BY ONLY <2>6, <2>7, <2>9 DEF Minute
  <2>11. QED
    BY <2>2, <2>8, <2>10
<1>8. pack' \in [Packs -> Minute]
  <2>1. ASSUME NEW g \in Packs PROVE pack'[g] \in Minute
    <3>1. CASE g \in S
      BY <1>7, <3>1
    <3>2. CASE g \notin S
      <4>1. pack'[g] = pack[g]
        BY <1>4, <3>2
      <4>2. QED
        BY <4>1 DEF MeterInv
    <3>3. QED
      BY <3>1, <3>2
  <2>2. pack' = [g \in Packs |-> pack'[g]]
    BY <1>4
  <2>3. QED
    BY <2>1, <2>2
<1> HIDE DEF paid
<1>9. Meters!Drawn = Lesser(u, Meters!LeftIn(pack))
  <2> DEFINE rest == Meters!Left(pack')
  <2>1. \A g \in S : rest[g] = pack'[g].left
    BY <1>1 DEF Meters!Left
  <2>2. Meters!LeftIn(pack') = Total(rest, S)
    BY MeterSums DEF Meters!LeftIn, S
  <2> HIDE DEF rest
  <2>3. \A g \in S : rest[g] \in Int /\ paid[g] \in Int /\ has[g] = rest[g] + paid[g]
    <3>1. ASSUME NEW g \in S
          PROVE  rest[g] \in Int /\ paid[g] \in Int /\ has[g] = rest[g] + paid[g]
      <4>1. rest[g] = has[g] - paid[g] /\ has[g] \in Nat /\ paid[g] \in 0..has[g]
        BY <1>6, <1>7, <2>1
      <4>2. QED
        BY ONLY <4>1
    <3>2. QED
      BY <3>1
  <2>4. Total(has, S) = Total(rest, S) + Total(paid, S)
    BY <1>1, <2>3, TotalPlus
  <2>5. Total(paid, S) = Lesser(u, Total(has, S))
    BY <1>1, <1>2, <1>4, <1>5, <1>6, AllPay
  <2>6. Total(rest, S) \in Int /\ Total(paid, S) \in Int
    BY <1>1, <2>3, TotalInt
  <2>7. Meters!Drawn = Total(has, S) - Total(rest, S)
    BY <1>1, <2>2 DEF Meters!Drawn
  <2>8. Total(has, S) - Total(rest, S) = Total(paid, S)
    BY ONLY <1>1, <2>4, <2>6
  <2>9. QED
    BY <1>1, <2>5, <2>7, <2>8
<1>10. ASSUME NEW g \in S, NEW h \in S, pack[g].until < pack[h].until, pack'[h].left < pack[h].left
       PROVE  pack'[g].left = 0
  <2>1. order[g] < order[h]
    BY <1>4, <1>10
  <2>2. paid[h] > 0
    <3>1. pack'[h].left = has[h] - paid[h] /\ pack[h].left = has[h] /\ has[h] \in Nat
          /\ paid[h] \in 0..has[h]
      BY <1>1, <1>6, <1>7
    <3>2. QED
      BY ONLY <1>10, <3>1
  <2>3. paid[g] = has[g]
    BY <1>1, <1>5, <1>6, <2>1, <2>2, PaysAfter
  <2>4. has[g] \in Nat /\ pack'[g].left = has[g] - paid[g]
    BY <1>6, <1>7
  <2>5. QED
    BY ONLY <2>3, <2>4
<1>11. \A g \in Packs \ S : pack'[g] = pack[g]
  BY <1>4
<1>12. QED
  BY <1>8, <1>9, <1>10, <1>11 DEF S

\* The window of the plan, and what the log says of it.
LEMMA Windows ==
    ASSUME Metering, MeterInv
    PROVE  /\ Meters!PeriodStart \in Int
           /\ Meters!PeriodStart > time => Meters!Paid
<1>1. time \in Nat /\ ends \in Int
  BY DEF Metering, MeterInv
<1>2. (time \div 2) * 2 \in Int /\ (time \div 2) * 2 <= time
  BY ONLY <1>1
<1>3. QED
  BY <1>1, <1>2 DEF Meters!PeriodStart, Meters!Period, Meters!Paid

\* A minute is counted with the weight of its product, if the window has begun;
\* before it has there is nothing to count.
LEMMA UsedGrows ==
    ASSUME Metering, MeterInv, NEW p \in Machines, log' = Meters!Metered(p),
           time' = time, ends' = ends
    PROVE  /\ Meters!Used \in Int /\ Meters!Used' \in Int
           /\ Meters!PeriodStart <= time => Meters!Used' - Meters!Used = Meters!Units(p)
           /\ Meters!PeriodStart > time => Meters!Used' = 0
<1> DEFINE since == Meters!PeriodStart
           T == {t \in 0..MaxTime : t >= since}
           of(q) == [t \in 0..MaxTime |-> log[t][q]]
           new(q) == [t \in 0..MaxTime |-> log'[t][q]]
           sums == [q \in Machines |-> Meters!Units(q) * Total(of(q), T)]
           news == [q \in Machines |-> Meters!Units(q) * Total(new(q), T)]
<1>1. since \in Int /\ time \in 0..MaxTime /\ MaxTime \in Nat
  BY Windows DEF Metering, MeterInv
<1>2. IsFiniteSet(T) /\ T \in SUBSET (0..MaxTime)
  <2>1. IsFiniteSet(0..MaxTime)
    BY <1>1, FS_Interval
  <2>2. QED
    BY <2>1, FS_Subset
<1>3. /\ log' \in [0..MaxTime -> [Machines -> Nat]]
      /\ log'[time][p] = log[time][p] + 1
      /\ \A t \in 0..MaxTime, q \in Machines : t # time \/ q # p => log'[t][q] = log[t][q]
  <2>1. log' = [log EXCEPT ![time] = [log[time] EXCEPT ![p] = log[time][p] + 1]]
    BY DEF Meters!Metered
  <2>2. log \in [0..MaxTime -> [Machines -> Nat]]
    BY DEF MeterInv
  <2>3. log[time] \in [Machines -> Nat] /\ log[time][p] + 1 \in Nat
    BY <1>1, <2>2
  <2>4. QED
    BY <1>1, <2>1, <2>2, <2>3
<1>4. Meters!PeriodStart' = since
  BY DEF Meters!PeriodStart, Meters!Paid, Meters!Period
<1>5. Meters!Used = Total(sums, Machines)
  <2>1. \A q \in Machines : Meters!Rows(since, q) = Total(of(q), T)
    BY MeterSums DEF Meters!Rows
  <2>2. [q \in Machines |-> Meters!Units(q) * Meters!Rows(Meters!PeriodStart, q)] = sums
    BY <2>1
  <2>3. QED
    BY <2>2, MeterSums DEF Meters!Used
<1>6. Meters!Used' = Total(news, Machines)
  <2>1. \A q \in Machines : Meters!Rows(since, q)' = Total(new(q), T)
    BY <1>4, MeterSums DEF Meters!Rows
  <2>2. [q \in Machines |-> Meters!Units(q) * Meters!Rows(Meters!PeriodStart, q)]' = news
    BY <1>4, MeterSums DEF Meters!Rows, Meters!Units
  <2>3. QED
    BY <2>2, MeterSums DEF Meters!Used
<1> HIDE DEF since, T
<1>7. ASSUME NEW q \in Machines
      PROVE  /\ \A t \in T : of(q)[t] = log[t][q] /\ new(q)[t] = log'[t][q]
             /\ \A t \in T : of(q)[t] \in Int /\ new(q)[t] \in Int
             /\ Total(of(q), T) \in Int /\ Total(new(q), T) \in Int
  <2>1. \A t \in T : of(q)[t] = log[t][q] /\ new(q)[t] = log'[t][q]
    BY <1>2
  <2>2. \A t \in T : of(q)[t] \in Int /\ new(q)[t] \in Int
    <3>1. \A t \in T : log[t][q] \in Int /\ log'[t][q] \in Int
      BY <1>2, <1>3 DEF MeterInv
    <3>2. QED
      BY <2>1, <3>1
  <2> HIDE DEF of, new
  <2>3. Total(of(q), T) \in Int /\ Total(new(q), T) \in Int
    BY <1>2, <2>2, TotalInt
  <2>4. QED
    BY <2>1, <2>2, <2>3
<1>8. ASSUME NEW q \in Machines, q # p PROVE Total(new(q), T) = Total(of(q), T)
  <2>1. \A t \in T : new(q)[t] = of(q)[t]
    BY <1>2, <1>3, <1>7, <1>8
  <2> HIDE DEF of, new
  <2>2. QED
    BY <1>2, <2>1, TotalEqual
<1>9. since <= time => Total(new(p), T) = Total(of(p), T) + 1
  <2>1. SUFFICES ASSUME since <= time PROVE Total(new(p), T) = Total(of(p), T) + 1
    OBVIOUS
  <2>2. time \in T
    BY <1>1, <2>1 DEF T
  <2>3. /\ \A t \in T : t # time => new(p)[t] = of(p)[t]
        /\ new(p)[time] = of(p)[time] + 1 /\ of(p)[time] \in Int
    BY <1>2, <1>3, <1>7, <2>2
  <2> HIDE DEF of, new
  <2>4. Total(new(p), T) = Total(of(p), T) - of(p)[time] + new(p)[time]
    <3>1. PICK f : f = of(p)
      OBVIOUS
    <3>2. PICK g : g = new(p)
      OBVIOUS
    <3>3. \A t \in T : f[t] \in Int /\ g[t] \in Int
      BY <1>7, <3>1, <3>2
    <3>4. \A t \in T : t # time => g[t] = f[t]
      BY <2>3, <3>1, <3>2
    <3>5. Total(g, T) = Total(f, T) - f[time] + g[time]
      <4>1. IsFiniteSet(T)
        BY <1>2
      <4>2. PICK x \in T : x = time
        BY <2>2
      <4>3. \A t \in T : t # x => g[t] = f[t]
        BY <3>4, <4>2
      <4>4. Total(g, T) = Total(f, T) - f[x] + g[x]
        BY ONLY <3>3, <4>1, <4>3, TotalUpdate
      <4>5. QED
        BY <4>2, <4>4
    <3>6. QED
      BY <3>1, <3>2, <3>5
  <2>5. Total(of(p), T) \in Int
    BY <1>7
  <2>6. QED
    BY ONLY <2>3, <2>4, <2>5
<1>10. ASSUME since > time, NEW q \in Machines PROVE Total(new(q), T) = 0
  <2>1. ASSUME NEW t \in T PROVE new(q)[t] = 0
    <3>1. t \in 0..MaxTime /\ t > time
      BY <1>1, <1>10 DEF T
    <3>2. log'[t][q] = log[t][q] /\ log[t][q] = 0
      BY <1>1, <1>3, <3>1 DEF MeterInv
    <3>3. QED
      BY <1>7, <3>2
  <2> HIDE DEF new
  <2>2. QED
    BY <1>2, <2>1, TotalZero
<1>11. ASSUME NEW q \in Machines
       PROVE  /\ Meters!Units(q) \in {1, 2}
              /\ sums[q] \in Int /\ news[q] \in Int
              /\ sums[q] = Meters!Units(q) * Total(of(q), T)
              /\ news[q] = Meters!Units(q) * Total(new(q), T)
  <2> DEFINE a == Total(of(q), T)
             b == Total(new(q), T)
             w == Meters!Units(q)
  <2>1. a \in Int /\ b \in Int
    BY <1>7
  <2>2. w \in {1, 2}
    BY DEF Meters!Units
  <2>3. sums[q] = w * a /\ news[q] = w * b
    OBVIOUS
  <2> HIDE DEF a, b, w, sums, news
  <2>4. w * a \in Int /\ w * b \in Int
    BY ONLY <2>1, <2>2
  <2>5. QED
    BY <2>2, <2>3, <2>4 DEF a, b, w
<1> HIDE DEF of, new, sums, news
<1>12. Total(sums, Machines) \in Int /\ Total(news, Machines) \in Int
  BY <1>11, TotalInt DEF Metering
<1>13. ASSUME since <= time
       PROVE  Total(news, Machines) = Total(sums, Machines) + Meters!Units(p)
  <2>1. \A q \in Machines : q # p => news[q] = sums[q]
    BY <1>8, <1>11
  <2>2. Total(news, Machines) = Total(sums, Machines) - sums[p] + news[p]
    <3>1. \A q \in Machines : sums[q] \in Int /\ news[q] \in Int
      BY <1>11
    <3>2. QED
      BY ONLY Metering, p \in Machines, <2>1, <3>1, TotalUpdate DEF Metering
  <2>3. news[p] = sums[p] + Meters!Units(p)
    <3>1. PICK a \in Int : a = Total(of(p), T)
      BY <1>7
    <3>2. PICK w \in {1, 2} : w = Meters!Units(p)
      BY <1>11
    <3>3. Total(new(p), T) = a + 1
      BY <1>9, <1>13, <3>1
    <3>4. sums[p] = w * a /\ news[p] = w * (a + 1)
      BY <1>11, <3>1, <3>2, <3>3
    <3>5. w * (a + 1) = w * a + w
      BY ONLY a \in Int, w \in {1, 2}
    <3>6. QED
      BY <3>2, <3>4, <3>5
  <2>4. sums[p] \in Int /\ news[p] \in Int /\ Meters!Units(p) \in Int
    BY <1>11
  <2>5. QED
    BY ONLY <1>12, <2>2, <2>3, <2>4
<1>14. ASSUME since > time PROVE Total(news, Machines) = 0
  <2>1. \A q \in Machines : news[q] = 0
    <3>1. ASSUME NEW q \in Machines PROVE news[q] = 0
      <4>1. news[q] = Meters!Units(q) * Total(new(q), T) /\ Total(new(q), T) = 0
            /\ Meters!Units(q) \in {1, 2}
        BY <1>10, <1>11, <1>14
      <4>2. QED
        BY ONLY <4>1
    <3>2. QED
      BY <3>1
  <2>2. QED
    BY <2>1, TotalZero DEF Metering
<1>15. since <= time => Meters!Used' - Meters!Used = Meters!Units(p)
  <2>1. SUFFICES ASSUME since <= time PROVE Meters!Used' - Meters!Used = Meters!Units(p)
    OBVIOUS
  <2>2. Meters!Units(p) \in Int
    BY <1>11
  <2>3. QED
    BY <1>5, <1>6, <1>12, <1>13, <2>1, <2>2
<1>16. QED
  BY <1>5, <1>6, <1>12, <1>14, <1>15 DEF since

\* Nothing is metered, bought or given yet.
LEMMA MeterBegins == ASSUME Metering, Meters!Init PROVE MeterInv
  BY DEF Metering, Meters!Init, MeterInv, Minute, Meters!NotYet

\* A step that writes no minute down.
LEMMA MeterQuiet ==
    ASSUME Metering, MeterInv, log' = log, time <= time', time' \in 0..MaxTime,
           ends' \in Int, pack' \in [Packs -> Minute]
    PROVE  MeterInv'
<1>1. \A t \in 0..MaxTime : t > time' => t > time
  BY DEF MeterInv, Metering
<1>2. QED
  BY <1>1 DEF MeterInv

LEMMA MeterStep ==
    ASSUME Metering, MeterInv, [Meters!Next]_Meters!timeVars
    PROVE  MeterInv' /\ Meters!DrawsInOrder
<1>1. ASSUME log' = log, time' = time, ends' \in Int, pack' \in [Packs -> Minute]
      PROVE  MeterInv' /\ Meters!DrawsInOrder
  <2>1. time <= time' /\ time' \in 0..MaxTime
    BY <1>1 DEF MeterInv, Metering
  <2>2. QED
    BY <1>1, <2>1, MeterQuiet DEF Meters!DrawsInOrder
<1>2. CASE UNCHANGED Meters!timeVars
  BY <1>1, <1>2 DEF Meters!timeVars, MeterInv
<1>3. CASE Meters!ApplyPlan
  <2>1. ends' \in Int
    BY <1>3 DEF Meters!ApplyPlan, Meters!Period, MeterInv, Metering
  <2>2. QED
    BY <1>1, <1>3, <2>1 DEF Meters!ApplyPlan, MeterInv
<1>4. CASE Meters!Tick
  <2>1. time' = time + 1 /\ time < MaxTime /\ time \in 0..MaxTime /\ MaxTime \in Nat
    BY <1>4 DEF Meters!Tick, MeterInv, Metering
  <2>2. time <= time' /\ time' \in 0..MaxTime
    BY ONLY <2>1
  <2>3. log' = log /\ ends' \in Int /\ pack' \in [Packs -> Minute]
    BY <1>4 DEF Meters!Tick, MeterInv
  <2>4. QED
    BY <2>2, <2>3, MeterQuiet DEF Meters!DrawsInOrder
<1>5. ASSUME NEW g \in Packs, NEW spans \in 1..2, Meters!GrantMinutes(g, spans)
      PROVE  MeterInv' /\ Meters!DrawsInOrder
  <2>1. [left |-> PackSize, until |-> time + spans] \in Minute
    BY DEF Metering, MeterInv, Minute
  <2>2. pack' \in [Packs -> Minute]
    BY <1>5, <2>1 DEF Meters!GrantMinutes, MeterInv
  <2>3. QED
    BY <1>1, <1>5, <2>2 DEF Meters!GrantMinutes, MeterInv
<1>6. CASE \/ Meters!GrantMinutePool
           \/ \E c \in Ceilings \union {Meters!Unlimited} : Meters!SetCap(c)
           \/ \E p \in Machines : Meters!Open(p) \/ Meters!Close(p)
  <2>1. UNCHANGED <<log, time, ends, pack>>
    BY <1>6 DEF Meters!GrantMinutePool, Meters!SetCap, Meters!Open, Meters!Close
  <2>2. QED
    BY <1>1, <2>1 DEF MeterInv
<1>7. ASSUME NEW p \in Machines, Meters!Meter(p) PROVE MeterInv' /\ Meters!DrawsInOrder
  <2>1. /\ log' = Meters!Metered(p) /\ time' = time /\ ends' = ends
        /\ IF Meters!Used' <= Meters!IncludedMinutes THEN UNCHANGED pack
           ELSE pack' \in Meters!Drain(Meters!Units(p))
    BY <1>7 DEF Meters!Meter
  <2>2. /\ Meters!Used \in Int /\ Meters!Used' \in Int
        /\ Meters!PeriodStart <= time => Meters!Used' - Meters!Used = Meters!Units(p)
        /\ Meters!PeriodStart > time => Meters!Used' = 0
    BY <2>1, UsedGrows
  <2>3. Meters!Units(p) \in Nat
    BY DEF Meters!Units
  <2>4. ASSUME pack' \in [Packs -> Minute] PROVE MeterInv'
    <3>1. log' = [log EXCEPT ![time] = [log[time] EXCEPT ![p] = log[time][p] + 1]]
      BY <2>1 DEF Meters!Metered
    <3>2. /\ log \in [0..MaxTime -> [Machines -> Nat]] /\ time \in 0..MaxTime
      BY DEF MeterInv
    <3>3. [log[time] EXCEPT ![p] = log[time][p] + 1] \in [Machines -> Nat]
      BY <3>2
    <3>4. log' \in [0..MaxTime -> [Machines -> Nat]]
      BY <3>1, <3>2, <3>3
    <3>5. ASSUME NEW t \in 0..MaxTime, t > time PROVE log'[t] = log[t]
      <4>1. t # time
        BY <3>2, <3>5 DEF Metering
      <4>2. QED
        BY <3>1, <3>2, <4>1
    <3>6. QED
      BY <2>1, <2>4, <3>2, <3>4, <3>5 DEF MeterInv
  <2>5. CASE UNCHANGED pack /\ Meters!Used' <= Meters!IncludedMinutes
    <3>1. pack' \in [Packs -> Minute]
      BY <2>5 DEF MeterInv
    <3>2. Meters!Drawn = 0
      <4>1. Meters!LeftIn(pack') = Meters!LeftIn(pack)
        BY <2>5
      <4>2. Meters!LeftIn(pack) \in Nat
        BY LivePacks
      <4>3. QED
        BY <4>1, <4>2 DEF Meters!Drawn
    <3>3. \A h \in Meters!Live : ~(pack'[h].left < pack[h].left)
      <4>1. \A h \in Meters!Live : pack[h].left \in Nat
        BY LivePacks
      <4>2. QED
        BY <2>5, <4>1
    <3>4. QED
      BY <2>4, <2>5, <3>1, <3>2, <3>3 DEF Meters!DrawsInOrder
  <2>6. CASE ~(Meters!Used' <= Meters!IncludedMinutes) /\ pack' \in Meters!Drain(Meters!Units(p))
    <3>1. Meters!PeriodStart <= time
      <4>1. Meters!PeriodStart \in Int /\ time \in Int
        BY Windows DEF MeterInv
      <4>2. ASSUME Meters!PeriodStart > time PROVE FALSE
        <5>1. Meters!Used' = 0 /\ Meters!Paid
          BY <2>2, <4>2, Windows
        <5>2. Meters!IncludedMinutes \in Nat
          BY <5>1 DEF Meters!IncludedMinutes, Metering
        <5>3. QED
          BY ONLY <2>6, <5>1, <5>2
      <4>3. QED
        BY <4>1, <4>2
    <3>2. Meters!Used' - Meters!Used = Meters!Units(p)
      BY <2>2, <3>1
    <3>3. /\ pack' \in [Packs -> Minute]
          /\ Meters!Drawn = Lesser(Meters!Units(p), Meters!LeftIn(pack))
          /\ \A g \in Packs \ Meters!Live : pack'[g] = pack[g]
          /\ \A g, h \in Meters!Live :
                pack[g].until < pack[h].until /\ pack'[h].left < pack[h].left
                   => pack'[g].left = 0
      BY <2>3, <2>6, DrainPays
    <3>4. Meters!Drawn = Meters!Min({Meters!LeftIn(pack), Meters!Used' - Meters!Used})
      <4>1. Meters!LeftIn(pack) \in Int /\ Meters!Units(p) \in Int
        BY <2>3, LivePacks
      <4>2. Meters!Min({Meters!LeftIn(pack), Meters!Units(p)})
               = Lesser(Meters!LeftIn(pack), Meters!Units(p))
        BY <4>1, MeterSums
      <4>3. Lesser(Meters!LeftIn(pack), Meters!Units(p))
               = Lesser(Meters!Units(p), Meters!LeftIn(pack))
        BY <4>1 DEF Lesser
      <4>4. QED
        BY <3>2, <3>3, <4>2, <4>3
    <3>5. QED
      BY <2>4, <2>6, <3>3, <3>4 DEF Meters!DrawsInOrder
  <2>7. QED
    BY <2>1, <2>5, <2>6
<1>8. QED
  BY <1>2, <1>3, <1>4, <1>5, <1>6, <1>7 DEF Meters!Next, Meters!Period

\* work_access.py, consume_minute: a minute that no plan covers is drawn from the
\* packs that are alive, in the order they expire, with all its weight or all they
\* have; a minute the plan covers takes nothing, and none touches a pack that has
\* expired.
THEOREM PacksPayInOrder == Metering => (Meters!Spec => Meters!DrainsInOrder)
<1>1. SUFFICES ASSUME Metering PROVE Meters!Spec => Meters!DrainsInOrder
  OBVIOUS
<1>2. Meters!Init => MeterInv
  BY <1>1, MeterBegins
<1>3. MeterInv /\ [Meters!Next]_Meters!timeVars => MeterInv'
  BY <1>1, MeterStep
<1>4. MeterInv /\ [Meters!Next]_Meters!timeVars => [Meters!DrawsInOrder]_Meters!timeVars
  BY <1>1, MeterStep
<1>5. QED
  BY <1>2, <1>3, <1>4, PTL DEF Meters!Spec, Meters!DrainsInOrder

-----------------------------------------------------------------------------
(* Access.                                                                  *)

CONSTANTS Tokens, Visits, Spaces, MaxEra
VARIABLES standing, era, issuance, key, mailed, visit
Guard == INSTANCE Access
    WITH Requests <- Visits, MaxEpoch <- MaxEra, status <- standing, epoch <- era,
         token <- issuance, request <- visit

\* The epochs are counted, and no workspace is called like the login page.
Naming == MaxEra \in Nat /\ "login" \notin Spaces

Issued   == [row : Guard!Rows, epoch : 0..MaxEra, from : {"login"} \union Spaces]
Visit == [does : Guard!Deeds, epoch : 0..MaxEra]

\* Nothing is signed, or about to be signed, with an epoch still to come.
NotAhead ==
    /\ \A t \in Tokens : issuance[t] # Guard!Unsigned => issuance[t].epoch <= era
    /\ \A r \in Visits : visit[r] # Guard!Idle => visit[r].epoch <= era

AccessInv == Guard!TypeOK /\ NotAhead

\* What a step may do to the tokens: sign one, take rows away, or nothing.

\* A token that is signed is a full record.
LEMMA IssuedIs ==
    ASSUME Guard!TypeOK, NEW t \in Tokens, issuance[t] # Guard!Unsigned
    PROVE  issuance[t] \in Issued /\ issuance[t].epoch \in 0..MaxEra
BY DEF Guard!TypeOK, Issued

\* A request that is under way is one.
LEMMA VisitIs ==
    ASSUME Guard!TypeOK, NEW r \in Visits, visit[r] # Guard!Idle
    PROVE  visit[r] \in Visit /\ visit[r].epoch \in 0..MaxEra
BY DEF Guard!TypeOK, Visit

\* The token n is signed with the epoch e; those of its workspace are revoked.
Signs(n, e) ==
    /\ issuance[n] = Guard!Unsigned
    /\ \E mode \in {"session", "live"}, from \in {"login"} \union Spaces :
          issuance' = [t \in Tokens |->
              IF t = n THEN [row |-> mode, epoch |-> e, from |-> from]
              ELSE IF t \in Guard!Live({from} \ {"login"}) THEN [issuance[t] EXCEPT !.row = "revoked"]
              ELSE issuance[t]]
    /\ UNCHANGED <<standing, era>>

\* Rows are revoked or deleted, and who may have lost a session has a new epoch.
Withdraws(ended, mode) ==
    /\ ended \subseteq Guard!Rowed /\ mode \in {"revoked", "deleted"}
    /\ issuance' = [t \in Tokens |-> IF t \in ended THEN [issuance[t] EXCEPT !.row = mode] ELSE issuance[t]]
    /\ \/ UNCHANGED <<standing, era>>
       \/ /\ era < MaxEra /\ era' = era + 1
          /\ standing' \in {"active", "suspended", "deleted"}

\* A request begins with the epoch it reads, goes on with it, or ends.
RequestsFollow ==
    /\ visit' \in [Visits -> {Guard!Idle} \union Visit]
    /\ \A r \in Visits : visit'[r] # Guard!Idle =>
          \/ visit'[r].epoch = era
          \/ visit[r] # Guard!Idle /\ visit'[r].epoch = visit[r].epoch

\* A request that begins has read the epoch of now.
LEMMA BeginFollows ==
    ASSUME Guard!TypeOK, NEW r \in Visits, NEW does \in Guard!Deeds, Guard!Begin(r, does)
    PROVE  RequestsFollow
<1>1. era \in 0..MaxEra /\ visit \in [Visits -> {Guard!Idle} \union Visit]
  BY DEF Guard!TypeOK, Visit
<1>2. [does |-> does, epoch |-> era] \in Visit
  BY <1>1 DEF Visit
<1>3. visit' = [visit EXCEPT ![r] = [does |-> does, epoch |-> era]]
  BY DEF Guard!Begin
<1>4. visit' \in [Visits -> {Guard!Idle} \union Visit]
  BY <1>1, <1>2, <1>3
<1>5. visit'[r].epoch = era /\ \A q \in Visits : q # r => visit'[q] = visit[q]
  BY <1>1, <1>3
<1>6. QED
  BY <1>4, <1>5 DEF RequestsFollow

\* One that ends leaves the others alone.
LEMMA EndFollows ==
    ASSUME Guard!TypeOK, NEW r \in Visits, Guard!Ends(r)
    PROVE  RequestsFollow
BY DEF Guard!TypeOK, Guard!Ends, RequestsFollow, Visit

\* A token that begins without ending another.
LEMMA SignSigns ==
    ASSUME Guard!TypeOK, NEW n \in Tokens, NEW mode \in {"session", "live"}, NEW e,
           Guard!Sign(n, mode, e, "login"), UNCHANGED <<standing, era>>
    PROVE  Signs(n, e)
<1>1. Guard!Live({"login"} \ {"login"}) = {}
  BY DEF Guard!Live
<1>2. issuance' = [t \in Tokens |->
          IF t = n THEN [row |-> mode, epoch |-> e, from |-> "login"]
          ELSE IF t \in Guard!Live({"login"} \ {"login"}) THEN [issuance[t] EXCEPT !.row = "revoked"]
          ELSE issuance[t]]
  BY <1>1 DEF Guard!Sign, Guard!TypeOK
<1>3. QED
  BY <1>2 DEF Signs, Guard!Sign

\* The token of a workspace ends its predecessors.
LEMMA MintSigns ==
    ASSUME Naming, Guard!TypeOK, NEW r \in Visits, NEW n \in Tokens, NEW w \in Spaces, Guard!Mint(r, n, w)
    PROVE  Signs(n, visit[r].epoch)
<1>1. {w} \ {"login"} = {w}
  BY DEF Naming
<1>2. issuance' = [t \in Tokens |->
          IF t = n THEN [row |-> "live", epoch |-> visit[r].epoch, from |-> w]
          ELSE IF t \in Guard!Live({w} \ {"login"}) THEN [issuance[t] EXCEPT !.row = "revoked"]
          ELSE issuance[t]]
  BY <1>1 DEF Guard!Mint, Guard!Revoked, Guard!TypeOK
<1>3. QED
  BY <1>2 DEF Signs, Guard!Mint

\* Revoking withdraws.
LEMMA RevokedWithdraws ==
    ASSUME NEW ended, ended \subseteq Guard!Rowed, issuance' = Guard!Revoked(ended),
           \/ UNCHANGED <<standing, era>>
           \/ Guard!EndSessions /\ standing' \in {"active", "suspended", "deleted"}
    PROVE  Withdraws(ended, "revoked")
BY DEF Withdraws, Guard!Revoked, Guard!EndSessions

\* A step that leaves the tokens alone withdraws none.
LEMMA NothingWithdrawn ==
    ASSUME Guard!TypeOK, UNCHANGED issuance,
           \/ UNCHANGED <<standing, era>>
           \/ Guard!EndSessions /\ standing' \in {"active", "suspended", "deleted"}
    PROVE  Withdraws({}, "revoked")
BY DEF Withdraws, Guard!EndSessions, Guard!TypeOK

\* Every step is one of these.
Changes ==
    /\ RequestsFollow
    /\ mailed' \in BOOLEAN /\ key' \in BOOLEAN
    /\ \/ \E n \in Tokens : Signs(n, era)
       \/ \E n \in Tokens, r \in Visits : visit[r] # Guard!Idle /\ Signs(n, visit[r].epoch)
       \/ \E ended \in SUBSET Tokens, mode \in {"revoked", "deleted"} : Withdraws(ended, mode)

\* Every action is one of the three.
LEMMA NextChanges == ASSUME Naming, Guard!TypeOK, [Guard!Next]_Guard!accessVars PROVE Changes
<1>1. mailed \in BOOLEAN /\ key \in BOOLEAN /\ standing \in {"active", "suspended", "deleted"}
  BY DEF Guard!TypeOK
<1>2. UNCHANGED visit => RequestsFollow
  BY DEF Guard!TypeOK, RequestsFollow, Visit
<1>3. CASE UNCHANGED Guard!accessVars
  BY <1>1, <1>2, <1>3, NothingWithdrawn DEF Guard!accessVars, Changes
<1>4. ASSUME NEW r \in Visits, Guard!Verify(r) \/ Guard!ReadMailed(r) \/ Guard!Opening(r) \/ Guard!StartFlow(r)
      PROVE  Changes
  <2>1. \E does \in Guard!Deeds : Guard!Begin(r, does)
    BY <1>4 DEF Guard!Verify, Guard!ReadMailed, Guard!Opening, Guard!StartFlow, Guard!Deeds
  <2>2. UNCHANGED <<standing, era, issuance, key, mailed>>
    BY <1>4 DEF Guard!Verify, Guard!ReadMailed, Guard!Opening, Guard!StartFlow
  <2>3. QED
    BY <1>1, <2>1, <2>2, BeginFollows, NothingWithdrawn DEF Changes
<1>5. ASSUME NEW r \in Visits, Guard!Callback(r) PROVE Changes
  <2>1. RequestsFollow
    BY <1>5 DEF Guard!TypeOK, Guard!Callback, Guard!Does, RequestsFollow, Visit, Guard!Deeds, Guard!Idle
  <2>2. QED
    BY <1>1, <1>5, <2>1, NothingWithdrawn DEF Changes, Guard!Callback
<1>6. ASSUME NEW r \in Visits, Guard!Changing(r) PROVE Changes
  <2>1. Guard!Begin(r, "change") /\ UNCHANGED <<standing, era>> /\ UNCHANGED issuance /\ UNCHANGED key
        /\ mailed' \in BOOLEAN
    BY <1>1, <1>6 DEF Guard!Changing
  <2>2. QED
    BY <1>1, <2>1, BeginFollows, NothingWithdrawn DEF Changes, Guard!Deeds
<1>7. ASSUME NEW r \in Visits, Guard!ChangePassword(r) PROVE Changes
  <2>1. Withdraws(Guard!Rowed, "revoked")
    BY <1>1, <1>7, RevokedWithdraws DEF Guard!ChangePassword
  <2>2. Guard!Rowed \in SUBSET Tokens
    BY DEF Guard!Rowed
  <2>3. QED
    BY <1>1, <1>7, <2>1, <2>2, EndFollows DEF Changes, Guard!ChangePassword
<1>8. ASSUME NEW r \in Visits, Guard!GiveUp(r) PROVE Changes
  BY <1>1, <1>8, EndFollows, NothingWithdrawn DEF Changes, Guard!GiveUp
<1>9. ASSUME NEW r \in Visits, NEW t \in Tokens, Guard!SignIn(r, t) PROVE Changes
  <2>1. visit[r] # Guard!Idle /\ UNCHANGED <<standing, era>> /\ Guard!Ends(r)
    BY <1>9 DEF Guard!SignIn, Guard!Does
  <2>2. Signs(t, visit[r].epoch)
    BY <1>9, <2>1, SignSigns DEF Guard!SignIn, Guard!SetCookie
  <2>3. QED
    BY <1>1, <1>9, <2>1, <2>2, EndFollows DEF Changes, Guard!SignIn
<1>10. ASSUME NEW r \in Visits, NEW t \in Tokens, Guard!MailIn(r, t) PROVE Changes
  <2>1. Guard!Ends(r) /\ UNCHANGED <<standing, era>> /\ key' \in BOOLEAN /\ mailed' \in BOOLEAN
    BY <1>1, <1>10 DEF Guard!MailIn
  <2>2. CASE Guard!SetCookie(t, era)
    <3>1. Signs(t, era)
      BY <2>1, <2>2, SignSigns DEF Guard!SetCookie
    <3>2. QED
      BY <2>1, <3>1, EndFollows DEF Changes
  <2>3. CASE UNCHANGED issuance
    BY <2>1, <2>3, EndFollows, NothingWithdrawn DEF Changes
  <2>4. QED
    BY <1>10, <2>2, <2>3 DEF Guard!MailIn
<1>11. ASSUME NEW r \in Visits, NEW t \in Tokens, Guard!FinishFlow(r, t) PROVE Changes
  <2>1. Guard!Ends(r) /\ UNCHANGED <<standing, era>> /\ UNCHANGED <<key, mailed>>
    BY <1>11 DEF Guard!FinishFlow
  <2>2. Signs(t, era)
    BY <1>11, <2>1, SignSigns DEF Guard!FinishFlow, Guard!SetCookie
  <2>3. QED
    BY <1>1, <2>1, <2>2, EndFollows DEF Changes
<1>12. ASSUME NEW r \in Visits, NEW t \in Tokens, NEW w \in Spaces, Guard!Mint(r, t, w) PROVE Changes
  <2>1. visit[r] # Guard!Idle /\ Guard!Ends(r) /\ UNCHANGED <<key, mailed>>
    BY <1>12 DEF Guard!Mint, Guard!Does
  <2>2. QED
    BY <1>1, <1>12, <2>1, MintSigns, EndFollows DEF Changes
<1>13. ASSUME NEW t \in Tokens, Guard!RevokeDevice(t) PROVE Changes
  <2>1. {t} \subseteq Guard!Rowed
    BY <1>13 DEF Guard!RevokeDevice, Guard!Rowed
  <2>2. Withdraws({t}, "revoked")
    BY <1>13, <2>1, RevokedWithdraws DEF Guard!RevokeDevice
  <2>3. QED
    BY <1>1, <1>2, <1>13, <2>2 DEF Changes, Guard!RevokeDevice
<1>14. ASSUME NEW s \in {"active", "suspended"}, Guard!SetStatus(s) PROVE Changes
  <2>1. Withdraws({}, "revoked")
    BY <1>14, NothingWithdrawn DEF Guard!SetStatus
  <2>2. QED
    BY <1>1, <1>2, <1>14, <2>1 DEF Changes, Guard!SetStatus
<1>15. CASE Guard!SendMail \/ Guard!MailUseless \/ Guard!CreateKey \/ Guard!RevokeKey
  <2>1. UNCHANGED <<standing, era>> /\ UNCHANGED issuance /\ UNCHANGED visit
        /\ key' \in BOOLEAN /\ mailed' \in BOOLEAN
    BY <1>1, <1>15 DEF Guard!SendMail, Guard!MailUseless, Guard!CreateKey, Guard!RevokeKey
  <2>2. QED
    BY <1>2, <2>1, NothingWithdrawn DEF Changes
<1>16. CASE Guard!DeleteAccount
  <2>1. Withdraws(Guard!Rowed, "deleted") /\ Guard!Rowed \in SUBSET Tokens
    BY <1>16 DEF Withdraws, Guard!DeleteAccount, Guard!EndSessions, Guard!Rowed
  <2>2. QED
    BY <1>1, <1>2, <1>16, <2>1 DEF Changes, Guard!DeleteAccount
<1>17. QED
  BY <1>3, <1>4, <1>5, <1>6, <1>7, <1>8, <1>9, <1>10, <1>11, <1>12, <1>13, <1>14, <1>15, <1>16
  DEF Guard!Next

\* The invariant.

\* Nobody is signed in when the account is new.
LEMMA AccessInvInit == ASSUME Naming, Guard!Init PROVE AccessInv
<1>1. NotAhead
  BY DEF Guard!Init, NotAhead
<1>2. 0 \in 0..MaxEra
  BY DEF Naming
<1>3. Guard!TypeOK
  BY <1>2 DEF Guard!Init, Guard!TypeOK
<1>4. QED
  BY <1>1, <1>3 DEF AccessInv

\* Every step keeps it: an epoch is only ever read, and only ever raised.
LEMMA AccessInvStep == ASSUME Naming, AccessInv, Changes PROVE AccessInv'
<1>1. Guard!TypeOK /\ NotAhead /\ era \in Nat
  BY DEF AccessInv, Guard!TypeOK, Naming
<1>2. era' \in 0..MaxEra /\ era' >= era /\ standing' \in {"active", "suspended", "deleted"}
  BY <1>1 DEF Changes, Signs, Withdraws, Guard!TypeOK, Naming
<1>3. /\ visit' \in [Visits -> {Guard!Idle} \union Visit]
      /\ \A r \in Visits : visit'[r] # Guard!Idle => visit'[r].epoch <= era'
  <2>1. visit' \in [Visits -> {Guard!Idle} \union Visit]
    BY DEF Changes, RequestsFollow
  <2>2. ASSUME NEW r \in Visits, visit'[r] # Guard!Idle PROVE visit'[r].epoch <= era'
    <3>1. CASE visit'[r].epoch = era
      BY <1>1, <1>2, <3>1
    <3>2. CASE visit[r] # Guard!Idle /\ visit'[r].epoch = visit[r].epoch
      <4>1. visit[r].epoch \in 0..MaxEra /\ visit[r].epoch <= era
        BY <1>1, <3>2, VisitIs DEF NotAhead
      <4>2. QED
        BY <1>1, <1>2, <3>2, <4>1
    <3>3. QED
      BY <2>2, <3>1, <3>2 DEF Changes, RequestsFollow
  <2>3. QED
    BY <2>1, <2>2
<1>4. ASSUME NEW n \in Tokens, NEW e \in 0..MaxEra, e <= era, Signs(n, e)
      PROVE  /\ issuance' \in [Tokens -> {Guard!Unsigned} \union Issued]
             /\ \A t \in Tokens : issuance'[t] # Guard!Unsigned => issuance'[t].epoch <= era'
  <2>1. era' = era
    BY <1>4 DEF Signs
  <2>2. ASSUME NEW t \in Tokens
        PROVE  /\ issuance'[t] \in {Guard!Unsigned} \union Issued
               /\ issuance'[t] # Guard!Unsigned => issuance'[t].epoch <= era'
    <3>1. CASE t = n
      BY <1>4, <2>1, <3>1 DEF Signs, Issued, Guard!Rows
    <3>2. CASE t # n /\ issuance'[t] = issuance[t]
      BY <1>1, <2>1, <3>2 DEF Guard!TypeOK, Issued, NotAhead
    <3>3. CASE issuance'[t] = [issuance[t] EXCEPT !.row = "revoked"] /\ issuance[t].row = "live"
      <4>1. issuance[t] # Guard!Unsigned
        BY <3>3 DEF Guard!Unsigned
      <4>2. issuance[t] \in Issued /\ issuance[t].epoch <= era
        BY <1>1, <4>1, IssuedIs DEF NotAhead
      <4>3. QED
        BY <2>1, <3>3, <4>2 DEF Issued, Guard!Rows
    <3>4. QED
      BY <1>4, <3>1, <3>2, <3>3 DEF Signs, Guard!Live
  <2>3. issuance' = [t \in Tokens |-> issuance'[t]]
    BY <1>4 DEF Signs
  <2>4. QED
    BY <2>2, <2>3
<1>5. ASSUME NEW ended \in SUBSET Tokens, NEW mode \in {"revoked", "deleted"}, Withdraws(ended, mode)
      PROVE  /\ issuance' \in [Tokens -> {Guard!Unsigned} \union Issued]
             /\ \A t \in Tokens : issuance'[t] # Guard!Unsigned => issuance'[t].epoch <= era'
  <2>1. ASSUME NEW t \in Tokens
        PROVE  /\ issuance'[t] \in {Guard!Unsigned} \union Issued
               /\ issuance'[t] # Guard!Unsigned => issuance'[t].epoch <= era'
    <3>1. CASE t \notin ended
      <4>1. issuance'[t] = issuance[t]
        BY <1>5, <3>1 DEF Withdraws
      <4>2. issuance[t] # Guard!Unsigned => issuance[t].epoch \in 0..MaxEra /\ issuance[t].epoch <= era
        BY <1>1, IssuedIs DEF NotAhead
      <4>3. QED
        BY <1>1, <1>2, <4>1, <4>2 DEF Guard!TypeOK, Issued
    <3>2. CASE t \in ended
      <4>1. issuance[t] # Guard!Unsigned /\ issuance'[t] = [issuance[t] EXCEPT !.row = mode]
        BY <1>5, <3>2 DEF Withdraws, Guard!Rowed, Guard!Unsigned
      <4>2. issuance[t] \in Issued /\ issuance[t].epoch \in 0..MaxEra /\ issuance[t].epoch <= era
        BY <1>1, <4>1, IssuedIs DEF NotAhead
      <4>3. issuance'[t] \in Issued /\ issuance'[t].epoch = issuance[t].epoch
        BY <4>1, <4>2 DEF Issued, Guard!Rows
      <4>4. QED
        BY <1>1, <1>2, <4>2, <4>3
    <3>3. QED
      BY <3>1, <3>2
  <2>2. issuance' = [t \in Tokens |-> issuance'[t]]
    BY <1>5 DEF Withdraws
  <2>3. QED
    BY <2>1, <2>2
<1>6. /\ issuance' \in [Tokens -> {Guard!Unsigned} \union Issued]
      /\ \A t \in Tokens : issuance'[t] # Guard!Unsigned => issuance'[t].epoch <= era'
  <2>1. CASE \E n \in Tokens : Signs(n, era)
    BY <1>1, <1>4, <2>1 DEF Guard!TypeOK
  <2>2. ASSUME NEW n \in Tokens, NEW r \in Visits, visit[r] # Guard!Idle, Signs(n, visit[r].epoch)
        PROVE  /\ issuance' \in [Tokens -> {Guard!Unsigned} \union Issued]
               /\ \A t \in Tokens : issuance'[t] # Guard!Unsigned => issuance'[t].epoch <= era'
    <3>1. visit[r].epoch \in 0..MaxEra /\ visit[r].epoch <= era
      BY <1>1, <2>2, VisitIs DEF NotAhead
    <3>2. QED
      BY <1>4, <2>2, <3>1
  <2>3. QED
    BY <1>5, <2>1, <2>2 DEF Changes
<1>7. QED
  BY <1>2, <1>3, <1>6 DEF Changes, AccessInv, Guard!TypeOK, NotAhead, Issued, Visit

\* What is refused once is refused for good.

\* Raising the epoch, or none of it: no refused token is accepted again.
LEMMA DeadStay == ASSUME Naming, AccessInv, Changes PROVE Guard!StaysDead
<1> SUFFICES ASSUME NEW t \in Tokens, issuance'[t] # Guard!Unsigned, ~Guard!Accepted(t), Guard!Accepted(t)'
             PROVE  issuance[t] = Guard!Unsigned /\ issuance'[t].epoch = era
  BY DEF Guard!StaysDead
<1>1. Guard!TypeOK /\ NotAhead /\ era \in Nat
  BY DEF AccessInv, Guard!TypeOK, Naming
<1>2. /\ issuance'[t].row \in {"session", "live"} /\ standing' = "active" /\ issuance'[t].epoch = era'
  BY DEF Guard!Accepted
<1>3. ASSUME NEW n \in Tokens, NEW e, Signs(n, e)
      PROVE  issuance[t] = Guard!Unsigned /\ issuance'[t].epoch = era
  <2>1. UNCHANGED standing /\ UNCHANGED era
    BY <1>3 DEF Signs
  <2>2. CASE t = n
    BY <1>2, <1>3, <2>1, <2>2 DEF Signs
  <2>3. CASE issuance'[t] = issuance[t]
    BY <1>2, <2>1, <2>3 DEF Guard!Accepted
  <2>4. CASE issuance'[t] = [issuance[t] EXCEPT !.row = "revoked"] /\ issuance[t].row = "live"
    <3>1. issuance[t] # Guard!Unsigned
      BY <2>4 DEF Guard!Unsigned
    <3>2. issuance'[t].row = "revoked"
      BY <1>1, <2>4, <3>1, IssuedIs DEF Issued
    <3>3. QED
      BY <1>2, <3>2
  <2>5. QED
    BY <1>3, <2>2, <2>3, <2>4 DEF Signs, Guard!Live
<1>4. ASSUME NEW ended \in SUBSET Tokens, NEW mode \in {"revoked", "deleted"}, Withdraws(ended, mode)
      PROVE  FALSE
  <2>1. t \notin ended
    <3> SUFFICES ASSUME t \in ended PROVE FALSE
      OBVIOUS
    <3>1. issuance[t] # Guard!Unsigned /\ issuance'[t] = [issuance[t] EXCEPT !.row = mode]
      BY <1>4 DEF Withdraws, Guard!Rowed, Guard!Unsigned
    <3>2. issuance'[t].row = mode
      BY <1>1, <3>1, IssuedIs DEF Issued
    <3>3. QED
      BY <1>2, <3>2
  <2>2. issuance'[t] = issuance[t] /\ issuance[t] # Guard!Unsigned
    BY <1>4, <2>1 DEF Withdraws
  <2>3. issuance[t].epoch \in 0..MaxEra /\ issuance[t].epoch <= era
    BY <1>1, <2>2, IssuedIs DEF NotAhead
  <2>4. CASE UNCHANGED <<standing, era>>
    BY <1>2, <2>2, <2>4 DEF Guard!Accepted
  <2>5. CASE era' = era + 1
    BY <1>1, <1>2, <2>2, <2>3, <2>5
  <2>6. QED
    BY <1>4, <2>4, <2>5 DEF Withdraws
<1>5. QED
  BY <1>3, <1>4 DEF Changes

\* A new token ends those of its own workspace and no others.
LEMMA OwnReplaced == ASSUME Naming, AccessInv, Changes PROVE Guard!ReplacesItsOwn
<1> SUFFICES ASSUME NEW n \in Tokens, issuance[n] = Guard!Unsigned, issuance'[n] # Guard!Unsigned,
                    NEW t \in Guard!Live({"login"} \union Spaces)
             PROVE  issuance'[t].row = "revoked" <=>
                       issuance'[n].from \in Spaces /\ issuance[t].from = issuance'[n].from
  BY DEF Guard!ReplacesItsOwn
<1>1. Guard!TypeOK
  BY DEF AccessInv
<1>2. t \in Tokens /\ issuance[t].row = "live" /\ issuance[t] # Guard!Unsigned /\ t # n
  BY DEF Guard!Live, Guard!Unsigned
<1>3. issuance[t] \in Issued
  BY <1>1, <1>2, IssuedIs
<1>4. ASSUME NEW m \in Tokens, NEW e, Signs(m, e)
      PROVE  issuance'[t].row = "revoked" <=>
                issuance'[n].from \in Spaces /\ issuance[t].from = issuance'[n].from
  <2>1. m = n
    <3> SUFFICES ASSUME m # n PROVE FALSE
      OBVIOUS
    <3>1. issuance[n].row # "live"
      BY DEF Guard!Unsigned
    <3>2. issuance'[n] = issuance[n]
      BY <1>4, <3>1 DEF Signs, Guard!Live
    <3>3. QED
      BY <3>2
  <2>2. PICK mode \in {"session", "live"}, from \in {"login"} \union Spaces :
           issuance' = [u \in Tokens |->
              IF u = n THEN [row |-> mode, epoch |-> e, from |-> from]
              ELSE IF u \in Guard!Live({from} \ {"login"}) THEN [issuance[u] EXCEPT !.row = "revoked"]
              ELSE issuance[u]]
    BY ONLY <2>1, Signs(m, e) DEF Signs
  <2>3. issuance'[n].from = from
    BY <2>2
  <2>4. from \in Spaces <=> from # "login"
    BY DEF Naming
  <2>5. t \in Guard!Live({from} \ {"login"}) <=> from \in Spaces /\ issuance[t].from = from
    BY <1>2, <2>4 DEF Guard!Live
  <2>6. CASE t \in Guard!Live({from} \ {"login"})
    <3>1. issuance'[t] = [issuance[t] EXCEPT !.row = "revoked"]
      BY <1>2, <2>2, <2>6
    <3>2. issuance'[t].row = "revoked"
      BY <1>3, <3>1 DEF Issued
    <3>3. QED
      BY <2>3, <2>5, <2>6, <3>2
  <2>7. CASE t \notin Guard!Live({from} \ {"login"})
    <3>1. issuance'[t] = issuance[t]
      BY <1>2, <2>2, <2>7
    <3>2. QED
      BY <1>2, <2>3, <2>5, <2>7, <3>1
  <2>8. QED
    BY <2>6, <2>7
<1>5. ASSUME NEW ended \in SUBSET Tokens, NEW mode \in {"revoked", "deleted"}, Withdraws(ended, mode)
      PROVE  FALSE
  <2>1. n \notin ended
    BY <1>5 DEF Withdraws, Guard!Rowed, Guard!Unsigned
  <2>2. issuance'[n] = issuance[n]
    BY <1>5, <2>1 DEF Withdraws
  <2>3. QED
    BY <2>2
<1>6. QED
  BY <1>4, <1>5 DEF Changes

\* The theorems.

\* The invariant holds in every reachable state.
LEMMA AccessInvAlways == ASSUME Naming PROVE Guard!Spec => []AccessInv
<1>1. Guard!Init => AccessInv
  BY AccessInvInit
<1>2. AccessInv /\ [Guard!Next]_Guard!accessVars => AccessInv'
  BY NextChanges, AccessInvStep DEF AccessInv
<1>3. QED
  BY <1>1, <1>2, PTL DEF Guard!Spec

\* Every reachable state is well-typed: tokens, rows, codes and what requests
\* have read.
THEOREM AccessTypeCorrect == ASSUME Naming PROVE Guard!Spec => []Guard!TypeOK
<1>1. AccessInv => Guard!TypeOK
  BY DEF AccessInv
<1>2. Guard!Spec => []AccessInv
  BY AccessInvAlways
<1>3. QED
  BY <1>1, <1>2, PTL

\* security.py:6-8: a token that is refused once is refused for good, through
\* suspensions, returns and password changes in any order, and a new one is
\* accepted only with the epoch of its day.
THEOREM RefusedForGood == ASSUME Naming PROVE Guard!Spec => Guard!DeadStaysDead
<1>1. AccessInv /\ [Guard!Next]_Guard!accessVars => [Guard!StaysDead]_Guard!accessVars
  BY NextChanges, DeadStay DEF AccessInv
<1>2. Guard!Spec => []AccessInv
  BY AccessInvAlways
<1>3. QED
  BY <1>1, <1>2, PTL DEF Guard!Spec, Guard!DeadStaysDead

\* _mint_workspace_token: a token revokes those of its own workspace, all of
\* them, and no others; no other way of signing in revokes anything.
THEOREM RevokesItsOwn == ASSUME Naming PROVE Guard!Spec => Guard!ReplacedByItsOwn
<1>1. AccessInv /\ [Guard!Next]_Guard!accessVars => [Guard!ReplacesItsOwn]_Guard!accessVars
  BY NextChanges, OwnReplaced DEF AccessInv
<1>2. Guard!Spec => []AccessInv
  BY AccessInvAlways
<1>3. QED
  BY <1>1, <1>2, PTL DEF Guard!Spec, Guard!ReplacedByItsOwn
=============================================================================
