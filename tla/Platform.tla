------------------------------ MODULE Platform ------------------------------
(***************************************************************************)
(* The components that have a module but no state in common with another,   *)
(* side by side: an initial state chooses the part that is looked at, and   *)
(* every step is a step of that part.  The state space is the sum, not the  *)
(* product, of the parts'.                                                 *)
(*                                                                         *)
(* The parts take turns with the same variables v1 .. v11; the INSTANCE     *)
(* statements say what they stand for, and what a part has no use for is 0. *)
(* A constant that two parts use for different things has a name of its own *)
(* here; Rooms, MaxTrouble and Tabs are those of every part that has them.  *)
(***************************************************************************)
EXTENDS Integers, Sequences, FiniteSets

CONSTANTS
    ModelCalls, Callers, CallLimit, MaxBalance, MaxPrice,      \* Gateway
    MaxFaults,
    Transfers, Clients, MAX_CONCURRENT, PER_IP, Uploads,       \* Intake
    Small, Large,
    Talks, Speakers, Minutes, Seconds, PerMinute, Purse,       \* Avatar
    MaxBreaks,
    Rooms, Lines, LineKinds, MaxLive, MaxQueue, MaxTrouble,    \* LiveRoom
    Window, MinSpan, Ttl, MaxClock,                            \* Production
    Tabs, Ports, BlockedPorts, Shares,                         \* Preview
    Tokens, Visits, Spaces, MaxEra,                            \* Access
    Codes, Owners, Browsers, MaxEpoch,                         \* DeviceLogin
    Users, Requests, Orgs, Invites, SeatsOffered, MaxSales,    \* Seats
    Items, Checkouts, MaxProducts, MaxRenames,                 \* WaffoCatalog
    Machines, Packs, Included, PackSize, Ceilings, MaxTime,    \* MachineTime
    MaxRows,
    OnSale, Locked, Sales, MaxNow,                             \* Gates
    VolumeFiles,                                               \* Pods
    Servers, MaxGroups,                                        \* Instances
    Seekers, Desktops, Addresses, MaxBoxes,                    \* Boxes
    Runs, Caches, Layouts, Images,                             \* ImageCache
    Products, MaxTries, MaxWrong, MaxSetups, MaxRounds,        \* SignIn
    Models, Defaults, MaxRebuilds,
    Nodes, MakerKinds, MaxLost,                                \* Comfy
    Chats, MaxTurns,                                           \* AgentChat
    Bots, Crew, Rosters, RelayTurns,                           \* TeamRoom
    RoomIds, Writers, MaxMishaps,                              \* Rooms
    Hands, Shots, UploadTries, PollGiveUp, MaxPaid,            \* Film
    LocalSlots, Longer, Parts,                                 \* LocalRun
    Calls, Names                                               \* SelfHost

VARIABLES
    part,    \* the component that is looked at
    v1, v2, v3, v4, v5, v6, v7, v8, v9, v10, v11

platformVars == <<part, v1, v2, v3, v4, v5, v6, v7, v8, v9, v10, v11>>

GW == INSTANCE Gateway WITH
    Calls <- ModelCalls, Users <- Callers, Limit <- CallLimit,
    balance <- v1, inflight <- v2, call <- v3, faults <- v4, bills <- v5, wasted <- v6

TH == INSTANCE Intake WITH
    Requests <- Uploads, active <- v1, transfer <- v2, slow <- v3,
    request <- v4, open <- v5

AV == INSTANCE Avatar WITH
    purse <- v1, page <- v2, node <- v3, report <- v4, claimed <- v5,
    charged <- v6, say <- v7, breaks <- v8, torn <- v9, stamp <- v10

LI == INSTANCE LiveRoom WITH
    Kinds <- LineKinds, onair <- v1, queue <- v2, good <- v3, listed <- v4, starting <- v5,
    recent <- v6, line <- v7, said <- v8, bills <- v9, replied <- v10,
    trouble <- v11

PR == INSTANCE Production WITH
    MaxNow <- MaxClock, now <- v1, edge <- v2, good <- v3, pts <- v4,
    slow <- v5, told <- v6, forgot <- v7, lost <- v8, behind <- v9,
    trouble <- v10

PV == INSTANCE Preview WITH
    Files <- Shares, Blocked <- BlockedPorts, running <- v1, static <- v2,
    serving <- v3, disk <- v4, cookie <- v5, tab <- v6, conns <- v7,
    mounted <- v8, stayed <- v9

AC == INSTANCE Access WITH
    Requests <- Visits, MaxEpoch <- MaxEra, status <- v1, epoch <- v2,
    token <- v3, key <- v4, mailed <- v5, request <- v6

DE == INSTANCE DeviceLogin WITH
    Users <- Owners, row <- v1, epoch <- v2, barred <- v3, answer <- v4,
    approvals <- v5, devices <- v6

SE == INSTANCE Seats WITH
    member <- v1, owner <- v2, seats <- v3, invite <- v4, join <- v5,
    locked <- v6, sales <- v7, admitted <- v8

WC == INSTANCE WaffoCatalog WITH
    MaxEpoch <- MaxRenames, text <- v1, long <- v2, kv <- v3, prod <- v4,
    checkout <- v5, owed <- v6, excused <- v7

MT == INSTANCE MachineTime WITH
    Products <- Machines, MaxNow <- MaxTime, now <- v1, ends <- v2,
    log <- v3, pack <- v4, pool <- v5, ceiling <- v6, running <- v7

GA == INSTANCE Gates WITH
    Products <- OnSale, now <- v1, spent <- v2, passes <- v3, sale <- v4,
    box <- v5, seen <- v6, waiting <- v7, said <- v8, asking <- v9

PO == INSTANCE Pods WITH
    Files <- VolumeFiles, pod <- v1, local <- v2, marker <- v3, whole <- v4, oss <- v5,
    secret <- v6, server <- v7, refresh <- v8

ES == INSTANCE Instances WITH
    groups <- v1, made <- v2, pod <- v3, route <- v4, server <- v5,
    calm <- v6

BO == INSTANCE Boxes WITH
    Users <- Seekers, Products <- Desktops, row <- v1, box <- v2,
    made <- v3, work <- v4, reaper <- v5

IC == INSTANCE ImageCache WITH
    enabled <- v1, cache <- v2, run <- v3, eip <- v4, excused <- v5,
    trouble <- v6

SI == INSTANCE SignIn WITH
    product <- v1, app <- v2, account <- v3, wrong <- v4, saved <- v5,
    conf <- v6, mark <- v7, script <- v8, stored <- v9, chosen <- v10,
    rebuilds <- v11

CO == INSTANCE Comfy WITH
    Kinds <- MakerKinds, node <- v1, job <- v2, task <- v3, names <- v4,
    upload <- v5, slot <- v6, lost <- v7

CH == INSTANCE AgentChat WITH
    listed <- v1, tab <- v2, turn <- v3, kept <- v4, queue <- v5,
    copy <- v6, turns <- v7, lost <- v8

TE == INSTANCE TeamRoom WITH
    Turns <- RelayTurns, members <- v1, resume <- v2, lock <- v3, started <- v4, turn <- v5,
    handed <- v6, meddled <- v7

RO == INSTANCE Rooms WITH
    MaxTrouble <- MaxMishaps, main <- v1, bak <- v2, tmp <- v3, used <- v4,
    mem <- v5, failed <- v6, up <- v7, writer <- v8, trouble <- v9,
    settled <- v10, doubt <- v11

FI == INSTANCE Film WITH
    clip <- v1, pic <- v2, film <- v3, call <- v4, bill <- v5, told <- v6,
    paid <- v7, progress <- v8, page <- v9, adrift <- v10, misled <- v11

LO == INSTANCE LocalRun WITH
    Slots <- LocalSlots, device <- v1, pass <- v2, docker <- v3, shell <- v4,
    deaf <- v5

HO == INSTANCE SelfHost WITH
    compose <- v1, config <- v2, secret <- v3, env <- v4, dot <- v5,
    state <- v6, call <- v7, stacks <- v8, identity <- v9

-----------------------------------------------------------------------------
(* What the constants are.  The words that stand for nobody, nothing and a   *)
(* place of one's own ("none", "login", ...) name nothing that there is.     *)

ASSUME GatewayAssumption ==
    /\ IsFiniteSet(ModelCalls)
    /\ MaxPrice \in Nat /\ MaxFaults \in Nat /\ MaxBalance \in Nat \ {0}
ASSUME IntakeAssumption ==
    /\ IsFiniteSet(Transfers) /\ IsFiniteSet(Clients)
    /\ MAX_CONCURRENT \in Nat /\ PER_IP \in Nat /\ Small \in Nat
ASSUME ProductionAssumption == Window \in Nat
ASSUME AccessAssumption == MaxEra \in Nat /\ "login" \notin Spaces
ASSUME DeviceLoginAssumption == "nobody" \notin Owners /\ MaxEpoch \in Nat
ASSUME SeatsAssumption ==
    /\ IsFiniteSet(Users) /\ "nobody" \notin Users
    /\ "none" \notin Orgs /\ "none" \notin Invites
    /\ SeatsOffered \subseteq Nat \ {0} /\ MaxSales \in Nat
ASSUME MachineTimeAssumption ==
    /\ IsFiniteSet(Machines) /\ IsFiniteSet(Packs)
    /\ Included \in Nat /\ PackSize \in Nat /\ MaxTime \in Nat
ASSUME GatesAssumption == GA!Quiet \notin OnSale
ASSUME BoxesAssumption == Addresses \subseteq Nat \ {0} /\ MaxBoxes \in Nat
ASSUME ImageCacheAssumption ==
    {} \notin UNION Layouts /\ "eci" \notin Runs /\ "other" \notin Runs
ASSUME SignInAssumption == Defaults \subseteq Models
ASSUME TeamRoomAssumption == Crew \in Seq(Bots) /\ Rosters \subseteq Seq(Bots)
ASSUME LocalRunAssumption == "init" \notin Parts /\ "main" \notin Parts
ASSUME SelfHostAssumption == "none" \notin Calls

-----------------------------------------------------------------------------
(* One part at a time.                                                      *)

Unused11 == v11 = 0
Unused10 == v10 = 0 /\ Unused11
Unused9 == v9 = 0 /\ Unused10
Unused8 == v8 = 0 /\ Unused9
Unused7 == v7 = 0 /\ Unused8
Unused6 == v6 = 0 /\ Unused7

From11 == <<v11>>
From10 == <<v10, From11>>
From9 == <<v9, From10>>
From8 == <<v8, From9>>
From7 == <<v7, From8>>
From6 == <<v6, From7>>

Init ==
    \/ part = "gateway" /\ GW!Init /\ Unused7
    \/ part = "intake" /\ TH!Init /\ Unused6
    \/ part = "avatar" /\ AV!Init /\ Unused11
    \/ part = "live" /\ LI!Init
    \/ part = "production" /\ PR!Init /\ Unused11
    \/ part = "preview" /\ PV!Init /\ Unused10
    \/ part = "access" /\ AC!Init /\ Unused7
    \/ part = "device" /\ DE!Init /\ Unused7
    \/ part = "seats" /\ SE!Init /\ Unused9
    \/ part = "catalog" /\ WC!Init /\ Unused8
    \/ part = "time" /\ MT!Init /\ Unused8
    \/ part = "gates" /\ GA!Init /\ Unused10
    \/ part = "pods" /\ PO!Init /\ Unused9
    \/ part = "instances" /\ ES!Init /\ Unused7
    \/ part = "boxes" /\ BO!Init /\ Unused6
    \/ part = "images" /\ IC!Init /\ Unused7
    \/ part = "signin" /\ SI!Init
    \/ part = "comfy" /\ CO!Init /\ Unused8
    \/ part = "chat" /\ CH!Init /\ Unused9
    \/ part = "team" /\ TE!Init /\ Unused8
    \/ part = "rooms" /\ RO!Init
    \/ part = "film" /\ FI!Init
    \/ part = "local" /\ LO!Init /\ Unused6
    \/ part = "host" /\ HO!Init /\ Unused10

GatewayStep     == part = "gateway" /\ GW!Next /\ UNCHANGED <<part, From7>>
IntakeStep      == part = "intake" /\ TH!Next /\ UNCHANGED <<part, From6>>
AvatarStep      == part = "avatar" /\ AV!Next /\ UNCHANGED <<part, From11>>
LiveRoomStep    == part = "live" /\ LI!Next /\ UNCHANGED part
ProductionStep  == part = "production" /\ PR!Next /\ UNCHANGED <<part, From11>>
PreviewStep     == part = "preview" /\ PV!Next /\ UNCHANGED <<part, From10>>
AccessStep      == part = "access" /\ AC!Next /\ UNCHANGED <<part, From7>>
DeviceLoginStep == part = "device" /\ DE!Next /\ UNCHANGED <<part, From7>>
SeatsStep       == part = "seats" /\ SE!Next /\ UNCHANGED <<part, From9>>
WaffoCatalogStep == part = "catalog" /\ WC!Next /\ UNCHANGED <<part, From8>>
MachineTimeStep == part = "time" /\ MT!Next /\ UNCHANGED <<part, From8>>
GatesStep       == part = "gates" /\ GA!Next /\ UNCHANGED <<part, From10>>
PodsStep        == part = "pods" /\ PO!Next /\ UNCHANGED <<part, From9>>
InstancesStep   == part = "instances" /\ ES!Next /\ UNCHANGED <<part, From7>>
BoxesStep       == part = "boxes" /\ BO!Next /\ UNCHANGED <<part, From6>>
ImageCacheStep  == part = "images" /\ IC!Next /\ UNCHANGED <<part, From7>>
SignInStep      == part = "signin" /\ SI!Next /\ UNCHANGED part
ComfyStep       == part = "comfy" /\ CO!Next /\ UNCHANGED <<part, From8>>
AgentChatStep   == part = "chat" /\ CH!Next /\ UNCHANGED <<part, From9>>
TeamRoomStep    == part = "team" /\ TE!Next /\ UNCHANGED <<part, From8>>
RoomsStep       == part = "rooms" /\ RO!Next /\ UNCHANGED part
FilmStep        == part = "film" /\ FI!Next /\ UNCHANGED part
LocalRunStep    == part = "local" /\ LO!Next /\ UNCHANGED <<part, From6>>
SelfHostStep    == part = "host" /\ HO!Next /\ UNCHANGED <<part, From10>>

Next ==
    \/ GatewayStep \/ IntakeStep \/ AvatarStep \/ LiveRoomStep
    \/ ProductionStep \/ PreviewStep \/ AccessStep \/ DeviceLoginStep
    \/ SeatsStep \/ WaffoCatalogStep \/ MachineTimeStep \/ GatesStep
    \/ PodsStep \/ InstancesStep \/ BoxesStep \/ ImageCacheStep
    \/ SignInStep \/ ComfyStep \/ AgentChatStep \/ TeamRoomStep
    \/ RoomsStep \/ FilmStep \/ LocalRunStep \/ SelfHostStep

Spec == Init /\ [][Next]_platformVars

-----------------------------------------------------------------------------
(* One type invariant for all parts, and what each of them promises.        *)

\* Every part is in a state its module declares.
TypesOK ==
    /\ part = "gateway" => GW!TypeOK
    /\ part = "intake" => TH!TypeOK
    /\ part = "avatar" => AV!TypeOK
    /\ part = "live" => LI!TypeOK
    /\ part = "production" => PR!TypeOK
    /\ part = "preview" => PV!TypeOK
    /\ part = "access" => AC!TypeOK
    /\ part = "device" => DE!TypeOK
    /\ part = "seats" => SE!TypeOK
    /\ part = "catalog" => WC!TypeOK
    /\ part = "time" => MT!TypeOK
    /\ part = "gates" => GA!TypeOK
    /\ part = "pods" => PO!TypeOK
    /\ part = "instances" => ES!TypeOK
    /\ part = "boxes" => BO!TypeOK
    /\ part = "images" => IC!TypeOK
    /\ part = "signin" => SI!TypeOK
    /\ part = "comfy" => CO!TypeOK
    /\ part = "chat" => CH!TypeOK
    /\ part = "team" => TE!TypeOK
    /\ part = "rooms" => RO!TypeOK
    /\ part = "film" => FI!TypeOK
    /\ part = "local" => LO!TypeOK
    /\ part = "host" => HO!TypeOK

\* The gateway: the number of calls of a user in flight is the number of those
\* that hold a slot, whatever ends them and in whatever order
\* (gateway.py: _enter and _leave around streams, failures and disconnects).
SlotsMatch ==
    /\ part = "gateway" => GW!SlotsMatch

\* The gateway: a call is billed once if it served something and not at all
\* otherwise, and what a user owes comes from calls that were in flight.
BillsAreTrue ==
    /\ part = "gateway" => GW!BilledTruthfully
    /\ part = "gateway" => GW!OverdraftIsPending

\* A report of a talk is claimed before it is charged and charged once, a line
\* of a live room is spoken and charged once, and a change of its production is
\* reported once, whatever is repeated, retried or restarted.
SpokenAndChargedOnce ==
    /\ part = "avatar" => AV!MinutesChargedOnce
    /\ part = "live" => LI!SpokenOnce
    /\ part = "production" => PR!ToldAsKnown
    /\ part = "production" => PR!WindowHolds

\* A shot of a film is not ordered again while its last order is open, by whoever
\* was told of that order and remembers it.
OrderedOnce ==
    [][part = "film" => FI!OrdersAnew]_platformVars

\* A token that was once refused is refused for good, and a token is replaced
\* by one of its own workspace only.
TokensStayTheirs ==
    [][/\ part = "access" => AC!StaysDead
       /\ part = "access" => AC!ReplacesItsOwn]_platformVars

\* A device comes from an approval: no user has more devices of a code than
\* approvals given, and nobody else has any.
ADeviceForAnApproval ==
    /\ part = "device" => DE!ADeviceForAnApproval

\* Nobody joins over the seats that were bought, and what a minute takes beyond
\* the plan comes from the packs that have not expired, in the order they do.
QuotasHold ==
    [][/\ part = "seats" => SE!SeatsAreHeld
       /\ part = "time" => MT!DrawsInOrder]_platformVars

\* A page of a locked product is served to nobody who had no right to it when the
\* request was let in, and a run on the user's machine that is refused leaves
\* alone what runs there.
RightsComeFirst ==
    [][/\ part = "gates" => GA!PassIsAsked
       /\ part = "local" => LO!RefusedLetsBe]_platformVars

\* A relay takes the members in the order of the room and leaves nobody out,
\* through interruptions and takeovers and through removals while none runs.
DeliveredInOrder ==
    /\ part = "team" => TE!DeliveredInOrder

\* The last good copy is not lost: a broken restore is never pushed; a store of
\* rooms writes only after reading what was there, unless the disk looked new or two
\* threads wrote at once; clearing away stale images spares those that products
\* start from; and where the server mounts the files of a workspace, what was
\* there all the while is listed although its instance sleeps.
GoodCopiesStay ==
    [][/\ part = "pods" => PO!PushesWhole
       /\ part = "rooms" => RO!ReadsFirst
       /\ part = "images" => IC!SparesOthers
       /\ part = "preview" => PV!ListsThem]_platformVars

\* Between those who make or clear away the same thing: the duplicates of an
\* instance are never all deleted, no two computers have one address, and
\* checkouts that follow one another use one product of an item.
OneOfEach ==
    /\ part = "instances" => ES!OneSurvives
    /\ part = "boxes" => BO!OwnAddress
    /\ part = "catalog" => WC!OneProductEach

\* A product that was set up runs on the models it was started with.
ModelsAreCurrent ==
    /\ part = "signin" => SI!DefaultsAreCurrent

\* A node ends as the job it started has been, and the answer to a question is
\* kept although the page that asked has gone, unless the file of its chat could
\* not be read, was full, or was removed.
ResultsArrive ==
    /\ part = "comfy" => CO!EndsAsTheJob
    /\ part = "chat" => CH!AnswersAreKept

\* Downloads hold no more slots than there are, and a body larger than a
\* stranger may send is read for nobody who has not signed in; a connection to an
\* instance is given back however its answer ends.
IntakeHolds ==
    /\ part = "intake" => TH!WithinLimits
    /\ part = "intake" => TH!StrangersStaySmall
    /\ part = "preview" => PV!ConnectionsReturn

\* Tools that work step by step clean up after what fails: no address or cache of
\* a build that ended, no secret of one call beside the settings of another, no
\* stack that failed up in part, as far as docker does what it is told.
NothingHalfDone ==
    /\ part = "images" => IC!NothingLeftBehind
    /\ part = "host" => HO!OneDeployment
    /\ part = "local" => LO!StacksAreWhole
=============================================================================
