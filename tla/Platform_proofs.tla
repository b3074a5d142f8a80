--------------------------- MODULE Platform_proofs ---------------------------
(***************************************************************************)
(* Proofs about Platform: whatever part is looked at, what the platform     *)
(* says of it holds.  A behaviour of the platform that looks at a part is a *)
(* behaviour of that part's module, of which the modules Parts_proofs,      *)
(* Gateway_proofs, Orders_proofs and VideoJobs_proofs prove the property.   *)
(***************************************************************************)
EXTENDS Platform, TLAPS

-----------------------------------------------------------------------------
(* A behaviour stays with the part it begins with.                          *)

\* Where the part begins.
LEMMA FirstOfPart ==
    ASSUME Init
    PROVE  /\ part = "gateway" => GW!Init
           /\ part = "intake" => TH!Init
           /\ part = "avatar" => AV!Init
           /\ part = "live" => LI!Init
           /\ part = "production" => PR!Init
           /\ part = "preview" => PV!Init
           /\ part = "access" => AC!Init
           /\ part = "device" => DE!Init
           /\ part = "seats" => SE!Init
           /\ part = "catalog" => WC!Init
           /\ part = "time" => MT!Init
           /\ part = "gates" => GA!Init
           /\ part = "pods" => PO!Init
           /\ part = "instances" => ES!Init
           /\ part = "boxes" => BO!Init
           /\ part = "images" => IC!Init
           /\ part = "signin" => SI!Init
           /\ part = "comfy" => CO!Init
           /\ part = "chat" => CH!Init
           /\ part = "team" => TE!Init
           /\ part = "rooms" => RO!Init
           /\ part = "film" => FI!Init
           /\ part = "local" => LO!Init
           /\ part = "host" => HO!Init
  BY DEF Init

\* What the part does.
LEMMA StepOfPart ==
    ASSUME Next
    PROVE  /\ part = "gateway" => GatewayStep
           /\ part = "intake" => IntakeStep
           /\ part = "avatar" => AvatarStep
           /\ part = "live" => LiveRoomStep
           /\ part = "production" => ProductionStep
           /\ part = "preview" => PreviewStep
           /\ part = "access" => AccessStep
           /\ part = "device" => DeviceLoginStep
           /\ part = "seats" => SeatsStep
           /\ part = "catalog" => WaffoCatalogStep
           /\ part = "time" => MachineTimeStep
           /\ part = "gates" => GatesStep
           /\ part = "pods" => PodsStep
           /\ part = "instances" => InstancesStep
           /\ part = "boxes" => BoxesStep
           /\ part = "images" => ImageCacheStep
           /\ part = "signin" => SignInStep
           /\ part = "comfy" => ComfyStep
           /\ part = "chat" => AgentChatStep
           /\ part = "team" => TeamRoomStep
           /\ part = "rooms" => RoomsStep
           /\ part = "film" => FilmStep
           /\ part = "local" => LocalRunStep
           /\ part = "host" => SelfHostStep
  BY DEF Next, GatewayStep, IntakeStep, AvatarStep, LiveRoomStep, ProductionStep, PreviewStep,
     AccessStep, DeviceLoginStep, SeatsStep, WaffoCatalogStep, MachineTimeStep, GatesStep,
     PodsStep, InstancesStep, BoxesStep, ImageCacheStep, SignInStep, ComfyStep, AgentChatStep,
     TeamRoomStep, RoomsStep, FilmStep, LocalRunStep, SelfHostStep

\* No step changes it.
LEMMA PartStays == ASSUME [Next]_platformVars PROVE UNCHANGED part
  BY DEF Next, platformVars, GatewayStep, IntakeStep, AvatarStep, LiveRoomStep, ProductionStep,
     PreviewStep, AccessStep, DeviceLoginStep, SeatsStep, WaffoCatalogStep, MachineTimeStep,
     GatesStep, PodsStep, InstancesStep, BoxesStep, ImageCacheStep, SignInStep, ComfyStep,
     AgentChatStep, TeamRoomStep, RoomsStep, FilmStep, LocalRunStep, SelfHostStep

\* Gateway.
LEMMA GatewayIs == Spec => []~(part = "gateway") \/ ([](part = "gateway") /\ GW!Spec)
<1>1. Init /\ part = "gateway" => GW!Init
  BY FirstOfPart
<1>2. part = "gateway" /\ [Next]_platformVars => [GW!Next]_(GW!gatewayVars)
  BY StepOfPart DEF GatewayStep, platformVars, GW!gatewayVars
<1>3. part = "gateway" /\ [Next]_platformVars => (part = "gateway")'
  BY PartStays
<1>4. ~(part = "gateway") /\ [Next]_platformVars => ~(part = "gateway")'
  BY PartStays
<1>5. QED
  BY <1>1, <1>2, <1>3, <1>4, PTL DEF Spec, GW!Spec

\* Intake.
LEMMA IntakeIs == Spec => []~(part = "intake") \/ ([](part = "intake") /\ TH!Spec)
<1>1. Init /\ part = "intake" => TH!Init
  BY FirstOfPart
<1>2. part = "intake" /\ [Next]_platformVars => [TH!Next]_(TH!intakeVars)
  BY StepOfPart DEF IntakeStep, platformVars, TH!intakeVars
<1>3. part = "intake" /\ [Next]_platformVars => (part = "intake")'
  BY PartStays
<1>4. ~(part = "intake") /\ [Next]_platformVars => ~(part = "intake")'
  BY PartStays
<1>5. QED
  BY <1>1, <1>2, <1>3, <1>4, PTL DEF Spec, TH!Spec

\* Avatar.
LEMMA AvatarIs == Spec => []~(part = "avatar") \/ ([](part = "avatar") /\ AV!Spec)
<1>1. Init /\ part = "avatar" => AV!Init
  BY FirstOfPart
<1>2. part = "avatar" /\ [Next]_platformVars => [AV!Next]_(AV!avatarVars)
  BY StepOfPart DEF AvatarStep, platformVars, AV!avatarVars
<1>3. part = "avatar" /\ [Next]_platformVars => (part = "avatar")'
  BY PartStays
<1>4. ~(part = "avatar") /\ [Next]_platformVars => ~(part = "avatar")'
  BY PartStays
<1>5. QED
  BY <1>1, <1>2, <1>3, <1>4, PTL DEF Spec, AV!Spec

\* LiveRoom.
LEMMA LiveRoomIs == Spec => []~(part = "live") \/ ([](part = "live") /\ LI!Spec)
<1>1. Init /\ part = "live" => LI!Init
  BY FirstOfPart
<1>2. part = "live" /\ [Next]_platformVars => [LI!Next]_(LI!liveVars)
  BY StepOfPart DEF LiveRoomStep, platformVars, LI!liveVars
<1>3. part = "live" /\ [Next]_platformVars => (part = "live")'
  BY PartStays
<1>4. ~(part = "live") /\ [Next]_platformVars => ~(part = "live")'
  BY PartStays
<1>5. QED
  BY <1>1, <1>2, <1>3, <1>4, PTL DEF Spec, LI!Spec

\* Production.
LEMMA ProductionIs == Spec => []~(part = "production") \/ ([](part = "production") /\ PR!Spec)
<1>1. Init /\ part = "production" => PR!Init
  BY FirstOfPart
<1>2. part = "production" /\ [Next]_platformVars => [PR!Next]_(PR!productionVars)
  BY StepOfPart DEF ProductionStep, platformVars, PR!productionVars
<1>3. part = "production" /\ [Next]_platformVars => (part = "production")'
  BY PartStays
<1>4. ~(part = "production") /\ [Next]_platformVars => ~(part = "production")'
  BY PartStays
<1>5. QED
  BY <1>1, <1>2, <1>3, <1>4, PTL DEF Spec, PR!Spec

\* Preview.
LEMMA PreviewIs == Spec => []~(part = "preview") \/ ([](part = "preview") /\ PV!Spec)
<1>1. Init /\ part = "preview" => PV!Init
  BY FirstOfPart
<1>2. part = "preview" /\ [Next]_platformVars => [PV!Next]_(PV!previewVars)
  BY StepOfPart DEF PreviewStep, platformVars, PV!previewVars
<1>3. part = "preview" /\ [Next]_platformVars => (part = "preview")'
  BY PartStays
<1>4. ~(part = "preview") /\ [Next]_platformVars => ~(part = "preview")'
  BY PartStays
<1>5. QED
  BY <1>1, <1>2, <1>3, <1>4, PTL DEF Spec, PV!Spec

\* Access.
LEMMA AccessIs == Spec => []~(part = "access") \/ ([](part = "access") /\ AC!Spec)
<1>1. Init /\ part = "access" => AC!Init
  BY FirstOfPart
<1>2. part = "access" /\ [Next]_platformVars => [AC!Next]_(AC!accessVars)
  BY StepOfPart DEF AccessStep, platformVars, AC!accessVars
<1>3. part = "access" /\ [Next]_platformVars => (part = "access")'
  BY PartStays
<1>4. ~(part = "access") /\ [Next]_platformVars => ~(part = "access")'
  BY PartStays
<1>5. QED
  BY <1>1, <1>2, <1>3, <1>4, PTL DEF Spec, AC!Spec

\* DeviceLogin.
LEMMA DeviceLoginIs == Spec => []~(part = "device") \/ ([](part = "device") /\ DE!Spec)
<1>1. Init /\ part = "device" => DE!Init
  BY FirstOfPart
<1>2. part = "device" /\ [Next]_platformVars => [DE!Next]_(DE!deviceVars)
  BY StepOfPart DEF DeviceLoginStep, platformVars, DE!deviceVars
<1>3. part = "device" /\ [Next]_platformVars => (part = "device")'
  BY PartStays
<1>4. ~(part = "device") /\ [Next]_platformVars => ~(part = "device")'
  BY PartStays
<1>5. QED
  BY <1>1, <1>2, <1>3, <1>4, PTL DEF Spec, DE!Spec

\* Seats.
LEMMA SeatsIs == Spec => []~(part = "seats") \/ ([](part = "seats") /\ SE!Spec)
<1>1. Init /\ part = "seats" => SE!Init
  BY FirstOfPart
<1>2. part = "seats" /\ [Next]_platformVars => [SE!Next]_(SE!seatsVars)
  BY StepOfPart DEF SeatsStep, platformVars, SE!seatsVars
<1>3. part = "seats" /\ [Next]_platformVars => (part = "seats")'
  BY PartStays
<1>4. ~(part = "seats") /\ [Next]_platformVars => ~(part = "seats")'
  BY PartStays
<1>5. QED
  BY <1>1, <1>2, <1>3, <1>4, PTL DEF Spec, SE!Spec

\* WaffoCatalog.
LEMMA WaffoCatalogIs == Spec => []~(part = "catalog") \/ ([](part = "catalog") /\ WC!Spec)
<1>1. Init /\ part = "catalog" => WC!Init
  BY FirstOfPart
<1>2. part = "catalog" /\ [Next]_platformVars => [WC!Next]_(WC!catalogVars)
  BY StepOfPart DEF WaffoCatalogStep, platformVars, WC!catalogVars
<1>3. part = "catalog" /\ [Next]_platformVars => (part = "catalog")'
  BY PartStays
<1>4. ~(part = "catalog") /\ [Next]_platformVars => ~(part = "catalog")'
  BY PartStays
<1>5. QED
  BY <1>1, <1>2, <1>3, <1>4, PTL DEF Spec, WC!Spec

\* MachineTime.
LEMMA MachineTimeIs == Spec => []~(part = "time") \/ ([](part = "time") /\ MT!Spec)
<1>1. Init /\ part = "time" => MT!Init
  BY FirstOfPart
<1>2. part = "time" /\ [Next]_platformVars => [MT!Next]_(MT!timeVars)
  BY StepOfPart DEF MachineTimeStep, platformVars, MT!timeVars
<1>3. part = "time" /\ [Next]_platformVars => (part = "time")'
  BY PartStays
<1>4. ~(part = "time") /\ [Next]_platformVars => ~(part = "time")'
  BY PartStays
<1>5. QED
  BY <1>1, <1>2, <1>3, <1>4, PTL DEF Spec, MT!Spec

\* Gates.
LEMMA GatesIs == Spec => []~(part = "gates") \/ ([](part = "gates") /\ GA!Spec)
<1>1. Init /\ part = "gates" => GA!Init
  BY FirstOfPart
<1>2. part = "gates" /\ [Next]_platformVars => [GA!Next]_(GA!gateVars)
  BY StepOfPart DEF GatesStep, platformVars, GA!gateVars
<1>3. part = "gates" /\ [Next]_platformVars => (part = "gates")'
  BY PartStays
<1>4. ~(part = "gates") /\ [Next]_platformVars => ~(part = "gates")'
  BY PartStays
<1>5. QED
  BY <1>1, <1>2, <1>3, <1>4, PTL DEF Spec, GA!Spec

\* Pods.
LEMMA PodsIs == Spec => []~(part = "pods") \/ ([](part = "pods") /\ PO!Spec)
<1>1. Init /\ part = "pods" => PO!Init
  BY FirstOfPart
<1>2. part = "pods" /\ [Next]_platformVars => [PO!Next]_(PO!podVars)
  BY StepOfPart DEF PodsStep, platformVars, PO!podVars
<1>3. part = "pods" /\ [Next]_platformVars => (part = "pods")'
  BY PartStays
<1>4. ~(part = "pods") /\ [Next]_platformVars => ~(part = "pods")'
  BY PartStays
<1>5. QED
  BY <1>1, <1>2, <1>3, <1>4, PTL DEF Spec, PO!Spec

\* Instances.
LEMMA InstancesIs == Spec => []~(part = "instances") \/ ([](part = "instances") /\ ES!Spec)
<1>1. Init /\ part = "instances" => ES!Init
  BY FirstOfPart
<1>2. part = "instances" /\ [Next]_platformVars => [ES!Next]_(ES!instanceVars)
  BY StepOfPart DEF InstancesStep, platformVars, ES!instanceVars
<1>3. part = "instances" /\ [Next]_platformVars => (part = "instances")'
  BY PartStays
<1>4. ~(part = "instances") /\ [Next]_platformVars => ~(part = "instances")'
  BY PartStays
<1>5. QED
  BY <1>1, <1>2, <1>3, <1>4, PTL DEF Spec, ES!Spec

\* Boxes.
LEMMA BoxesIs == Spec => []~(part = "boxes") \/ ([](part = "boxes") /\ BO!Spec)
<1>1. Init /\ part = "boxes" => BO!Init
  BY FirstOfPart
<1>2. part = "boxes" /\ [Next]_platformVars => [BO!Next]_(BO!boxVars)
  BY StepOfPart DEF BoxesStep, platformVars, BO!boxVars
<1>3. part = "boxes" /\ [Next]_platformVars => (part = "boxes")'
  BY PartStays
<1>4. ~(part = "boxes") /\ [Next]_platformVars => ~(part = "boxes")'
  BY PartStays
<1>5. QED
  BY <1>1, <1>2, <1>3, <1>4, PTL DEF Spec, BO!Spec

\* ImageCache.
LEMMA ImageCacheIs == Spec => []~(part = "images") \/ ([](part = "images") /\ IC!Spec)
<1>1. Init /\ part = "images" => IC!Init
  BY FirstOfPart
<1>2. part = "images" /\ [Next]_platformVars => [IC!Next]_(IC!cacheVars)
  BY StepOfPart DEF ImageCacheStep, platformVars, IC!cacheVars
<1>3. part = "images" /\ [Next]_platformVars => (part = "images")'
  BY PartStays
<1>4. ~(part = "images") /\ [Next]_platformVars => ~(part = "images")'
  BY PartStays
<1>5. QED
  BY <1>1, <1>2, <1>3, <1>4, PTL DEF Spec, IC!Spec

\* SignIn.
LEMMA SignInIs == Spec => []~(part = "signin") \/ ([](part = "signin") /\ SI!Spec)
<1>1. Init /\ part = "signin" => SI!Init
  BY FirstOfPart
<1>2. part = "signin" /\ [Next]_platformVars => [SI!Next]_(SI!signVars)
  BY StepOfPart DEF SignInStep, platformVars, SI!signVars
<1>3. part = "signin" /\ [Next]_platformVars => (part = "signin")'
  BY PartStays
<1>4. ~(part = "signin") /\ [Next]_platformVars => ~(part = "signin")'
  BY PartStays
<1>5. QED
  BY <1>1, <1>2, <1>3, <1>4, PTL DEF Spec, SI!Spec

\* Comfy.
LEMMA ComfyIs == Spec => []~(part = "comfy") \/ ([](part = "comfy") /\ CO!Spec)
<1>1. Init /\ part = "comfy" => CO!Init
  BY FirstOfPart
<1>2. part = "comfy" /\ [Next]_platformVars => [CO!Next]_(CO!comfyVars)
  BY StepOfPart DEF ComfyStep, platformVars, CO!comfyVars
<1>3. part = "comfy" /\ [Next]_platformVars => (part = "comfy")'
  BY PartStays
<1>4. ~(part = "comfy") /\ [Next]_platformVars => ~(part = "comfy")'
  BY PartStays
<1>5. QED
  BY <1>1, <1>2, <1>3, <1>4, PTL DEF Spec, CO!Spec

\* AgentChat.
LEMMA AgentChatIs == Spec => []~(part = "chat") \/ ([](part = "chat") /\ CH!Spec)
<1>1. Init /\ part = "chat" => CH!Init
  BY FirstOfPart
<1>2. part = "chat" /\ [Next]_platformVars => [CH!Next]_(CH!chatVars)
  BY StepOfPart DEF AgentChatStep, platformVars, CH!chatVars
<1>3. part = "chat" /\ [Next]_platformVars => (part = "chat")'
  BY PartStays
<1>4. ~(part = "chat") /\ [Next]_platformVars => ~(part = "chat")'
  BY PartStays
<1>5. QED
  BY <1>1, <1>2, <1>3, <1>4, PTL DEF Spec, CH!Spec

\* TeamRoom.
LEMMA TeamRoomIs == Spec => []~(part = "team") \/ ([](part = "team") /\ TE!Spec)
<1>1. Init /\ part = "team" => TE!Init
  BY FirstOfPart
<1>2. part = "team" /\ [Next]_platformVars => [TE!Next]_(TE!roomVars)
  BY StepOfPart DEF TeamRoomStep, platformVars, TE!roomVars
<1>3. part = "team" /\ [Next]_platformVars => (part = "team")'
  BY PartStays
<1>4. ~(part = "team") /\ [Next]_platformVars => ~(part = "team")'
  BY PartStays
<1>5. QED
  BY <1>1, <1>2, <1>3, <1>4, PTL DEF Spec, TE!Spec

\* Rooms.
LEMMA RoomsIs == Spec => []~(part = "rooms") \/ ([](part = "rooms") /\ RO!Spec)
<1>1. Init /\ part = "rooms" => RO!Init
  BY FirstOfPart
<1>2. part = "rooms" /\ [Next]_platformVars => [RO!Next]_(RO!roomsVars)
  BY StepOfPart DEF RoomsStep, platformVars, RO!roomsVars
<1>3. part = "rooms" /\ [Next]_platformVars => (part = "rooms")'
  BY PartStays
<1>4. ~(part = "rooms") /\ [Next]_platformVars => ~(part = "rooms")'
  BY PartStays
<1>5. QED
  BY <1>1, <1>2, <1>3, <1>4, PTL DEF Spec, RO!Spec

\* Film.
LEMMA FilmIs == Spec => []~(part = "film") \/ ([](part = "film") /\ FI!Spec)
<1>1. Init /\ part = "film" => FI!Init
  BY FirstOfPart
<1>2. part = "film" /\ [Next]_platformVars => [FI!Next]_(FI!filmVars)
  BY StepOfPart DEF FilmStep, platformVars, FI!filmVars
<1>3. part = "film" /\ [Next]_platformVars => (part = "film")'
  BY PartStays
<1>4. ~(part = "film") /\ [Next]_platformVars => ~(part = "film")'
  BY PartStays
<1>5. QED
  BY <1>1, <1>2, <1>3, <1>4, PTL DEF Spec, FI!Spec

\* LocalRun.
LEMMA LocalRunIs == Spec => []~(part = "local") \/ ([](part = "local") /\ LO!Spec)
<1>1. Init /\ part = "local" => LO!Init
  BY FirstOfPart
<1>2. part = "local" /\ [Next]_platformVars => [LO!Next]_(LO!localVars)
  BY StepOfPart DEF LocalRunStep, platformVars, LO!localVars
<1>3. part = "local" /\ [Next]_platformVars => (part = "local")'
  BY PartStays
<1>4. ~(part = "local") /\ [Next]_platformVars => ~(part = "local")'
  BY PartStays
<1>5. QED
  BY <1>1, <1>2, <1>3, <1>4, PTL DEF Spec, LO!Spec

\* SelfHost.
LEMMA SelfHostIs == Spec => []~(part = "host") \/ ([](part = "host") /\ HO!Spec)
<1>1. Init /\ part = "host" => HO!Init
  BY FirstOfPart
<1>2. part = "host" /\ [Next]_platformVars => [HO!Next]_(HO!hostVars)
  BY StepOfPart DEF SelfHostStep, platformVars, HO!hostVars
<1>3. part = "host" /\ [Next]_platformVars => (part = "host")'
  BY PartStays
<1>4. ~(part = "host") /\ [Next]_platformVars => ~(part = "host")'
  BY PartStays
<1>5. QED
  BY <1>1, <1>2, <1>3, <1>4, PTL DEF Spec, HO!Spec

-----------------------------------------------------------------------------
(* What the platform says follows from what its parts do.                   *)

\* SlotsMatch.
LEMMA SlotsMatchIfParts ==
    (GW!Spec => []GW!SlotsMatch)
    => (Spec => []SlotsMatch)
<1>1. (part = "gateway" => GW!SlotsMatch) => SlotsMatch
  BY DEF SlotsMatch
<1>2. QED
  BY GatewayIs, <1>1, PTL

\* BillsAreTrue.
LEMMA BillsAreTrueIfParts ==
    (GW!Spec => []GW!BilledTruthfully /\ []GW!OverdraftIsPending)
    => (Spec => []BillsAreTrue)
<1>1. /\ part = "gateway" => GW!BilledTruthfully
      /\ part = "gateway" => GW!OverdraftIsPending
      => BillsAreTrue
  BY DEF BillsAreTrue
<1>2. QED
  BY GatewayIs, <1>1, PTL

\* SpokenAndChargedOnce.
LEMMA SpokenAndChargedOnceIfParts ==
    /\ AV!Spec => []AV!MinutesChargedOnce
    /\ LI!Spec => []LI!SpokenOnce
    /\ PR!Spec => []PR!ToldAsKnown /\ []PR!WindowHolds
    => (Spec => []SpokenAndChargedOnce)
<1>1. /\ part = "avatar" => AV!MinutesChargedOnce
      /\ part = "live" => LI!SpokenOnce
      /\ part = "production" => PR!ToldAsKnown
      /\ part = "production" => PR!WindowHolds
      => SpokenAndChargedOnce
  BY DEF SpokenAndChargedOnce
<1>2. QED
  BY AvatarIs, LiveRoomIs, ProductionIs, <1>1, PTL

\* OrderedOnce.
LEMMA OrderedOnceIfParts ==
    (FI!Spec => FI!OrderedOnce)
    => (Spec => OrderedOnce)
<1>1. part = "film" /\ [Next]_platformVars /\ [FI!OrdersAnew]_(FI!filmVars)
      => [part = "film" => FI!OrdersAnew]_platformVars
  BY StepOfPart DEF FilmStep, platformVars, FI!filmVars
<1>2. ~(part = "film") => [part = "film" => FI!OrdersAnew]_platformVars
  OBVIOUS
<1>3. QED
  BY FilmIs, <1>1, <1>2, PTL DEF Spec, OrderedOnce, FI!OrderedOnce

\* TokensStayTheirs.
LEMMA TokensStayTheirsIfParts ==
    (AC!Spec => AC!DeadStaysDead /\ AC!ReplacedByItsOwn)
    => (Spec => TokensStayTheirs)
<1>1. part = "access" /\ [Next]_platformVars /\ [AC!StaysDead]_(AC!accessVars)
      => [part = "access" => AC!StaysDead]_platformVars
  BY StepOfPart DEF AccessStep, platformVars, From7, From8, From9, From10, From11, AC!accessVars
<1>2. part = "access" /\ [Next]_platformVars /\ [AC!ReplacesItsOwn]_(AC!accessVars)
      => [part = "access" => AC!ReplacesItsOwn]_platformVars
  BY StepOfPart DEF AccessStep, platformVars, From7, From8, From9, From10, From11, AC!accessVars
<1>3. ~(part = "access") => [part = "access" => AC!StaysDead]_platformVars
  OBVIOUS
<1>4. ~(part = "access") => [part = "access" => AC!ReplacesItsOwn]_platformVars
  OBVIOUS
<1>5. /\ [part = "access" => AC!StaysDead]_platformVars
      /\ [part = "access" => AC!ReplacesItsOwn]_platformVars
      => [/\ part = "access" => AC!StaysDead
          /\ part = "access" => AC!ReplacesItsOwn]_platformVars
  OBVIOUS
<1>6. QED
  BY AccessIs, <1>1, <1>2, <1>3, <1>4, <1>5, PTL DEF Spec, TokensStayTheirs, AC!DeadStaysDead,
     AC!ReplacedByItsOwn

\* ADeviceForAnApproval.
LEMMA ADeviceForAnApprovalIfParts ==
    (DE!Spec => []DE!ADeviceForAnApproval)
    => (Spec => []ADeviceForAnApproval)
<1>1. (part = "device" => DE!ADeviceForAnApproval) => ADeviceForAnApproval
  BY DEF ADeviceForAnApproval
<1>2. QED
  BY DeviceLoginIs, <1>1, PTL

\* QuotasHold.
LEMMA QuotasHoldIfParts ==
    /\ SE!Spec => SE!SeatsHold
    /\ MT!Spec => MT!DrainsInOrder
    => (Spec => QuotasHold)
<1>1. part = "seats" /\ [Next]_platformVars /\ [SE!SeatsAreHeld]_(SE!seatsVars)
      => [part = "seats" => SE!SeatsAreHeld]_platformVars
  BY StepOfPart DEF SeatsStep, platformVars, From9, From10, From11, SE!seatsVars
<1>2. part = "time" /\ [Next]_platformVars /\ [MT!DrawsInOrder]_(MT!timeVars)
      => [part = "time" => MT!DrawsInOrder]_platformVars
  BY StepOfPart DEF MachineTimeStep, platformVars, From8, From9, From10, From11, MT!timeVars
<1>3. ~(part = "seats") => [part = "seats" => SE!SeatsAreHeld]_platformVars
  OBVIOUS
<1>4. ~(part = "time") => [part = "time" => MT!DrawsInOrder]_platformVars
  OBVIOUS
<1>5. /\ [part = "seats" => SE!SeatsAreHeld]_platformVars
      /\ [part = "time" => MT!DrawsInOrder]_platformVars
      => [/\ part = "seats" => SE!SeatsAreHeld
          /\ part = "time" => MT!DrawsInOrder]_platformVars
  OBVIOUS
<1>6. QED
  BY SeatsIs, MachineTimeIs, <1>1, <1>2, <1>3, <1>4, <1>5, PTL DEF Spec, QuotasHold, SE!SeatsHold,
     MT!DrainsInOrder

\* RightsComeFirst.
LEMMA RightsComeFirstIfParts ==
    /\ GA!Spec => GA!AssetsNeedAPass
    /\ LO!Spec => LO!RefusedTouchesNothing
    => (Spec => RightsComeFirst)
<1>1. part = "gates" /\ [Next]_platformVars /\ [GA!PassIsAsked]_(GA!gateVars)
      => [part = "gates" => GA!PassIsAsked]_platformVars
  BY StepOfPart DEF GatesStep, platformVars, From10, From11, GA!gateVars
<1>2. part = "local" /\ [Next]_platformVars /\ [LO!RefusedLetsBe]_(LO!localVars)
      => [part = "local" => LO!RefusedLetsBe]_platformVars
  BY StepOfPart DEF LocalRunStep, platformVars, From6, From7, From8, From9, From10, From11,
     LO!localVars
<1>3. ~(part = "gates") => [part = "gates" => GA!PassIsAsked]_platformVars
  OBVIOUS
<1>4. ~(part = "local") => [part = "local" => LO!RefusedLetsBe]_platformVars
  OBVIOUS
<1>5. /\ [part = "gates" => GA!PassIsAsked]_platformVars
      /\ [part = "local" => LO!RefusedLetsBe]_platformVars
      => [/\ part = "gates" => GA!PassIsAsked
          /\ part = "local" => LO!RefusedLetsBe]_platformVars
  OBVIOUS
<1>6. QED
  BY GatesIs, LocalRunIs, <1>1, <1>2, <1>3, <1>4, <1>5, PTL DEF Spec, RightsComeFirst,
     GA!AssetsNeedAPass, LO!RefusedTouchesNothing

\* DeliveredInOrder.
LEMMA DeliveredInOrderIfParts ==
    (TE!Spec => []TE!DeliveredInOrder)
    => (Spec => []DeliveredInOrder)
<1>1. (part = "team" => TE!DeliveredInOrder) => DeliveredInOrder
  BY DEF DeliveredInOrder
<1>2. QED
  BY TeamRoomIs, <1>1, PTL

\* GoodCopiesStay.
LEMMA GoodCopiesStayIfParts ==
    /\ PO!Spec => PO!NoHalfPush
    /\ RO!Spec => RO!ReadBeforeWritten
    /\ IC!Spec => IC!SparesTheOthers
    /\ PV!Spec => PV!FilesAreListed
    => (Spec => GoodCopiesStay)
<1>1. part = "pods" /\ [Next]_platformVars /\ [PO!PushesWhole]_(PO!podVars)
      => [part = "pods" => PO!PushesWhole]_platformVars
  BY StepOfPart DEF PodsStep, platformVars, From9, From10, From11, PO!podVars
<1>2. part = "rooms" /\ [Next]_platformVars /\ [RO!ReadsFirst]_(RO!roomsVars)
      => [part = "rooms" => RO!ReadsFirst]_platformVars
  BY StepOfPart DEF RoomsStep, platformVars, RO!roomsVars
<1>3. part = "images" /\ [Next]_platformVars /\ [IC!SparesOthers]_(IC!cacheVars)
      => [part = "images" => IC!SparesOthers]_platformVars
  BY StepOfPart DEF ImageCacheStep, platformVars, From7, From8, From9, From10, From11,
     IC!cacheVars
<1>4. part = "preview" /\ [Next]_platformVars /\ [PV!ListsThem]_(PV!previewVars)
      => [part = "preview" => PV!ListsThem]_platformVars
  BY StepOfPart DEF PreviewStep, platformVars, From10, From11, PV!previewVars
<1>5. ~(part = "pods") => [part = "pods" => PO!PushesWhole]_platformVars
  OBVIOUS
<1>6. ~(part = "rooms") => [part = "rooms" => RO!ReadsFirst]_platformVars
  OBVIOUS
<1>7. ~(part = "images") => [part = "images" => IC!SparesOthers]_platformVars
  OBVIOUS
<1>8. ~(part = "preview") => [part = "preview" => PV!ListsThem]_platformVars
  OBVIOUS
<1>9. /\ [part = "pods" => PO!PushesWhole]_platformVars
      /\ [part = "rooms" => RO!ReadsFirst]_platformVars
      /\ [part = "images" => IC!SparesOthers]_platformVars
      /\ [part = "preview" => PV!ListsThem]_platformVars
      => [/\ part = "pods" => PO!PushesWhole
          /\ part = "rooms" => RO!ReadsFirst
          /\ part = "images" => IC!SparesOthers
          /\ part = "preview" => PV!ListsThem]_platformVars
  OBVIOUS
<1>10. QED
  BY PodsIs, RoomsIs, ImageCacheIs, PreviewIs, <1>1, <1>2, <1>3, <1>4, <1>5, <1>6, <1>7, <1>8,
     <1>9, PTL DEF Spec, GoodCopiesStay, PO!NoHalfPush, RO!ReadBeforeWritten, IC!SparesTheOthers,
     PV!FilesAreListed

\* OneOfEach.
LEMMA OneOfEachIfParts ==
    /\ ES!Spec => []ES!OneSurvives
    /\ BO!Spec => []BO!OwnAddress
    /\ WC!Spec => []WC!OneProductEach
    => (Spec => []OneOfEach)
<1>1. /\ part = "instances" => ES!OneSurvives
      /\ part = "boxes" => BO!OwnAddress
      /\ part = "catalog" => WC!OneProductEach
      => OneOfEach
  BY DEF OneOfEach
<1>2. QED
  BY InstancesIs, BoxesIs, WaffoCatalogIs, <1>1, PTL

\* ModelsAreCurrent.
LEMMA ModelsAreCurrentIfParts ==
    (SI!Spec => []SI!DefaultsAreCurrent)
    => (Spec => []ModelsAreCurrent)
<1>1. (part = "signin" => SI!DefaultsAreCurrent) => ModelsAreCurrent
  BY DEF ModelsAreCurrent
<1>2. QED
  BY SignInIs, <1>1, PTL

\* ResultsArrive.
LEMMA ResultsArriveIfParts ==
    /\ CO!Spec => []CO!EndsAsTheJob
    /\ CH!Spec => []CH!AnswersAreKept
    => (Spec => []ResultsArrive)
<1>1. /\ part = "comfy" => CO!EndsAsTheJob
      /\ part = "chat" => CH!AnswersAreKept
      => ResultsArrive
  BY DEF ResultsArrive
<1>2. QED
  BY ComfyIs, AgentChatIs, <1>1, PTL

\* IntakeHolds.
LEMMA IntakeHoldsIfParts ==
    /\ TH!Spec => []TH!WithinLimits /\ []TH!StrangersStaySmall
    /\ PV!Spec => []PV!ConnectionsReturn
    => (Spec => []IntakeHolds)
<1>1. /\ part = "intake" => TH!WithinLimits
      /\ part = "intake" => TH!StrangersStaySmall
      /\ part = "preview" => PV!ConnectionsReturn
      => IntakeHolds
  BY DEF IntakeHolds
<1>2. QED
  BY IntakeIs, PreviewIs, <1>1, PTL

\* NothingHalfDone.
LEMMA NothingHalfDoneIfParts ==
    /\ IC!Spec => []IC!NothingLeftBehind
    /\ HO!Spec => []HO!OneDeployment
    /\ LO!Spec => []LO!StacksAreWhole
    => (Spec => []NothingHalfDone)
<1>1. /\ part = "images" => IC!NothingLeftBehind
      /\ part = "host" => HO!OneDeployment
      /\ part = "local" => LO!StacksAreWhole
      => NothingHalfDone
  BY DEF NothingHalfDone
<1>2. QED
  BY ImageCacheIs, SelfHostIs, LocalRunIs, <1>1, PTL

-----------------------------------------------------------------------------
(* The parts that are proved about beside the gateway.                      *)

Calling == INSTANCE Gateway_proofs WITH
    Calls <- ModelCalls, Users <- Callers, Limit <- CallLimit,
    Requests <- Uploads,
    balance <- v1, inflight <- v2, call <- v3, faults <- v4, bills <- v5,
    wasted <- v6, active <- v1, transfer <- v2, slow <- v3, request <- v4,
    open <- v5

\* Gateway.
LEMMA GatewayKeeps == GW!Spec => []GW!SlotsMatch /\ []GW!BilledTruthfully /\ []GW!OverdraftIsPending
<1>1. GW!Init => Calling!Init
  BY DEF GW!Init, Calling!Init, GW!Nobody, Calling!Nobody
<1>2. [GW!Next]_(GW!gatewayVars) => [Calling!Next]_(Calling!gatewayVars)
  BY DEF GW!Next, Calling!Next, GW!gatewayVars, Calling!gatewayVars, GW!Faces, Calling!Faces,
     GW!Admit, Calling!Admit, GW!Serve, Calling!Serve, GW!TopUp, Calling!TopUp, GW!Restart,
     Calling!Restart, GW!ChatPlain, Calling!ChatPlain, GW!ChatStream, Calling!ChatStream,
     GW!ResponsesPlain, Calling!ResponsesPlain, GW!ResponsesStream, Calling!ResponsesStream,
     GW!Embedding, Calling!Embedding, GW!AnthropicPlain, Calling!AnthropicPlain,
     GW!AnthropicStream, Calling!AnthropicStream, GW!WebSearch, Calling!WebSearch, GW!GeminiPlain,
     Calling!GeminiPlain, GW!GeminiCount, Calling!GeminiCount, GW!GeminiStream,
     Calling!GeminiStream, GW!Image, Calling!Image, GW!At, Calling!At, GW!Blocked,
     Calling!Blocked, GW!Fails, Calling!Fails, GW!ReadBody, Calling!ReadBody, GW!Ask, Calling!Ask,
     GW!Refused, Calling!Refused, GW!TryAgain, Calling!TryAgain, GW!Answered, Calling!Answered,
     GW!StreamBegins, Calling!StreamBegins, GW!Forward, Calling!Forward, GW!StreamEnds,
     Calling!StreamEnds, GW!Hangup, Calling!Hangup, GW!Nobody, Calling!Nobody, GW!Plain,
     Calling!Plain, GW!Solvent, Calling!Solvent, GW!Goto, Calling!Goto, GW!End, Calling!End,
     GW!Unbilled, Calling!Unbilled, GW!Enter, Calling!Enter, GW!Leave, Calling!Leave, GW!Bill,
     Calling!Bill, GW!Pays, Calling!Pays
<1>3. Calling!SlotsMatch => GW!SlotsMatch
  BY DEF GW!SlotsMatch, Calling!SlotsMatch, GW!Serving, Calling!Serving, GW!Cardinality,
     Calling!Cardinality
<1>4. Calling!BilledTruthfully => GW!BilledTruthfully
  BY DEF GW!BilledTruthfully, Calling!BilledTruthfully, GW!At, Calling!At
<1>5. Calling!OverdraftIsPending => GW!OverdraftIsPending
  BY DEF GW!OverdraftIsPending, Calling!OverdraftIsPending, GW!Open, Calling!Open, GW!Serving,
     Calling!Serving, GW!Cardinality, Calling!Cardinality
<1>6. Calling!Spec => []Calling!SlotsMatch
  BY Calling!EverySlotIsGivenBack, GatewayAssumption DEF Calling!Bounds, Calling!IsFiniteSet,
     IsFiniteSet
<1>7. Calling!Spec => []Calling!BilledTruthfully
  BY Calling!BilledOnce, GatewayAssumption DEF Calling!Bounds, Calling!IsFiniteSet, IsFiniteSet
<1>8. Calling!Spec => []Calling!OverdraftIsPending
  BY Calling!OverdraftIsBounded, GatewayAssumption DEF Calling!Bounds, Calling!IsFiniteSet,
     IsFiniteSet
<1>9. QED
  BY <1>1, <1>2, <1>3, <1>4, <1>5, <1>6, <1>7, <1>8, PTL DEF GW!Spec, Calling!Spec

\* Intake.
LEMMA IntakeKeeps == TH!Spec => []TH!WithinLimits /\ []TH!StrangersStaySmall
<1>1. TH!Init => Calling!Door!Init
  BY DEF TH!Init, Calling!Door!Init, TH!NoTransfer, Calling!Door!NoTransfer, TH!NoRequest,
     Calling!Door!NoRequest
<1>2. [TH!Next]_(TH!intakeVars) => [Calling!Door!Next]_(Calling!Door!intakeVars)
  BY DEF TH!Next, Calling!Door!Next, TH!intakeVars, Calling!Door!intakeVars, TH!LastBytes,
     Calling!Door!LastBytes, TH!Leave, Calling!Door!Leave, TH!Arrive, Calling!Door!Arrive, TH!Age,
     Calling!Door!Age, TH!Chunk, Calling!Door!Chunk, TH!Whole, Calling!Door!Whole, TH!GiveUp,
     Calling!Door!GiveUp, TH!Authenticate, Calling!Door!Authenticate, TH!Answer,
     Calling!Door!Answer, TH!PipeEnds, Calling!Door!PipeEnds, TH!Kinds, Calling!Door!Kinds,
     TH!Ask, Calling!Door!Ask, TH!Connect, Calling!Door!Connect, TH!Forwarded,
     Calling!Door!Forwarded, TH!Release, Calling!Door!Release, TH!bodies, Calling!Door!bodies,
     TH!NoTransfer, Calling!Door!NoTransfer, TH!Refused, Calling!Door!Refused, TH!Fresh,
     Calling!Door!Fresh, TH!Limit, Calling!Door!Limit, TH!End, Calling!Door!End, TH!downloads,
     Calling!Door!downloads, TH!ReadAfterAuth, Calling!Door!ReadAfterAuth, TH!NoRequest,
     Calling!Door!NoRequest, TH!Slots, Calling!Door!Slots, TH!Cardinality,
     Calling!Door!Cardinality
<1>3. Calling!Door!WithinLimits => TH!WithinLimits
  BY DEF TH!WithinLimits, Calling!Door!WithinLimits, TH!Sending, Calling!Door!Sending, TH!From,
     Calling!Door!From, TH!Cardinality, Calling!Door!Cardinality
<1>4. Calling!Door!StrangersStaySmall => TH!StrangersStaySmall
  BY DEF TH!StrangersStaySmall, Calling!Door!StrangersStaySmall, TH!NoRequest,
     Calling!Door!NoRequest
<1>5. Calling!Door!Spec => []Calling!Door!WithinLimits
  BY Calling!DownloadsWithinLimits, IntakeAssumption DEF Calling!Doors, Calling!IsFiniteSet,
     IsFiniteSet
<1>6. Calling!Door!Spec => []Calling!Door!StrangersStaySmall
  BY Calling!StrangersBodiesStaySmall, IntakeAssumption DEF Calling!Doors, Calling!IsFiniteSet,
     IsFiniteSet
<1>7. QED
  BY <1>1, <1>2, <1>3, <1>4, <1>5, <1>6, PTL DEF TH!Spec, Calling!Door!Spec

-----------------------------------------------------------------------------
(* Those proved about beside the video jobs; there are no jobs here.        *)

Filming == INSTANCE VideoJobs_proofs WITH
    Jobs <- {}, Clients <- {}, Loop <- "loop", Delta <- [j \in {} |-> "same"],
    Batch <- 1, MaxCrashes <- 0, Turns <- RelayTurns, submit <- v1, upstream <- v2, aged <- v3,
    created <- v4, status <- v5, refunded <- v6, usage <- v7, refunds <- v8,
    recorded <- v11, actor <- v9, crashes <- v10, clip <- v1, pic <- v2, film <- v3,
    call <- v4, bill <- v5, told <- v6, outlay <- v7, progress <- v8,
    page <- v9, members <- v1, resume <- v2, lock <- v3, started <- v4,
    turn <- v5, handed <- v6, meddled <- v7, adrift <- v10, misled <- v11

\* TeamRoom.
LEMMA TeamRoomKeeps == TE!Spec => []TE!DeliveredInOrder
<1>1. TE!Init => Filming!Team!Init
  BY DEF TE!Init, Filming!Team!Init, TE!Unsent, Filming!Team!Unsent
<1>2. [TE!Next]_(TE!roomVars) => [Filming!Team!Next]_(Filming!Team!roomVars)
  BY DEF TE!Next, Filming!Team!Next, TE!roomVars, Filming!Team!roomVars, TE!Send,
     Filming!Team!Send, TE!Unsent, Filming!Team!Unsent, TE!Over, Filming!Team!Over, TE!Release,
     Filming!Team!Release, TE!Start, Filming!Team!Start, TE!NewLeg, Filming!Team!NewLeg,
     TE!Going, Filming!Team!Going, TE!Ends, Filming!Team!Ends, TE!Disconnect,
     Filming!Team!Disconnect, TE!Lost, Filming!Team!Lost, TE!Roster, Filming!Team!Roster,
     TE!Collect, Filming!Team!Collect, TE!ToolNames, Filming!Team!ToolNames, TE!HALT_TOOL,
     Filming!Team!HALT_TOOL, TE!Tool, Filming!Team!Tool, TE!Works, Filming!Team!Works,
     TE!Summary, Filming!Team!Summary, TE!Says, Filming!Team!Says, TE!Fails, Filming!Team!Fails,
     TE!Broken, Filming!Team!Broken, TE!Undone, Filming!Team!Undone, TE!Empty,
     Filming!Team!Empty, TE!Stop, Filming!Team!Stop, TE!Halted, Filming!Team!Halted,
     TE!HaltSeen, Filming!Team!HaltSeen, TE!Delivered, Filming!Team!Delivered, TE!Passed,
     Filming!Team!Passed, TE!RemoveMember, Filming!Team!RemoveMember, TE!Without,
     Filming!Team!Without, TE!Place, Filming!Team!Place, TE!Meddle, Filming!Team!Meddle,
     TE!SetMembers, Filming!Team!SetMembers, TE!GrowsOld, Filming!Team!GrowsOld
<1>3. Filming!Team!DeliveredInOrder => TE!DeliveredInOrder
  BY DEF TE!DeliveredInOrder, Filming!Team!DeliveredInOrder, TE!Going, Filming!Team!Going,
     TE!Ends, Filming!Team!Ends
<1>4. Filming!Team!Spec => []Filming!Team!DeliveredInOrder
  BY Filming!BatonInOrder, TeamRoomAssumption DEF Filming!Lists
<1>5. QED
  BY <1>1, <1>2, <1>3, <1>4, PTL DEF TE!Spec, Filming!Team!Spec

\* Film.
LEMMA FilmKeeps == FI!Spec => FI!OrderedOnce
<1>1. FI!Init => Filming!Movie!Init
  BY DEF FI!Init, Filming!Movie!Init, FI!Idle, Filming!Movie!Idle, FI!Keys, Filming!Movie!Keys,
     FI!NoOne, Filming!Movie!NoOne
<1>2. [FI!Next]_(FI!filmVars) => [Filming!Movie!Next]_(Filming!Movie!filmVars)
  BY DEF FI!Next, Filming!Movie!Next, FI!filmVars, Filming!Movie!filmVars, FI!Draw,
     Filming!Movie!Draw, FI!Idle, Filming!Movie!Idle, FI!Begin, Filming!Movie!Begin, FI!files,
     Filming!Movie!files, FI!orders, Filming!Movie!orders, FI!Skip, Filming!Movie!Skip,
     FI!NoOne, Filming!Movie!NoOne, FI!Look, Filming!Movie!Look, FI!IsOpen,
     Filming!Movie!IsOpen, FI!Fetch, Filming!Movie!Fetch, FI!Remove, Filming!Movie!Remove,
     FI!Shoot, Filming!Movie!Shoot, FI!Make, Filming!Movie!Make, FI!Drawn, Filming!Movie!Drawn,
     FI!Ended, Filming!Movie!Ended, FI!PollFails, Filming!Movie!PollFails, FI!Finish,
     Filming!Movie!Finish, FI!Key, Filming!Movie!Key, FI!Download, Filming!Movie!Download,
     FI!GoOn, Filming!Movie!GoOn, FI!Misleads, Filming!Movie!Misleads, FI!Concat,
     Filming!Movie!Concat, FI!PollAnswers, Filming!Movie!PollAnswers, FI!OpenPage,
     Filming!Movie!OpenPage, FI!Click, Filming!Movie!Click, FI!Upload, Filming!Movie!Upload,
     FI!Submit, Filming!Movie!Submit, FI!SetBill, Filming!Movie!SetBill, FI!Straight,
     Filming!Movie!Straight, FI!WriteClip, Filming!Movie!WriteClip, FI!TurnEnds,
     Filming!Movie!TurnEnds, FI!Forgets, Filming!Movie!Forgets, FI!Keys, Filming!Movie!Keys,
     FI!Unheard, Filming!Movie!Unheard, FI!PollGarbled, Filming!Movie!PollGarbled, FI!GoesOn,
     Filming!Movie!GoesOn, FI!Restart, Filming!Movie!Restart
<1>3. [Filming!Movie!OrdersAnew]_(Filming!Movie!filmVars) => [FI!OrdersAnew]_(FI!filmVars)
  BY DEF FI!OrdersAnew, Filming!Movie!OrdersAnew, FI!filmVars, Filming!Movie!filmVars,
     FI!IsOpen, Filming!Movie!IsOpen, FI!Key, Filming!Movie!Key
<1>4. Filming!Movie!Spec => Filming!Movie!OrderedOnce
  BY Filming!NoOrderBesideOneKnown
<1>5. QED
  BY <1>1, <1>2, <1>3, <1>4, PTL DEF FI!Spec, Filming!Movie!Spec, FI!OrderedOnce,
     Filming!Movie!OrderedOnce

-----------------------------------------------------------------------------
(* The catalogue, proved about beside the orders; there are no orders here. *)

Selling == INSTANCE Orders_proofs WITH
    Orders <- {}, Workers <- {}, Kind <- [o \in {} |-> "plan"],
    Provider <- [o \in {} |-> "waffo"], Crashes <- FALSE, status <- v1,
    trade <- v2, outbox <- v3, handler <- v4, given <- v5, taken <- v6,
    unanswered <- v7, MaxEpoch <- MaxRenames, text <- v1, long <- v2, kv <- v3, prod <- v4,
    checkout <- v5, owed <- v6, excused <- v7

\* WaffoCatalog.
LEMMA WaffoCatalogKeeps == WC!Spec => []WC!OneProductEach
<1>1. WC!Init => Selling!Goods!Init
  BY DEF WC!Init, Selling!Goods!Init, WC!Ids, Selling!Goods!Ids, WC!Absent, Selling!Goods!Absent,
     WC!Idle, Selling!Goods!Idle
<1>2. [WC!Next]_(WC!catalogVars) => [Selling!Goods!Next]_(Selling!Goods!catalogVars)
  BY DEF WC!Next, Selling!Goods!Next, WC!catalogVars, Selling!Goods!catalogVars, WC!Begin,
     Selling!Goods!Begin, WC!Look, Selling!Goods!Look, WC!Create, Selling!Goods!Create,
     WC!Publish, Selling!Goods!Publish, WC!Session, Selling!Goods!Session, WC!Retext,
     Selling!Goods!Retext, WC!Reprice, Selling!Goods!Reprice, WC!LoseCache,
     Selling!Goods!LoseCache, WC!SyncCatalog, Selling!Goods!SyncCatalog, WC!RenameProducts,
     Selling!Goods!RenameProducts, WC!Ids, Selling!Goods!Ids, WC!Refund, Selling!Goods!Refund,
     WC!Deactivate, Selling!Goods!Deactivate, WC!RetireProducts, Selling!Goods!RetireProducts,
     WC!At, Selling!Goods!At, WC!Go, Selling!Goods!Go, WC!Idle, Selling!Goods!Idle, WC!tables,
     Selling!Goods!tables, WC!Fail, Selling!Goods!Fail, WC!Found, Selling!Goods!Found, WC!Kept,
     Selling!Goods!Kept, WC!Made, Selling!Goods!Made, WC!Product, Selling!Goods!Product, WC!Cut,
     Selling!Goods!Cut, WC!Unfound, Selling!Goods!Unfound, WC!Cached, Selling!Goods!Cached,
     WC!Active, Selling!Goods!Active, WC!Absent, Selling!Goods!Absent, WC!Cardinality,
     Selling!Goods!Cardinality
<1>3. Selling!Goods!OneProductEach => WC!OneProductEach
  BY DEF WC!OneProductEach, Selling!Goods!OneProductEach, WC!Active, Selling!Goods!Active,
     WC!Made, Selling!Goods!Made, WC!Ids, Selling!Goods!Ids, WC!Absent, Selling!Goods!Absent,
     WC!Cardinality, Selling!Goods!Cardinality
<1>4. Selling!Goods!Spec => []Selling!Goods!OneProductEach
  BY Selling!OneProductOnSale
<1>5. QED
  BY <1>1, <1>2, <1>3, <1>4, PTL DEF WC!Spec, Selling!Goods!Spec

-----------------------------------------------------------------------------
(* The others.                                                              *)

Each == INSTANCE Parts_proofs WITH
    Kinds <- LineKinds, Blocked <- BlockedPorts, Files <- VolumeFiles,
    Slots <- LocalSlots, Sold <- OnSale,
    member <- v1, owner <- v2, seats <- v3, invite <- v4, join <- v5,
    locked <- v6, sales <- v7, admitted <- v8, row <- v1, epoch <- v2,
    barred <- v3, answer <- v4, approvals <- v5, devices <- v6, onair <- v1,
    queue <- v2, good <- v3, listed <- v4, starting <- v5, recent <- v6,
    line <- v7, said <- v8, bills <- v9, replied <- v10, trouble <- v11,
    purse <- v1, page <- v2, node <- v3, report <- v4, claimed <- v5,
    charged <- v6, say <- v7, breaks <- v8, torn <- v9, stamp <- v10, chats <- v1,
    tab <- v2, turn <- v3, kept <- v4, stops <- v5, copy <- v6, turns <- v7,
    unread <- v8, main <- v1, bak <- v2, tmp <- v3, used <- v4, mem <- v5, failed <- v6,
    up <- v7, writer <- v8, mishaps <- v9, settled <- v10, doubt <- v11,
    maker <- v1, job <- v2, task <- v3, names <- v4, upload <- v5,
    slot <- v6, lost <- v7, boxRow <- v1, box <- v2, made <- v3, work <- v4,
    reaper <- v5, groups <- v1, ordered <- v2, elsewhere <- v3, route <- v4,
    clearing <- v5, calm <- v6, pod <- v1, local <- v2, marker <- v3,
    whole <- v4, oss <- v5, secret <- v6, server <- v7, refresh <- v8,
    device <- v1, pass <- v2, docker <- v3, shell <- v4, deaf <- v5, compose <- v1,
    config <- v2, keyfile <- v3, env <- v4, dot <- v5, state <- v6,
    call <- v7, stacks <- v8, identity <- v9, product <- v1, app <- v2,
    account <- v3, wrong <- v4, saved <- v5, conf <- v6, mark <- v7,
    script <- v8, stored <- v9, chosen <- v10, rebuilds <- v11, now <- v1,
    spent <- v2, passes <- v3, sale <- v4, boxes <- v5, seen <- v6,
    waiting <- v7, word <- v8, asking <- v9, running <- v1, static <- v2, serving <- v3,
    disk <- v4, cookie <- v5, views <- v6, conns <- v7,
    mounted <- v8, stayed <- v9, clock <- v1,
    edge <- v2, samples <- v3, pts <- v4, slow <- v5, told <- v6,
    forgot <- v7, missed <- v8, behind <- v9, faults <- v10, enabled <- v1,
    cache <- v2, run <- v3, eip <- v4, excused <- v5, upsets <- v6,
    time <- v1, ends <- v2, log <- v3, pack <- v4, pool <- v5,
    ceiling <- v6, busy <- v7, standing <- v1, era <- v2, issuance <- v3,
    key <- v4, mailed <- v5, visit <- v6

\* Avatar.
LEMMA AvatarKeeps == AV!Spec => []AV!MinutesChargedOnce
<1>1. AV!Init => Each!Avatars!Init
  BY DEF AV!Init, Each!Avatars!Init, AV!Reports, Each!Avatars!Reports, AV!Stamps,
     Each!Avatars!Stamps, AV!Silent, Each!Avatars!Silent
<1>2. [AV!Next]_(AV!avatarVars) => [Each!Avatars!Next]_(Each!Avatars!avatarVars)
  BY DEF AV!Next, Each!Avatars!Next, AV!avatarVars, Each!Avatars!avatarVars, AV!Session,
     Each!Avatars!Session, AV!Money, Each!Avatars!Money, AV!Calm, Each!Avatars!Calm, AV!Connect,
     Each!Avatars!Connect, AV!Leaves, Each!Avatars!Leaves, AV!HangUp, Each!Avatars!HangUp,
     AV!Ask, Each!Avatars!Ask, AV!Silent, Each!Avatars!Silent, AV!Sentence,
     Each!Avatars!Sentence, AV!SayEnds, Each!Avatars!SayEnds, AV!Listen, Each!Avatars!Listen,
     AV!MinutePasses, Each!Avatars!MinutePasses, AV!Reports, Each!Avatars!Reports, AV!GrowsOld,
     Each!Avatars!GrowsOld, AV!MeterNew, Each!Avatars!MeterNew, AV!Claim, Each!Avatars!Claim,
     AV!Charge, Each!Avatars!Charge, AV!Answer, Each!Avatars!Answer, AV!Break,
     Each!Avatars!Break, AV!MeterAgain, Each!Avatars!MeterAgain, AV!TopUp, Each!Avatars!TopUp,
     AV!Crash, Each!Avatars!Crash
<1>3. Each!Avatars!MinutesChargedOnce => AV!MinutesChargedOnce
  BY DEF AV!MinutesChargedOnce, Each!Avatars!MinutesChargedOnce, AV!Reports,
     Each!Avatars!Reports
<1>4. Each!Avatars!Spec => []Each!Avatars!MinutesChargedOnce
  BY Each!MinuteOnce
<1>5. QED
  BY <1>1, <1>2, <1>3, <1>4, PTL DEF AV!Spec, Each!Avatars!Spec

\* LiveRoom.
LEMMA LiveRoomKeeps == LI!Spec => []LI!SpokenOnce
<1>1. LI!Init => Each!Live!Init
  BY DEF LI!Init, Each!Live!Init, LI!Unseen, Each!Live!Unseen
<1>2. [LI!Next]_(LI!liveVars) => [Each!Live!Next]_(Each!Live!liveVars)
  BY DEF LI!Next, Each!Live!Next, LI!liveVars, Each!Live!liveVars, LI!Forget, Each!Live!Forget,
     LI!ListRooms, Each!Live!ListRooms, LI!Restart, Each!Live!Restart, LI!CountLive,
     Each!Live!CountLive, LI!Start, Each!Live!Start, LI!Stop, Each!Live!Stop, LI!Utter,
     Each!Live!Utter, LI!CooledDown, Each!Live!CooledDown, LI!Comment, Each!Live!Comment,
     LI!Direct, Each!Live!Direct, LI!Placed, Each!Live!Placed, LI!Hedge, Each!Live!Hedge,
     LI!Answered, Each!Live!Answered, LI!Unanswered, Each!Live!Unanswered, LI!Lost,
     Each!Live!Lost, LI!Interject, Each!Live!Interject, LI!Node, Each!Live!Node, LI!Spoken,
     Each!Live!Spoken, LI!Trouble, Each!Live!Trouble, LI!Status, Each!Live!Status, LI!Unseen,
     Each!Live!Unseen, LI!Seen, Each!Live!Seen, LI!RoomStatus, Each!Live!RoomStatus, LI!Goto,
     Each!Live!Goto, LI!Pay, Each!Live!Pay, LI!Yield, Each!Live!Yield, LI!Speak, Each!Live!Speak,
     LI!Cardinality, Each!Live!Cardinality
<1>3. Each!Live!SpokenOnce => LI!SpokenOnce
  BY DEF LI!SpokenOnce, Each!Live!SpokenOnce
<1>4. Each!Live!Spec => []Each!Live!SpokenOnce
  BY Each!SpokenAndBilledOnce
<1>5. QED
  BY <1>1, <1>2, <1>3, <1>4, PTL DEF LI!Spec, Each!Live!Spec

\* Production.
LEMMA ProductionKeeps == PR!Spec => []PR!ToldAsKnown /\ []PR!WindowHolds
<1>1. PR!Init => Each!Studio!Init
  BY DEF PR!Init, Each!Studio!Init, PR!Nothing, Each!Studio!Nothing
<1>2. [PR!Next]_(PR!productionVars) => [Each!Studio!Next]_(Each!Studio!productionVars)
  <2>1. ASSUME NEW r, NEW STATE e PROVE Each!Studio!Points(r, e) = PR!Points(r, e)
    BY DEF PR!Points, Each!Studio!Points, PR!Sampled, Each!Studio!Sampled, PR!Before,
       Each!Studio!Before, PR!OtherScene, Each!Studio!OtherScene, PR!Last, Each!Studio!Last
  <2>2. ASSUME NEW r, NEW STATE e PROVE Each!Studio!OtherScene(r, e) <=> PR!OtherScene(r, e)
    BY DEF PR!OtherScene, Each!Studio!OtherScene, PR!Last, Each!Studio!Last
  <2>3. ASSUME NEW STATE q PROVE Each!Studio!Judged(q) <=> PR!Judged(q)
    BY DEF PR!Judged, Each!Studio!Judged, PR!Span, Each!Studio!Span, PR!Last, Each!Studio!Last
  <2>4. ASSUME NEW r, NEW STATE q PROVE PR!Judge(r, q) => Each!Studio!Judge(r, q)
    BY DEF PR!Judge, Each!Studio!Judge, PR!IsBad, Each!Studio!IsBad, PR!IsOk, Each!Studio!IsOk,
       PR!Span, Each!Studio!Span, PR!Gain, Each!Studio!Gain, PR!Last, Each!Studio!Last,
       PR!Record, Each!Studio!Record, PR!Reported, Each!Studio!Reported
  <2>5. ASSUME NEW r, NEW STATE e, PR!Sample(r, e) PROVE Each!Studio!Sample(r, e)
    BY <2>1, <2>2, <2>3, <2>4, <2>5 DEF PR!Sample, Each!Studio!Sample, PR!NewScene,
       Each!Studio!NewScene, PR!Reported, Each!Studio!Reported
  <2>6. QED
    BY <2>5 DEF PR!Next, Each!Studio!Next, PR!productionVars, Each!Studio!productionVars,
       PR!Tick, Each!Studio!Tick, PR!ListRooms, Each!Studio!ListRooms, PR!Restart,
       Each!Studio!Restart, PR!Begin, Each!Studio!Begin, PR!End, Each!Studio!End, PR!Status,
       Each!Studio!Status, PR!Captions, Each!Studio!Captions, PR!Sampler, Each!Studio!Sampler,
       PR!Reported, Each!Studio!Reported, PR!Trouble, Each!Studio!Trouble, PR!Nothing,
       Each!Studio!Nothing
<1>3. Each!Studio!ToldAsKnown => PR!ToldAsKnown
  BY DEF PR!ToldAsKnown, Each!Studio!ToldAsKnown
<1>4. Each!Studio!WindowHolds => PR!WindowHolds
  BY DEF PR!WindowHolds, Each!Studio!WindowHolds
<1>5. Each!Studio!Spec => []Each!Studio!ToldAsKnown
  BY Each!LastReportIsTrue
<1>6. Each!Studio!Spec => []Each!Studio!WindowHolds
  BY Each!JudgedWithinTheWindow, ProductionAssumption DEF Each!Windowed
<1>7. QED
  BY <1>1, <1>2, <1>3, <1>4, <1>5, <1>6, PTL DEF PR!Spec, Each!Studio!Spec

\* Preview.
LEMMA PreviewKeeps == PV!Spec => PV!FilesAreListed /\ []PV!ConnectionsReturn
<1>1. PV!Init => Each!View!Init
  BY DEF PV!Init, Each!View!Init, PV!Blank, Each!View!Blank
<1>2. [PV!Next]_(PV!previewVars) => [Each!View!Next]_(Each!View!previewVars)
  BY DEF PV!Next, Each!View!Next, PV!previewVars, Each!View!previewVars, PV!Wakes,
     Each!View!Wakes, PV!Works, Each!View!Works, PV!Index, Each!View!Index, PV!Quiet,
     Each!View!Quiet, PV!Blank, Each!View!Blank, PV!Listed, Each!View!Listed, PV!OfflineFiles,
     Each!View!OfflineFiles, PV!AskStatic, Each!View!AskStatic, PV!At, Each!View!At,
     PV!StaticFiles, Each!View!StaticFiles, PV!Instance, Each!View!Instance, PV!ListFiles,
     Each!View!ListFiles, PV!OpenFile, Each!View!OpenFile, PV!Proxy, Each!View!Proxy,
     PV!Fallback, Each!View!Fallback, PV!Forward, Each!View!Forward, PV!Go, Each!View!Go,
     PV!Sort, Each!View!Sort, PV!Given, Each!View!Given, PV!Close, Each!View!Close, PV!ReadHtml,
     Each!View!ReadHtml, PV!Relay, Each!View!Relay, PV!Collect, Each!View!Collect
<1>3. [Each!View!ListsThem]_(Each!View!previewVars) => [PV!ListsThem]_(PV!previewVars)
  BY DEF PV!ListsThem, Each!View!ListsThem, PV!previewVars, Each!View!previewVars
<1>4. Each!View!ConnectionsReturn => PV!ConnectionsReturn
  BY DEF PV!ConnectionsReturn, Each!View!ConnectionsReturn, PV!Open, Each!View!Open
<1>5. Each!View!Spec => Each!View!FilesAreListed
  BY Each!ListedAsTheyAre
<1>6. Each!View!Spec => []Each!View!ConnectionsReturn
  BY Each!NoConnectionLeaks
<1>7. QED
  BY <1>1, <1>2, <1>3, <1>4, <1>5, <1>6, PTL DEF PV!Spec, Each!View!Spec, PV!FilesAreListed,
     Each!View!FilesAreListed

\* Access.
LEMMA AccessKeeps == AC!Spec => AC!DeadStaysDead /\ AC!ReplacedByItsOwn
<1>1. AC!Init => Each!Guard!Init
  BY DEF AC!Init, Each!Guard!Init, AC!Unsigned, Each!Guard!Unsigned, AC!Idle, Each!Guard!Idle
<1>2. [AC!Next]_(AC!accessVars) => [Each!Guard!Next]_(Each!Guard!accessVars)
  BY DEF AC!Next, Each!Guard!Next, AC!accessVars, Each!Guard!accessVars, AC!Verify,
     Each!Guard!Verify, AC!ReadMailed, Each!Guard!ReadMailed, AC!Opening, Each!Guard!Opening,
     AC!StartFlow, Each!Guard!StartFlow, AC!Callback, Each!Guard!Callback, AC!Changing,
     Each!Guard!Changing, AC!ChangePassword, Each!Guard!ChangePassword, AC!GiveUp,
     Each!Guard!GiveUp, AC!SignIn, Each!Guard!SignIn, AC!MailIn, Each!Guard!MailIn, AC!FinishFlow,
     Each!Guard!FinishFlow, AC!Mint, Each!Guard!Mint, AC!RevokeDevice, Each!Guard!RevokeDevice,
     AC!SetStatus, Each!Guard!SetStatus, AC!SendMail, Each!Guard!SendMail, AC!MailUseless,
     Each!Guard!MailUseless, AC!CreateKey, Each!Guard!CreateKey, AC!RevokeKey,
     Each!Guard!RevokeKey, AC!DeleteAccount, Each!Guard!DeleteAccount, AC!Begin, Each!Guard!Begin,
     AC!SignedIn, Each!Guard!SignedIn, AC!Does, Each!Guard!Does, AC!EndSessions,
     Each!Guard!EndSessions, AC!Revoked, Each!Guard!Revoked, AC!Rowed, Each!Guard!Rowed, AC!Ends,
     Each!Guard!Ends, AC!Idle, Each!Guard!Idle, AC!SetCookie, Each!Guard!SetCookie, AC!Sign,
     Each!Guard!Sign, AC!AtAddress, Each!Guard!AtAddress, AC!Unsigned, Each!Guard!Unsigned,
     AC!Live, Each!Guard!Live, AC!Accepted, Each!Guard!Accepted
<1>3. [Each!Guard!StaysDead]_(Each!Guard!accessVars) => [AC!StaysDead]_(AC!accessVars)
  BY DEF AC!StaysDead, Each!Guard!StaysDead, AC!accessVars, Each!Guard!accessVars, AC!Unsigned,
     Each!Guard!Unsigned, AC!Accepted, Each!Guard!Accepted
<1>4. [Each!Guard!ReplacesItsOwn]_(Each!Guard!accessVars) => [AC!ReplacesItsOwn]_(AC!accessVars)
  BY DEF AC!ReplacesItsOwn, Each!Guard!ReplacesItsOwn, AC!accessVars, Each!Guard!accessVars,
     AC!Unsigned, Each!Guard!Unsigned, AC!Live, Each!Guard!Live
<1>5. Each!Guard!Spec => Each!Guard!DeadStaysDead
  BY Each!RefusedForGood, AccessAssumption DEF Each!Naming
<1>6. Each!Guard!Spec => Each!Guard!ReplacedByItsOwn
  BY Each!RevokesItsOwn, AccessAssumption DEF Each!Naming
<1>7. QED
  BY <1>1, <1>2, <1>3, <1>4, <1>5, <1>6, PTL DEF AC!Spec, Each!Guard!Spec, AC!DeadStaysDead,
     Each!Guard!DeadStaysDead, AC!ReplacedByItsOwn, Each!Guard!ReplacedByItsOwn

\* DeviceLogin.
LEMMA DeviceLoginKeeps == DE!Spec => []DE!ADeviceForAnApproval
<1>1. DE!Init => Each!Login!Init
  BY DEF DE!Init, Each!Login!Init, DE!None, Each!Login!None, DE!Quiet, Each!Login!Quiet,
     DE!Never, Each!Login!Never, DE!Nobody, Each!Login!Nobody
<1>2. [DE!Next]_(DE!deviceVars) => [Each!Login!Next]_(Each!Login!deviceVars)
  BY DEF DE!Next, Each!Login!Next, DE!deviceVars, Each!Login!deviceVars, DE!StartCode,
     Each!Login!StartCode, DE!None, Each!Login!None, DE!Row, Each!Login!Row, DE!Sweep,
     Each!Login!Sweep, DE!Never, Each!Login!Never, DE!Nobody, Each!Login!Nobody, DE!Poll,
     Each!Login!Poll, DE!Minted, Each!Login!Minted, DE!PollDenied, Each!Login!PollDenied,
     DE!ReadCode, Each!Login!ReadCode, DE!Quiet, Each!Login!Quiet, DE!WriteCode,
     Each!Login!WriteCode, DE!EndSessions, Each!Login!EndSessions
<1>3. Each!Login!ADeviceForAnApproval => DE!ADeviceForAnApproval
  BY DEF DE!ADeviceForAnApproval, Each!Login!ADeviceForAnApproval
<1>4. Each!Login!Spec => []Each!Login!ADeviceForAnApproval
  BY Each!ADevicePerApproval, DeviceLoginAssumption DEF Each!Named
<1>5. QED
  BY <1>1, <1>2, <1>3, <1>4, PTL DEF DE!Spec, Each!Login!Spec

\* Seats.
LEMMA SeatsKeeps == SE!Spec => SE!SeatsHold
<1>1. SE!Init => Each!Init
  BY DEF SE!Init, Each!Init, SE!Nobody, Each!Nobody, SE!NotYet, Each!NotYet, SE!Away, Each!Away
<1>2. [SE!Next]_(SE!seatsVars) => [Each!Next]_(Each!seatsVars)
  BY DEF SE!Next, Each!Next, SE!seatsVars, Each!seatsVars, SE!Leave, Each!Leave, SE!BuySeats,
     Each!BuySeats, SE!Nobody, Each!Nobody, SE!Invite, Each!Invite, SE!Check, Each!Check,
     SE!LockOrg, Each!LockOrg, SE!Join, Each!Join, SE!CreateOrg, Each!CreateOrg, SE!Found,
     Each!Found, SE!Claim, Each!Claim, SE!Owned, Each!Owned, SE!SeatsUsed, Each!SeatsUsed,
     SE!Invited, Each!Invited, SE!OrgOf, Each!OrgOf, SE!Goto, Each!Goto, SE!Rollback,
     Each!Rollback, SE!Away, Each!Away, SE!Founding, Each!Founding, SE!NotYet, Each!NotYet,
     SE!Claims, Each!Claims, SE!Cardinality, Each!Cardinality
<1>3. [Each!SeatsAreHeld]_(Each!seatsVars) => [SE!SeatsAreHeld]_(SE!seatsVars)
  BY DEF SE!SeatsAreHeld, Each!SeatsAreHeld, SE!seatsVars, Each!seatsVars, SE!Cardinality,
     Each!Cardinality
<1>4. Each!Spec => Each!SeatsHold
  BY Each!NobodyOverTheSeats, SeatsAssumption DEF Each!Seating, Each!IsFiniteSet, IsFiniteSet
<1>5. QED
  BY <1>1, <1>2, <1>3, <1>4, PTL DEF SE!Spec, Each!Spec, SE!SeatsHold, Each!SeatsHold

\* The sums and the extrema of the meter are the same there.
LEMMA SameSums ==
    /\ \A f, S : MT!Total(f, S) = Each!Meters!Total(f, S)
    /\ \A S : /\ MT!Max(S) = Each!Meters!Max(S) /\ MT!Min(S) = Each!Meters!Min(S)
              /\ MT!Cardinality(S) = Each!Meters!Cardinality(S)
<1>1. ASSUME NEW f, NEW S PROVE MT!Total(f, S) = Each!Meters!Total(f, S)
  BY DEF MT!Total, Each!Meters!Total, MT!MapThenSumSet, Each!Meters!MapThenSumSet,
     MT!MapThenFoldSet, Each!Meters!MapThenFoldSet
<1>2. ASSUME NEW S
      PROVE  /\ MT!Max(S) = Each!Meters!Max(S) /\ MT!Min(S) = Each!Meters!Min(S)
             /\ MT!Cardinality(S) = Each!Meters!Cardinality(S)
  BY DEF MT!Max, Each!Meters!Max, MT!Min, Each!Meters!Min, MT!Cardinality, Each!Meters!Cardinality
<1>3. QED
  BY <1>1, <1>2

\* So is what is used of a plan, and which packs are left, now and after a step.
LEMMA SameTerms ==
    /\ \A p : MT!Units(p) = Each!Meters!Units(p)
    /\ \A s, p : MT!Rows(s, p) = Each!Meters!Rows(s, p)
    /\ \A f : MT!Left(f) = Each!Meters!Left(f)
    /\ MT!Paid <=> Each!Meters!Paid
    /\ MT!PeriodStart = Each!Meters!PeriodStart
    /\ MT!IncludedMinutes = Each!Meters!IncludedMinutes
    /\ MT!Live = Each!Meters!Live
    /\ MT!Period = Each!Meters!Period
    /\ MT!Used = Each!Meters!Used /\ MT!MemberUsed = Each!Meters!MemberUsed
    /\ MT!Used' = Each!Meters!Used'
<1>1. ASSUME NEW p PROVE MT!Units(p) = Each!Meters!Units(p)
  BY DEF MT!Units, Each!Meters!Units
<1>2. /\ MT!Paid <=> Each!Meters!Paid
      /\ MT!PeriodStart = Each!Meters!PeriodStart
      /\ MT!IncludedMinutes = Each!Meters!IncludedMinutes
      /\ MT!Live = Each!Meters!Live
      /\ MT!Period = Each!Meters!Period
  BY DEF MT!Paid, Each!Meters!Paid, MT!PeriodStart, Each!Meters!PeriodStart, MT!Period,
     Each!Meters!Period, MT!IncludedMinutes, Each!Meters!IncludedMinutes, MT!Live, Each!Meters!Live
<1>3. ASSUME NEW s, NEW p PROVE MT!Rows(s, p) = Each!Meters!Rows(s, p)
  BY SameSums DEF MT!Rows, Each!Meters!Rows
<1>4. MT!Used = Each!Meters!Used /\ MT!MemberUsed = Each!Meters!MemberUsed
  BY SameSums, <1>1, <1>2, <1>3
  DEF MT!Used, Each!Meters!Used, MT!MemberUsed, Each!Meters!MemberUsed, MT!Period, Each!Meters!Period
<1>5. MT!Used' = Each!Meters!Used'
  <2>1. MT!PeriodStart' = Each!Meters!PeriodStart'
    BY DEF MT!Paid, Each!Meters!Paid, MT!PeriodStart, Each!Meters!PeriodStart, MT!Period,
       Each!Meters!Period
  <2>2. ASSUME NEW s, NEW p PROVE MT!Rows(s, p)' = Each!Meters!Rows(s, p)'
    BY SameSums DEF MT!Rows, Each!Meters!Rows
  <2>3. QED
    BY SameSums, <1>1, <2>1, <2>2 DEF MT!Used, Each!Meters!Used
<1>6. ASSUME NEW f PROVE MT!Left(f) = Each!Meters!Left(f)
  BY DEF MT!Left, Each!Meters!Left
<1>7. QED
  BY <1>1, <1>2, <1>3, <1>4, <1>5, <1>6

\* MachineTime.
LEMMA MachineTimeKeeps == MT!Spec => MT!DrainsInOrder
<1>1. MT!Init <=> Each!Meters!Init
  BY DEF MT!Init, Each!Meters!Init, MT!NotYet, Each!Meters!NotYet, MT!Alone, Each!Meters!Alone
<1>2. MT!Next <=> Each!Meters!Next
  <2>1. MT!OwnLeft = Each!Meters!OwnLeft
    BY SameSums, SameTerms
    DEF MT!OwnLeft, Each!Meters!OwnLeft, MT!PacksLeft, Each!Meters!PacksLeft
  <2>2. ASSUME NEW u PROVE MT!Drain(u) = Each!Meters!Drain(u)
    <3> DEFINE live == Each!Meters!Live
               gives(order, g) ==
                   LET earlier == {h \in live : order[h] < order[g]}
                       owed == Each!Meters!Max(
                                  {0, u - Each!Meters!Total(Each!Meters!Left(v4), earlier)})
                   IN  [v4[g] EXCEPT !.left = @ - Each!Meters!Min({@, owed})]
               orders == {f \in [live -> 1..Each!Meters!Cardinality(live)] :
                            \A g, h \in live : /\ g # h => f[g] # f[h]
                                               /\ v4[g].until < v4[h].until => f[g] < f[h]}
               given(order, g) ==
                   LET earlier == {h \in MT!Live : order[h] < order[g]}
                       owed == MT!Max({0, u - MT!Total(MT!Left(v4), earlier)})
                   IN  [v4[g] EXCEPT !.left = @ - MT!Min({@, owed})]
               paid(order) == [g \in Packs |-> IF g \notin MT!Live THEN v4[g] ELSE given(order, g)]
               pays(order) == [g \in Packs |-> IF g \notin live THEN v4[g] ELSE gives(order, g)]
               ranks == {f \in [MT!Live -> 1..MT!Cardinality(MT!Live)] :
                            \A g, h \in MT!Live : /\ g # h => f[g] # f[h]
                                                  /\ v4[g].until < v4[h].until => f[g] < f[h]}
    <3>1. Each!Meters!Drain(u) = {pays(order) : order \in orders}
      BY DEF Each!Meters!Drain
    <3>2. MT!Drain(u) = {paid(order) : order \in ranks}
      BY DEF MT!Drain
    <3>3. ASSUME NEW order, NEW g PROVE given(order, g) = gives(order, g)
      <4> DEFINE before == {h \in live : order[h] < order[g]}
      <4>1. {h \in MT!Live : order[h] < order[g]} = before
        BY SameTerms
      <4> HIDE DEF before
      <4>2. MT!Total(MT!Left(v4), before) = Each!Meters!Total(Each!Meters!Left(v4), before)
        BY SameSums, SameTerms
      <4>3. QED
        BY SameSums, <4>1, <4>2 DEF before
    <3>4. ASSUME NEW order PROVE paid(order) = pays(order)
      <4> HIDE DEF given, gives
      <4>1. QED
        BY SameTerms, <3>3
    <3>5. orders = ranks
      BY SameSums, SameTerms
    <3> HIDE DEF orders, ranks, paid, pays
    <3>6. QED
      BY <3>1, <3>2, <3>4, <3>5
  <2>3. ASSUME NEW p \in Machines PROVE MT!Meter(p) <=> Each!Meters!Meter(p)
    BY SameSums, SameTerms, <2>2
    DEF MT!Meter, Each!Meters!Meter, MT!Metered, Each!Meters!Metered
  <2>4. ASSUME NEW p \in Machines PROVE MT!Open(p) <=> Each!Meters!Open(p)
    BY SameTerms, <2>1
    DEF MT!Open, Each!Meters!Open, MT!Blocked, Each!Meters!Blocked, MT!Capped,
        Each!Meters!Capped, MT!PoolLeft, Each!Meters!PoolLeft, MT!Alone, Each!Meters!Alone,
        MT!Unlimited, Each!Meters!Unlimited
  <2>5. QED
    BY SameTerms, <2>3, <2>4
    DEF MT!Next, Each!Meters!Next, MT!ApplyPlan, Each!Meters!ApplyPlan,
       MT!GrantMinutePool, Each!Meters!GrantMinutePool, MT!Tick, Each!Meters!Tick,
       MT!GrantMinutes, Each!Meters!GrantMinutes, MT!SetCap, Each!Meters!SetCap, MT!Close,
       Each!Meters!Close, MT!Alone, Each!Meters!Alone, MT!NotYet, Each!Meters!NotYet,
       MT!Unlimited, Each!Meters!Unlimited
<1>3. [MT!Next]_(MT!timeVars) => [Each!Meters!Next]_(Each!Meters!timeVars)
  BY <1>2 DEF MT!timeVars, Each!Meters!timeVars
<1>4. [Each!Meters!DrawsInOrder]_(Each!Meters!timeVars) => [MT!DrawsInOrder]_(MT!timeVars)
  BY SameSums, SameTerms
  DEF MT!DrawsInOrder, Each!Meters!DrawsInOrder, MT!Drawn, Each!Meters!Drawn, MT!LeftIn,
      Each!Meters!LeftIn, MT!timeVars, Each!Meters!timeVars
<1>5. Each!Meters!Spec => Each!Meters!DrainsInOrder
  BY Each!PacksPayInOrder, MachineTimeAssumption DEF Each!Metering, Each!IsFiniteSet, IsFiniteSet
<1>6. QED
  BY <1>1, <1>3, <1>4, <1>5, PTL DEF MT!Spec, Each!Meters!Spec, MT!DrainsInOrder,
     Each!Meters!DrainsInOrder

\* Gates.
LEMMA GatesKeeps == GA!Spec => GA!AssetsNeedAPass
<1>1. GA!Init => Each!Gate!Init
  BY DEF GA!Init, Each!Gate!Init, GA!Quiet, Each!Gate!Quiet
<1>2. [GA!Next]_(GA!gateVars) => [Each!Gate!Next]_(Each!Gate!gateVars)
  BY DEF GA!Next, Each!Gate!Next, GA!gateVars, Each!Gate!gateVars, GA!Exempt, Each!Gate!Exempt,
     GA!PASS_ANY, Each!Gate!PASS_ANY, GA!Quiet, Each!Gate!Quiet, GA!RevokeLockExemption,
     Each!Gate!RevokeLockExemption, GA!Tick, Each!Gate!Tick, GA!Spend, Each!Gate!Spend,
     GA!PassReads, Each!Gate!PassReads, GA!PassEnds, Each!Gate!PassEnds, GA!PassInserts,
     Each!Gate!PassInserts, GA!PassSpans, Each!Gate!PassSpans, GA!WorkRoute,
     Each!Gate!WorkRoute, GA!FastRoute, Each!Gate!FastRoute, GA!CanOpenLocked,
     Each!Gate!CanOpenLocked, GA!PassActive, Each!Gate!PassActive, GA!Short, Each!Gate!Short,
     GA!Served, Each!Gate!Served, GA!papers, Each!Gate!papers, GA!ColdRoute,
     Each!Gate!ColdRoute, GA!ColdAnswer, Each!Gate!ColdAnswer, GA!Ensure, Each!Gate!Ensure,
     GA!Ready, Each!Gate!Ready, GA!TurnedAway, Each!Gate!TurnedAway, GA!WorkShell,
     Each!Gate!WorkShell, GA!WorkEntry, Each!Gate!WorkEntry, GA!WorkStatus,
     Each!Gate!WorkStatus, GA!Polls, Each!Gate!Polls, GA!WorkStop, Each!Gate!WorkStop,
     GA!Heartbeat, Each!Gate!Heartbeat, GA!HalfMinute, Each!Gate!HalfMinute, GA!Die,
     Each!Gate!Die, GA!Max, Each!Gate!Max
<1>3. [Each!Gate!PassIsAsked]_(Each!Gate!gateVars) => [GA!PassIsAsked]_(GA!gateVars)
  BY DEF GA!PassIsAsked, Each!Gate!PassIsAsked, GA!gateVars, Each!Gate!gateVars, GA!CanOpenLocked,
     Each!Gate!CanOpenLocked, GA!PassActive, Each!Gate!PassActive, GA!PASS_ANY, Each!Gate!PASS_ANY
<1>4. Each!Gate!Spec => Each!Gate!AssetsNeedAPass
  BY Each!LockComesFirst, GatesAssumption DEF Each!Gate!Quiet, GA!Quiet
<1>5. QED
  BY <1>1, <1>2, <1>3, <1>4, PTL DEF GA!Spec, Each!Gate!Spec, GA!AssetsNeedAPass,
     Each!Gate!AssetsNeedAPass

\* Pods.
LEMMA PodsKeeps == PO!Spec => PO!NoHalfPush
<1>1. PO!Init => Each!Kube!Init
  BY DEF PO!Init, Each!Kube!Init, PO!NoSecret, Each!Kube!NoSecret
<1>2. [PO!Next]_(PO!podVars) => [Each!Kube!Next]_(Each!Kube!podVars)
  BY DEF PO!Next, Each!Kube!Next, PO!podVars, Each!Kube!podVars, PO!Inspect, Each!Kube!Inspect,
     PO!Mint, Each!Kube!Mint, PO!Post, Each!Kube!Post, PO!Conflict, Each!Kube!Conflict,
     PO!DeleteSecret, Each!Kube!DeleteSecret, PO!Destroy, Each!Kube!Destroy, PO!Mounted,
     Each!Kube!Mounted, PO!Fetched, Each!Kube!Fetched, PO!Broken, Each!Kube!Broken, PO!Nothing,
     Each!Kube!Nothing, PO!Push, Each!Kube!Push, PO!FinalPush, Each!Kube!FinalPush, PO!Evicted,
     Each!Kube!Evicted, PO!Edit, Each!Kube!Edit, PO!ListPods, Each!Kube!ListPods, PO!ListSecrets,
     Each!Kube!ListSecrets, PO!DeleteOrphan, Each!Kube!DeleteOrphan, PO!Renew, Each!Kube!Renew,
     PO!Time, Each!Kube!Time, PO!Vanish, Each!Kube!Vanish, PO!WriteSecret, Each!Kube!WriteSecret,
     PO!Data, Each!Kube!Data, PO!Created, Each!Kube!Created, PO!NoSecret, Each!Kube!NoSecret,
     PO!Sync, Each!Kube!Sync
<1>3. [Each!Kube!PushesWhole]_(Each!Kube!podVars) => [PO!PushesWhole]_(PO!podVars)
  BY DEF PO!PushesWhole, Each!Kube!PushesWhole, PO!podVars, Each!Kube!podVars
<1>4. Each!Kube!Spec => Each!Kube!NoHalfPush
  BY Each!HalfIsNotPushed
<1>5. QED
  BY <1>1, <1>2, <1>3, <1>4, PTL DEF PO!Spec, Each!Kube!Spec, PO!NoHalfPush, Each!Kube!NoHalfPush

\* Instances.
LEMMA InstancesKeeps == ES!Spec => []ES!OneSurvives
<1>1. ES!Init => Each!Cloud!Init
  BY DEF ES!Init, Each!Cloud!Init, ES!Idle, Each!Cloud!Idle
<1>2. [ES!Next]_(ES!instanceVars) => [Each!Cloud!Next]_(Each!Cloud!instanceVars)
  BY DEF ES!Next, Each!Cloud!Next, ES!instanceVars, Each!Cloud!instanceVars, ES!Inspect,
     Each!Cloud!Inspect, ES!Inspected, Each!Cloud!Inspected, ES!Create, Each!Cloud!Create,
     ES!CreatePod, Each!Cloud!CreatePod, ES!Release, Each!Cloud!Release, ES!ListAll,
     Each!Cloud!ListAll, ES!ReleasedEci, Each!Cloud!ReleasedEci, ES!ReleasePod,
     Each!Cloud!ReleasePod, ES!Unreachable, Each!Cloud!Unreachable, ES!Delete, Each!Cloud!Delete,
     ES!Progress, Each!Cloud!Progress, ES!Reroute, Each!Cloud!Reroute, ES!Idle, Each!Cloud!Idle,
     ES!Picked, Each!Cloud!Picked, ES!Keeper, Each!Cloud!Keeper, ES!Nrs, Each!Cloud!Nrs,
     ES!Unchanged, Each!Cloud!Unchanged, ES!Go, Each!Cloud!Go, ES!Finished, Each!Cloud!Finished,
     ES!Alive, Each!Cloud!Alive
<1>3. Each!Cloud!OneSurvives => ES!OneSurvives
  BY DEF ES!OneSurvives, Each!Cloud!OneSurvives, ES!Alive, Each!Cloud!Alive
<1>4. Each!Cloud!Spec => []Each!Cloud!OneSurvives
  BY Each!OneIsLeft
<1>5. QED
  BY <1>1, <1>2, <1>3, <1>4, PTL DEF ES!Spec, Each!Cloud!Spec

\* Boxes.
LEMMA BoxesKeeps == BO!Spec => []BO!OwnAddress
<1>1. BO!Init => Each!House!Init
  BY DEF BO!Init, Each!House!Init, BO!NoRow, Each!House!NoRow, BO!NoBox, Each!House!NoBox,
     BO!Keys, Each!House!Keys, BO!Idle, Each!House!Idle
<1>2. [BO!Next]_(BO!boxVars) => [Each!House!Next]_(Each!House!boxVars)
  BY DEF BO!Next, Each!House!Next, BO!boxVars, Each!House!boxVars, BO!Keys, Each!House!Keys,
     BO!Ensure, Each!House!Ensure, BO!Post, Each!House!Post, BO!Insert, Each!House!Insert,
     BO!Tunnel, Each!House!Tunnel, BO!Wake, Each!House!Wake, BO!Run, Each!House!Run, BO!Remove,
     Each!House!Remove, BO!Count, Each!House!Count, BO!StopBox, Each!House!StopBox, BO!Inspect,
     Each!House!Inspect, BO!BoxGone, Each!House!BoxGone, BO!Idle, Each!House!Idle, BO!NoRow,
     Each!House!NoRow, BO!Go, Each!House!Go, BO!Wakes, Each!House!Wakes, BO!Taken,
     Each!House!Taken, BO!GiveUp, Each!House!GiveUp, BO!Remove, Each!House!Remove
<1>3. Each!House!OwnAddress => BO!OwnAddress
  BY DEF BO!OwnAddress, Each!House!OwnAddress
<1>4. Each!House!Spec => []Each!House!OwnAddress
  BY Each!AnAddressEach, BoxesAssumption DEF Each!Net
<1>5. QED
  BY <1>1, <1>2, <1>3, <1>4, PTL DEF BO!Spec, Each!House!Spec

\* ImageCache.
LEMMA ImageCacheKeeps == IC!Spec => IC!SparesTheOthers /\ []IC!NothingLeftBehind
<1>1. IC!Init => Each!Store!Init
  BY DEF IC!Init, Each!Store!Init, IC!Never, Each!Store!Never, IC!Idle, Each!Store!Idle
<1>2. [IC!Next]_(IC!cacheVars) => [Each!Store!Next]_(Each!Store!cacheVars)
  BY DEF IC!Next, Each!Store!Next, IC!cacheVars, Each!Store!cacheVars, IC!CloudBuilds,
     Each!Store!CloudBuilds, IC!CloudEnds, Each!Store!CloudEnds, IC!OtherBuilds,
     Each!Store!OtherBuilds, IC!OtherDrops, Each!Store!OtherDrops, IC!Deploy, Each!Store!Deploy,
     IC!Step, Each!Store!Step, IC!With, Each!Store!With, IC!Covers, Each!Store!Covers, IC!Born,
     Each!Store!Born, IC!Begin, Each!Store!Begin, IC!List, Each!Store!List, IC!Decide,
     Each!Store!Decide, IC!Decided, Each!Store!Decided, IC!AwaitGood, Each!Store!AwaitGood,
     IC!AwaitBad, Each!Store!AwaitBad, IC!Allocate, Each!Store!Allocate, IC!Create,
     Each!Store!Create, IC!Wait, Each!Store!Wait, IC!Finally, Each!Store!Finally, IC!Release,
     Each!Store!Release, IC!Sweep, Each!Store!Sweep, IC!Killed, Each!Store!Killed, IC!Kept,
     Each!Store!Kept, IC!Set, Each!Store!Set, IC!Idle, Each!Store!Idle, IC!Stale,
     Each!Store!Stale, IC!Missing, Each!Store!Missing, IC!Goes, Each!Store!Goes, IC!Drop,
     Each!Store!Drop, IC!Trouble, Each!Store!Trouble, IC!Excuse, Each!Store!Excuse, IC!After,
     Each!Store!After, IC!Listed, Each!Store!Listed
<1>3. [Each!Store!SparesOthers]_(Each!Store!cacheVars) => [IC!SparesOthers]_(IC!cacheVars)
  BY DEF IC!SparesOthers, Each!Store!SparesOthers, IC!cacheVars, Each!Store!cacheVars, IC!Covers,
     Each!Store!Covers
<1>4. Each!Store!NothingLeftBehind => IC!NothingLeftBehind
  BY DEF IC!NothingLeftBehind, Each!Store!NothingLeftBehind, IC!With, Each!Store!With
<1>5. Each!Store!Spec => Each!Store!SparesTheOthers
  BY Each!SweepSparesOthers, ImageCacheAssumption DEF Each!Grouped
<1>6. Each!Store!Spec => []Each!Store!NothingLeftBehind
  BY Each!NothingIsLeft, ImageCacheAssumption DEF Each!Grouped
<1>7. QED
  BY <1>1, <1>2, <1>3, <1>4, <1>5, <1>6, PTL DEF IC!Spec, Each!Store!Spec, IC!SparesTheOthers,
     Each!Store!SparesTheOthers

\* SignIn.
LEMMA SignInKeeps == SI!Spec => []SI!DefaultsAreCurrent
<1>1. SI!Init => Each!Wall!Init
  BY DEF SI!Init, Each!Wall!Init, SI!PassesOn, Each!Wall!PassesOn, SI!Fresh, Each!Wall!Fresh
<1>2. [SI!Next]_(SI!signVars) => [Each!Wall!Next]_(Each!Wall!signVars)
  BY DEF SI!Next, Each!Wall!Next, SI!signVars, Each!Wall!signVars, SI!ScriptStep,
     Each!Wall!ScriptStep, SI!DifyLogin, Each!Wall!DifyLogin, SI!Reloads, Each!Wall!Reloads,
     SI!Goto, Each!Wall!Goto, SI!Fresh, Each!Wall!Fresh, SI!others, Each!Wall!others,
     SI!DifyRefused, Each!Wall!DifyRefused, SI!DifyMark, Each!Wall!DifyMark, SI!Mark,
     Each!Wall!Mark, SI!DifyPlugin, Each!Wall!DifyPlugin, SI!DifyDefault, Each!Wall!DifyDefault,
     SI!Written, Each!Wall!Written, SI!Held, Each!Wall!Held, SI!DifyNotYet,
     Each!Wall!DifyNotYet, SI!Again, Each!Wall!Again, SI!DifyRest, Each!Wall!DifyRest,
     SI!CozeTry, Each!Wall!CozeTry, SI!Accepts, Each!Wall!Accepts, SI!LastTry,
     Each!Wall!LastTry, SI!CozeMark, Each!Wall!CozeMark, SI!HermesTry, Each!Wall!HermesTry,
     SI!HermesMark, Each!Wall!HermesMark, SI!MausTry, Each!Wall!MausTry, SI!MausMark,
     Each!Wall!MausMark, SI!Refresh, Each!Wall!Refresh, SI!AppSwitches, Each!Wall!AppSwitches,
     SI!SessionEnds, Each!Wall!SessionEnds, SI!Rebuild, Each!Wall!Rebuild, SI!PassesOn,
     Each!Wall!PassesOn
<1>3. Each!Wall!DefaultsAreCurrent => SI!DefaultsAreCurrent
  BY DEF SI!DefaultsAreCurrent, Each!Wall!DefaultsAreCurrent
<1>4. Each!Wall!Spec => []Each!Wall!DefaultsAreCurrent
  BY Each!DefaultsHaveTheToken, SignInAssumption DEF Each!Offered
<1>5. QED
  BY <1>1, <1>2, <1>3, <1>4, PTL DEF SI!Spec, Each!Wall!Spec

\* Comfy.
LEMMA ComfyKeeps == CO!Spec => []CO!EndsAsTheJob
<1>1. CO!Init => Each!Make!Init
  BY DEF CO!Init, Each!Make!Init, CO!NoJob, Each!Make!NoJob
<1>2. [CO!Next]_(CO!comfyVars) => [Each!Make!Next]_(Each!Make!comfyVars)
  BY DEF CO!Next, Each!Make!Next, CO!comfyVars, Each!Make!comfyVars, CO!Start, Each!Make!Start,
     CO!To, Each!Make!To, CO!OpenUpload, Each!Make!OpenUpload, CO!Opened, Each!Make!Opened,
     CO!Answered, Each!Make!Answered, CO!Lose, Each!Make!Lose, CO!Send, Each!Make!Send,
     CO!Received, Each!Make!Received, CO!Sweep, Each!Make!Sweep, CO!Look, Each!Make!Look,
     CO!Unsold, Each!Make!Unsold, CO!Mapped, Each!Make!Mapped, CO!Sold, Each!Make!Sold,
     CO!Create, Each!Make!Create, CO!Film, Each!Make!Film, CO!Running, Each!Make!Running,
     CO!CreatePicture, Each!Make!CreatePicture, CO!Straight, Each!Make!Straight, CO!Made,
     Each!Make!Made, CO!Failed, Each!Make!Failed, CO!JobFails, Each!Make!JobFails, CO!Unended,
     Each!Make!Unended, CO!JobIsMade, Each!Make!JobIsMade, CO!Fetchable, Each!Make!Fetchable,
     CO!PaysBack, Each!Make!PaysBack, CO!TaskEnds, Each!Make!TaskEnds, CO!PollLost,
     Each!Make!PollLost, CO!Poll, Each!Make!Poll, CO!Told, Each!Make!Told, CO!PollPicture,
     Each!Make!PollPicture, CO!TooLate, Each!Make!TooLate
<1>3. Each!Make!EndsAsTheJob => CO!EndsAsTheJob
  BY DEF CO!EndsAsTheJob, Each!Make!EndsAsTheJob
<1>4. Each!Make!Spec => []Each!Make!EndsAsTheJob
  BY Each!ReportedAsItIs
<1>5. QED
  BY <1>1, <1>2, <1>3, <1>4, PTL DEF CO!Spec, Each!Make!Spec

\* AgentChat.
LEMMA AgentChatKeeps == CH!Spec => []CH!AnswersAreKept
<1>1. CH!Init => Each!Chat!Init
  BY DEF CH!Init, Each!Chat!Init, CH!NoTab, Each!Chat!NoTab, CH!Turns, Each!Chat!Turns, CH!Nope,
     Each!Chat!Nope
<1>2. [CH!Next]_(CH!chatVars) => [Each!Chat!Next]_(Each!Chat!chatVars)
  BY DEF CH!Next, Each!Chat!Next, CH!chatVars, Each!Chat!chatVars, CH!Create, Each!Chat!Create,
     CH!LoopFree, Each!Chat!LoopFree, CH!Turns, Each!Chat!Turns, CH!Write, Each!Chat!Write,
     CH!Read, Each!Chat!Read, CH!DeleteReads, Each!Chat!DeleteReads, CH!Nope, Each!Chat!Nope,
     CH!DeleteWrites, Each!Chat!DeleteWrites, CH!DeleteUnlinks, Each!Chat!DeleteUnlinks,
     CH!Loses, Each!Chat!Loses, CH!Older, Each!Chat!Older, CH!Connect, Each!Chat!Connect,
     CH!Serves, Each!Chat!Serves, CH!Close, Each!Chat!Close, CH!Send, Each!Chat!Send,
     CH!AppendQuestion, Each!Chat!AppendQuestion, CH!Started, Each!Chat!Started, CH!To,
     Each!Chat!To, CH!Binds, Each!Chat!Binds, CH!BindsWrites, Each!Chat!BindsWrites, CH!Says,
     Each!Chat!Says, CH!Breaks, Each!Chat!Breaks, CH!Ends, Each!Chat!Ends, CH!Append,
     Each!Chat!Append, CH!Stop, Each!Chat!Stop, CH!ReadStop, Each!Chat!ReadStop
<1>3. Each!Chat!AnswersAreKept => CH!AnswersAreKept
  BY DEF CH!AnswersAreKept, Each!Chat!AnswersAreKept, CH!Turns, Each!Chat!Turns
<1>4. Each!Chat!Spec => []Each!Chat!AnswersAreKept
  BY Each!EveryAnswerIsKept
<1>5. QED
  BY <1>1, <1>2, <1>3, <1>4, PTL DEF CH!Spec, Each!Chat!Spec

\* Rooms.
LEMMA RoomsKeeps == RO!Spec => RO!ReadBeforeWritten
<1>1. RO!Init => Each!Archive!Init
  BY DEF RO!Init, Each!Archive!Init, RO!None, Each!Archive!None, RO!Idle, Each!Archive!Idle
<1>2. [RO!Next]_(RO!roomsVars) => [Each!Archive!Next]_(Each!Archive!roomsVars)
  BY DEF RO!Next, Each!Archive!Next, RO!roomsVars, Each!Archive!roomsVars, RO!Start,
     Each!Archive!Start, RO!Crash, Each!Archive!Crash, RO!Damage, Each!Archive!Damage,
     RO!AddMessage, Each!Archive!AddMessage, RO!CreateRoom, Each!Archive!CreateRoom, RO!Backup,
     Each!Archive!Backup, RO!Write, Each!Archive!Write, RO!Replace, Each!Archive!Replace,
     RO!Known, Each!Archive!Known, RO!DeleteRoom, Each!Archive!DeleteRoom, RO!Read,
     Each!Archive!Read, RO!None, Each!Archive!None, RO!Half, Each!Archive!Half, RO!Refused,
     Each!Archive!Refused, RO!SEED, Each!Archive!SEED, RO!Saving, Each!Archive!Saving, RO!disk,
     Each!Archive!disk, RO!Idle, Each!Archive!Idle, RO!history, Each!Archive!history, RO!Save,
     Each!Archive!Save, RO!Whole, Each!Archive!Whole, RO!Moved, Each!Archive!Moved
<1>3. [Each!Archive!ReadsFirst]_(Each!Archive!roomsVars) => [RO!ReadsFirst]_(RO!roomsVars)
  BY DEF RO!ReadsFirst, Each!Archive!ReadsFirst, RO!roomsVars, Each!Archive!roomsVars
<1>4. Each!Archive!Spec => Each!Archive!ReadBeforeWritten
  BY Each!NeverOverUnread
<1>5. QED
  BY <1>1, <1>2, <1>3, <1>4, PTL DEF RO!Spec, Each!Archive!Spec, RO!ReadBeforeWritten,
     Each!Archive!ReadBeforeWritten

\* LocalRun.
LEMMA LocalRunKeeps == LO!Spec => LO!RefusedTouchesNothing /\ []LO!StacksAreWhole
<1>1. LO!Init => Each!Mine!Init
  BY DEF LO!Init, Each!Mine!Init, LO!Nothing, Each!Mine!Nothing, LO!Containers,
     Each!Mine!Containers
<1>2. [LO!Next]_(LO!localVars) => [Each!Mine!Next]_(Each!Mine!localVars)
  BY DEF LO!Next, Each!Mine!Next, LO!localVars, Each!Mine!localVars, LO!Login, Each!Mine!Login,
     LO!Revoke, Each!Mine!Revoke, LO!PassChanges, Each!Mine!PassChanges, LO!Run, Each!Mine!Run,
     LO!Quiet, Each!Mine!Quiet, LO!Goes, Each!Mine!Goes, LO!Plan, Each!Mine!Plan, LO!At,
     Each!Mine!At, LO!Planned, Each!Mine!Planned, LO!Accepted, Each!Mine!Accepted, LO!Unlocked,
     Each!Mine!Unlocked, LO!Stop, Each!Mine!Stop, LO!StopStack, Each!Mine!StopStack,
     LO!Containers, Each!Mine!Containers, LO!Named, Each!Mine!Named, LO!Pull, Each!Mine!Pull,
     LO!Initialise, Each!Mine!Initialise, LO!Free, Each!Mine!Free, LO!StartMain,
     Each!Mine!StartMain, LO!Becomes, Each!Mine!Becomes, LO!Join, Each!Mine!Join, LO!JoinFails,
     Each!Mine!JoinFails, LO!Up, Each!Mine!Up, LO!Interrupt, Each!Mine!Interrupt,
     LO!StopCommand, Each!Mine!StopCommand
<1>3. [Each!Mine!RefusedLetsBe]_(Each!Mine!localVars) => [LO!RefusedLetsBe]_(LO!localVars)
  BY DEF LO!RefusedLetsBe, Each!Mine!RefusedLetsBe, LO!localVars, Each!Mine!localVars
<1>4. Each!Mine!StacksAreWhole => LO!StacksAreWhole
  BY DEF LO!StacksAreWhole, Each!Mine!StacksAreWhole, LO!Free, Each!Mine!Free
<1>5. Each!Mine!Spec => Each!Mine!RefusedTouchesNothing
  BY Each!RefusedIsHarmless, LocalRunAssumption DEF Each!Sidecars
<1>6. Each!Mine!Spec => []Each!Mine!StacksAreWhole
  BY Each!UpIsWhole, LocalRunAssumption DEF Each!Sidecars
<1>7. QED
  BY <1>1, <1>2, <1>3, <1>4, <1>5, <1>6, PTL DEF LO!Spec, Each!Mine!Spec,
     LO!RefusedTouchesNothing, Each!Mine!RefusedTouchesNothing

\* SelfHost.
LEMMA SelfHostKeeps == HO!Spec => []HO!OneDeployment
<1>1. HO!Init => Each!Setup!Init
  BY DEF HO!Init, Each!Setup!Init, HO!NoState, Each!Setup!NoState, HO!NotYet, Each!Setup!NotYet
<1>2. [HO!Next]_(HO!hostVars) => [Each!Setup!Next]_(Each!Setup!hostVars)
  BY DEF HO!Next, Each!Setup!Next, HO!hostVars, Each!Setup!hostVars, HO!Edit, Each!Setup!Edit,
     HO!Step, Each!Setup!Step, HO!Files, Each!Setup!Files, HO!Begin, Each!Setup!Begin,
     HO!Initialize, Each!Setup!Initialize, HO!Restore, Each!Setup!Restore, HO!NotInitialized,
     Each!Setup!NotInitialized, HO!Docker, Each!Setup!Docker, HO!Killed, Each!Setup!Killed,
     HO!Commands, Each!Setup!Commands, HO!Modes, Each!Setup!Modes, HO!Fresh, Each!Setup!Fresh,
     HO!Check, Each!Setup!Check, HO!CopyTemplates, Each!Setup!CopyTemplates, HO!ReadCompose,
     Each!Setup!ReadCompose, HO!WriteCompose, Each!Setup!WriteCompose, HO!CopyConfig,
     Each!Setup!CopyConfig, HO!WriteSecret, Each!Setup!WriteSecret, HO!WriteEnv,
     Each!Setup!WriteEnv, HO!MakeDot, Each!Setup!MakeDot, HO!WriteState, Each!Setup!WriteState,
     HO!NoState, Each!Setup!NoState, HO!Configured, Each!Setup!Configured, HO!At, Each!Setup!At,
     HO!Goes, Each!Setup!Goes, HO!Empty, Each!Setup!Empty, HO!Answers, Each!Setup!Answers,
     HO!Applied, Each!Setup!Applied, HO!Asked, Each!Setup!Asked
<1>3. Each!Setup!OneDeployment => HO!OneDeployment
  BY DEF HO!OneDeployment, Each!Setup!OneDeployment, HO!NoState, Each!Setup!NoState
<1>4. Each!Setup!Spec => []Each!Setup!OneDeployment
  BY Each!FilesOfOneCall, SelfHostAssumption
<1>5. QED
  BY <1>1, <1>2, <1>3, <1>4, PTL DEF HO!Spec, Each!Setup!Spec

-----------------------------------------------------------------------------
(* The theorems.                                                            *)

\* The gateway: the number of calls of a user in flight is the number of those
\* that hold a slot, whatever ends them and in whatever order
\* (gateway.py: _enter and _leave around streams, failures and disconnects).
THEOREM SlotsAlwaysMatch == Spec => []SlotsMatch
  BY SlotsMatchIfParts, GatewayKeeps

\* The gateway: a call is billed once if it served something and not at all
\* otherwise, and what a user owes comes from calls that were in flight.
THEOREM BillsStayTrue == Spec => []BillsAreTrue
  BY BillsAreTrueIfParts, GatewayKeeps

\* However often reports are delivered, those of one key are charged once, unless
\* the charge failed behind its claim; no line of a live room is spoken or charged
\* twice, and no change of its production reported twice, whatever is restarted.
THEOREM OnceIsOnce == Spec => []SpokenAndChargedOnce
  BY SpokenAndChargedOnceIfParts, AvatarKeeps, LiveRoomKeeps, ProductionKeeps

\* A shot of a film is not ordered again while its last order is open, by whoever
\* was told of that order and remembers it (see NeverPaidTwice of Film).
THEOREM NoOrderBesideOneKnown == Spec => OrderedOnce
  BY OrderedOnceIfParts, FilmKeeps

\* A token that was once refused is refused for good, and a token is replaced
\* by one of its own workspace only.
THEOREM TokensAreNeverTaken == Spec => TokensStayTheirs
  BY TokensStayTheirsIfParts, AccessKeeps

\* No user has more devices of a code than he has given approvals, so that nobody
\* has one who gave none.
THEOREM DevicesAreApproved == Spec => []ADeviceForAnApproval
  BY ADeviceForAnApprovalIfParts, DeviceLoginKeeps

\* Nobody joins over the seats that were bought, and what a minute takes beyond
\* the plan comes, whole if they hold so much, from the packs that have not
\* expired, in the order they do.
THEOREM QuotasAreKept == Spec => QuotasHold
  BY QuotasHoldIfParts, SeatsKeeps, MachineTimeKeeps

\* A page of a locked product is served to nobody who had no right to it when the
\* request was let in, and a run on the user's machine that is refused leaves
\* alone what runs there.
THEOREM RightsAreAsked == Spec => RightsComeFirst
  BY RightsComeFirstIfParts, GatesKeeps, LocalRunKeeps

\* A member of a relay works only when all before it have delivered, through
\* interruptions and takeovers and through removals while no relay runs.
THEOREM RelaysKeepTheOrder == Spec => []DeliveredInOrder
  BY DeliveredInOrderIfParts, TeamRoomKeeps

\* A broken restore is never pushed; a store of rooms writes only after reading
\* what was there, unless the disk looked new or two threads wrote at once;
\* clearing away stale images spares those that products start from; and where the
\* server mounts the files of a workspace, what was there all the while is listed.
THEOREM GoodCopiesAreKept == Spec => GoodCopiesStay
  BY GoodCopiesStayIfParts, PodsKeeps, RoomsKeeps, ImageCacheKeeps, PreviewKeeps

\* The duplicates of an instance are never all deleted, no two computers have one
\* address, and checkouts that follow one another use one product of an item.
THEOREM DuplicatesAreSettled == Spec => []OneOfEach
  BY OneOfEachIfParts, InstancesKeeps, BoxesKeeps, WaffoCatalogKeeps

\* A product that was set up runs on the models it was started with.
THEOREM ModelsStayCurrent == Spec => []ModelsAreCurrent
  BY ModelsAreCurrentIfParts, SignInKeeps

\* A node ends as the job it started has been, and the answer to a question is
\* kept although the page that asked has gone, unless the file of its chat could
\* not be read, was full, or was removed.
THEOREM AnswersArrive == Spec => []ResultsArrive
  BY ResultsArriveIfParts, ComfyKeeps, AgentChatKeeps

\* Downloads hold no more slots than there are, and a body larger than a
\* stranger may send is read for nobody who has not signed in; a connection to an
\* instance is given back however its answer ends.
THEOREM IntakeIsBounded == Spec => []IntakeHolds
  BY IntakeHoldsIfParts, IntakeKeeps, PreviewKeeps

\* Tools that work step by step clean up after what fails: no address or cache of
\* a build that ended, no secret of one call beside the settings of another, no
\* stack that failed up in part, as far as docker does what it is told.
THEOREM ToolsCleanUp == Spec => []NothingHalfDone
  BY NothingHalfDoneIfParts, ImageCacheKeeps, SelfHostKeeps, LocalRunKeeps
=============================================================================
