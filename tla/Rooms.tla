------------------------------- MODULE Rooms -------------------------------
(***************************************************************************)
(* The archive of the agents' team (rooms.py, and the handlers of main.py   *)
(* that change it).  All rooms and messages are in memory and are written,  *)
(* whole, to one file on a network disk after every change; the file before *)
(* it is kept as a backup.  When the container starts it reads the file,    *)
(* and must tell an archive that cannot be read from one that never was: a  *)
(* first start begins with a room of its own and writes it.                 *)
(*                                                                         *)
(* Some handlers run on the event loop and some on threads, so two may be   *)
(* saving at a time.  What a room holds is left out: a room is there or not.*)
(***************************************************************************)
EXTENDS Integers, FiniteSets

CONSTANTS
    RoomIds,    \* rooms that the user opens
    Writers,    \* the event loop and a thread
    MaxTrouble  \* bounds the bad starts and the damage to the disk

VARIABLES
    main, bak,  \* rooms.json and rooms.json.bak
    tmp,        \* rooms.tmp, which all writers use
    used,       \* is there anything in the workspace?
    mem,        \* Store.rooms
    failed,     \* Store.load_failed
    up,         \* does the container run?
    writer,     \* of each writer: how far its save is, and the file it writes to
    trouble,
    settled,    \* history: rooms that were in the last two archives
    doubt       \* history: a start saw nothing at all of a disk that was in use, or
                \* two saves ran at a time

roomsVars == <<main, bak, tmp, used, mem, failed, up, writer, trouble, settled, doubt>>
disk == <<main, bak, tmp, used>>
history == <<settled, doubt>>

SEED  == "seed"
Known == RoomIds \union {SEED}
None  == [kind |-> "none", rooms |-> {}]
Half  == [kind |-> "half", rooms |-> {}]
Whole(rooms) == [kind |-> "whole", rooms |-> rooms]
Files == {None, Half} \union {Whole(rooms) : rooms \in SUBSET Known}

Idle   == [step |-> "idle", file |-> "tmp", rooms |-> {}]
Saving == [Idle EXCEPT !.step = "backup"]
Steps == {"backup", "write", "replace"}

TypeOK ==
    /\ {main, bak, tmp} \subseteq Files /\ used \in BOOLEAN
    /\ mem \subseteq Known /\ failed \in BOOLEAN /\ up \in BOOLEAN
    /\ writer \in [Writers -> {Idle} \union
                     [step : Steps, file : {"tmp", "main"}, rooms : SUBSET Known]]
    /\ trouble \in 0..MaxTrouble
    /\ settled \subseteq Known /\ doubt \in BOOLEAN

Init ==
    /\ main = None /\ bak = None /\ tmp = None /\ used \in BOOLEAN
    /\ mem = {} /\ failed = FALSE /\ up = FALSE
    /\ writer = [w \in Writers |-> Idle]
    /\ trouble = 0 /\ settled = {} /\ doubt = FALSE

-----------------------------------------------------------------------------
(* Starting.                                                                *)

\* What a start makes of the two files: the first one that can be read, or
\* that none was there, or that one was there and could not be read.
Read(files) ==
    IF \E i \in DOMAIN files : files[i].kind = "whole"
    THEN files[CHOOSE i \in DOMAIN files : /\ files[i].kind = "whole"
                                           /\ \A j \in 1..i - 1 : files[j].kind # "whole"]
    ELSE IF \E i \in DOMAIN files : files[i].kind = "half" THEN Half ELSE None

\* Mutant of Refused: whoever finds no rooms starts afresh.
RefusedNever(seen, empty) == FALSE

\* An archive that is not there is a first start only where nothing else is.
Refused(seen, empty) == seen = Half \/ (seen = None /\ ~empty)

\* _load: the disk may answer with errors, may not list the files yet, or may
\* not list anything yet.
Start(view) ==
    /\ ~up /\ up' = TRUE
    /\ view = "plain" \/ trouble < MaxTrouble
    /\ trouble' = IF view = "plain" THEN trouble ELSE trouble + 1
    /\ LET seen  == CASE view = "plain"  -> Read(<<main, bak>>)
                      [] view = "errors" -> Read(<<IF main = None THEN None ELSE Half,
                                                   IF bak = None THEN None ELSE Half>>)
                      [] OTHER           -> None
           empty == view = "blank" \/ ~used
           seeds == seen.rooms = {} /\ ~Refused(seen, empty)
       IN  /\ failed' = Refused(seen, empty)
           /\ doubt' = (doubt \/ (view = "blank" /\ used))
           /\ mem' = IF seeds THEN {SEED} ELSE seen.rooms
           /\ writer' = IF seeds THEN [writer EXCEPT !["loop"] = Saving] ELSE writer
    /\ UNCHANGED <<disk, settled>>

\* The container is stopped or dies; a file that is being written stays as it is.
Crash ==
    /\ up /\ up' = FALSE
    /\ mem' = {} /\ failed' = FALSE
    /\ writer' = [w \in Writers |-> Idle]
    /\ UNCHANGED <<disk, trouble, history>>

Damage ==
    /\ main.kind = "whole" /\ trouble < MaxTrouble
    /\ main' = Half /\ trouble' = trouble + 1
    /\ UNCHANGED <<bak, tmp, used, mem, failed, up, writer, history>>

-----------------------------------------------------------------------------
(* Changing, and saving.                                                    *)

\* A store that could not read refuses to write.
Save(w) == writer' = [writer EXCEPT ![w] = IF failed THEN Idle ELSE Saving]

\* create_room, create_crew and create_team_room run on the event loop, as do
\* messages and set_members, which change no room's being there.
CreateRoom(r) ==
    /\ up /\ writer["loop"] = Idle /\ r \notin mem
    /\ mem' = mem \union {r}
    /\ Save("loop")
    /\ UNCHANGED <<disk, failed, up, trouble, history>>

AddMessage ==
    /\ up /\ writer["loop"] = Idle /\ mem # {}
    /\ Save("loop")
    /\ UNCHANGED <<disk, mem, failed, up, trouble, history>>

\* delete_room runs on a thread; the files that the room has made stay.
DeleteRoom(w, r) ==
    /\ up /\ writer[w] = Idle /\ w # "loop" /\ r \in mem
    /\ mem' = mem \ {r}
    /\ Save(w)
    /\ settled' = settled \ {r}
    /\ UNCHANGED <<disk, failed, up, trouble, doubt>>

\* The archive there is becomes the backup, in whatever state it is; then
\* what there is to write is put together.
Backup(w) ==
    /\ writer[w].step = "backup"
    /\ used' = TRUE
    /\ bak' = IF main = None THEN bak ELSE main
    /\ tmp' = Half
    /\ writer' = [writer EXCEPT ![w].step = "write", ![w].rooms = mem]
    /\ doubt' = (doubt \/ \E v \in Writers \ {w} : writer[v] # Idle)
    /\ UNCHANGED <<main, mem, failed, up, trouble, settled>>

\* What is open may have been moved by the other writer.
Write(w) ==
    /\ writer[w].step = "write"
    /\ IF writer[w].file = "tmp" THEN tmp' = Whole(writer[w].rooms) /\ UNCHANGED main
       ELSE main' = Whole(writer[w].rooms) /\ UNCHANGED tmp
    /\ writer' = [writer EXCEPT ![w].step = "replace"]
    /\ UNCHANGED <<bak, used, mem, failed, up, trouble, history>>

\* Where the other has moved it there is nothing left to move: an error.
Moved(w) == [v \in Writers |->
    IF v = w THEN Idle
    ELSE IF writer[v].step = "write" THEN [writer[v] EXCEPT !.file = "main"] ELSE writer[v]]

Replace(w) ==
    /\ writer[w].step = "replace"
    /\ IF tmp = None THEN UNCHANGED <<main, tmp, settled>> /\ writer' = [writer EXCEPT ![w] = Idle]
       ELSE /\ main' = tmp /\ tmp' = None
            /\ settled' = IF bak.kind = "whole" THEN bak.rooms \intersect tmp.rooms \intersect mem
                          ELSE settled
            /\ writer' = Moved(w)
    /\ UNCHANGED <<bak, used, mem, failed, up, trouble, doubt>>

Next ==
    \/ \E view \in {"plain", "errors", "missing", "blank"} : Start(view)
    \/ Crash \/ Damage \/ AddMessage
    \/ \E r \in RoomIds : CreateRoom(r)
    \/ \E w \in Writers : Backup(w) \/ Write(w) \/ Replace(w) \/ \E r \in Known : DeleteRoom(w, r)

Spec == Init /\ [][Next]_roomsVars

-----------------------------------------------------------------------------
(* Correctness.                                                             *)

ReadsFirst == ~up /\ up' /\ ~failed' /\ ~doubt' => settled \subseteq mem'

\* A store that may write has read the rooms that were there: an archive that
\* cannot be read, or is not there although the workspace is in use, is never
\* taken for a first start and written over (rooms.py, Store.__init__).  This is
\* said as long as no start has found a disk that was in use without any trace of
\* its use, and no two threads wrote the archive at once; RoomsComeBack is the
\* promise without that condition, which the code does not keep.
ReadBeforeWritten == [][ReadsFirst]_roomsVars

\* rooms.py:222-225: a container that starts again has the rooms it had.
RoomsComeBack == [][~up /\ up' /\ ~failed' => settled \subseteq mem']_roomsVars

\* rooms.py:301: the backup keeps the archive before the last.
AGoodCopyStays == settled # {} => main.kind = "whole" \/ bak.kind = "whole"

\* rooms.py:259: where nothing was ever written a start is the first.
FirstIsFirst == [][~up /\ up' /\ failed' /\ settled = {} => main # None \/ bak # None]_roomsVars
=============================================================================
