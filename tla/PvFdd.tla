------------------------------- MODULE PvFdd --------------------------------
(***************************************************************************)
(* The floppy drives (pv_fdd.cpp).  The guest's driver calls Open, Prime   *)
(* and Control on the emulator task; the settings page of the web server   *)
(* and the storage menu ask for images through a queue, which the emulator *)
(* takes one request from per frame; and the web filer deletes, renames    *)
(* and uploads files after looking at the names of the mounted images.     *)
(*                                                                         *)
(* A name is an image file and a spelling: FAT does not distinguish upper  *)
(* and lower case, the filer's strcmp does.  The guest is external: after  *)
(* a reset its ROM opens the driver, boots from a drive or not, and polls  *)
(* for insertions from then on.                                            *)
(***************************************************************************)
EXTENDS Naturals, Sequences, FiniteSets

CONSTANTS
    Drives,      \* PV_FDD_DRIVE_COUNT drives, as 0 .. count - 1
    Images,      \* image files of a floppy's size
    Spellings,   \* the spellings of a file's name that FAT takes as the same
    WebOps       \* the operations of the web filer: "delete", "rename", "upload"

ASSUME DrivesAssumption ==
    /\ Drives # {} /\ IsFiniteSet(Drives)
    /\ Drives = 0 .. Cardinality(Drives) - 1
ASSUME WebOpsAssumption == WebOps \subseteq {"delete", "rename", "upload"}

None == <<>>
Names == Images \X Spellings
FileOf(name) == name[1]

VARIABLES
    file,        \* backend.file: the name each drive's image was opened by
    name,        \* mountedName, what the other tasks see, under a spinlock
    media,       \* mediaState
    statusSet,   \* the drives have a statusAddress
    inPlace,     \* the guest's kStatusDiskInPlace byte of each drive
    queue,       \* gImageRequests
    changing,    \* the drive just opened or ejected, its name not yet set, or None
    present,     \* the image files on the card
    lost,        \* an open file has lost its directory entry
    web,         \* the web server task: None or the operation it has checked
    driverOpen,  \* external: the guest has opened the driver since its reset
    volume       \* external: the image the guest has a volume of, per drive

fddVars   == <<file, name, media, statusSet, inPlace, changing>>
guestVars == <<driverOpen, volume>>
vars      == <<fddVars, queue, present, lost, web, guestVars>>

MediaStates == {"Empty", "PendingInsert", "Inserted", "Accessed", "Error"}
QueueDepth == 2
ASSUME QueueDepthAssumption == Drives \subseteq 0 .. QueueDepth - 1

\* updateMediaStatus, for a drive in this state.
DiskInPlace(f, m) ==
    IF f = None THEN 0 ELSE IF m \in {"Accessed", "Error"} THEN 2 ELSE 1

\* pvFddInit, with any configured image in each drive.
Init ==
    /\ file \in [Drives -> Names \cup {None}]
    /\ name = file
    /\ media = [d \in Drives |-> IF file[d] = None THEN "Empty" ELSE "Inserted"]
    /\ statusSet = FALSE /\ inPlace = [d \in Drives |-> 0]
    /\ queue = <<>> /\ changing = None
    /\ present = Images /\ lost = FALSE /\ web = None
    /\ driverOpen = FALSE /\ volume = [d \in Drives |-> None]
----------------------------------------------------------------------------
(* Requests, from the web server and the menu.                             *)

\* Mistake: the queue takes one request too many.
pvFddRequestImageLate(d, n) ==
    queue' = IF Len(queue) <= QueueDepth THEN Append(queue, <<d, n>>) ELSE queue

\* pvFddRequestImage never waits: a full queue loses the request.
pvFddRequestImage(d, n) ==
    queue' = IF Len(queue) < QueueDepth THEN Append(queue, <<d, n>>) ELSE queue

\* requestRuntimeFdMounts: only for a drive whose name is empty now.
SettingsCheck(d, n) ==
    /\ web = None /\ name[d] = None
    /\ web' = <<"mount", d, n>>
    /\ UNCHANGED <<fddVars, queue, present, lost, guestVars>>

SettingsRequest ==
    /\ web # None /\ web[1] = "mount"
    /\ pvFddRequestImage(web[2], web[3])
    /\ web' = None
    /\ UNCHANGED <<fddVars, present, lost, guestVars>>

\* The menu compares its choice with the names of the time it was opened,
\* which may be any by now; an empty choice is queued like any other.
MenuRequest(d, n) ==
    /\ pvFddRequestImage(d, n)
    /\ UNCHANGED <<fddVars, present, lost, web, guestVars>>
----------------------------------------------------------------------------
(* The emulator task, between two frames.                                  *)

\* openImage up to the new mediaState; updateMediaStatus writes the guest's
\* status only once it has told the driver where it is.
OpenImage(d, n) ==
    LET m == IF statusSet THEN "PendingInsert" ELSE "Inserted"
    IN  /\ file' = [file EXCEPT ![d] = n]
        /\ media' = [media EXCEPT ![d] = m]
        /\ changing' = <<d>>
        /\ UNCHANGED <<name, statusSet, inPlace>>

\* Mistake: a request is taken without asking the drive's state.
CanOpenAnyway(d, n) == n # None /\ FileOf(n) \in present

CanOpen(d, n) == /\ file[d] = None
                 /\ n # None
                 /\ FileOf(n) \in present

pvFddProcessRequests ==
    /\ changing = None /\ queue # <<>>
    /\ queue' = Tail(queue)
    /\ LET d == Head(queue)[1]
           n == Head(queue)[2]
       IN  IF CanOpen(d, n) THEN OpenImage(d, n) ELSE UNCHANGED fddVars
    /\ UNCHANGED <<present, lost, web, guestVars>>

\* Mistake: a live mount does not refresh the guest's status.
PublishNameOnly ==
    /\ changing # None
    /\ name' = [name EXCEPT ![changing[1]] = file[changing[1]]]
    /\ changing' = None
    /\ UNCHANGED <<file, media, statusSet, inPlace, queue, present, lost, web, guestVars>>

\* setMountedName and updateMediaStatus, at the end of openImage and of an eject.
PublishName ==
    /\ changing # None
    /\ LET d == changing[1]
       IN  /\ name' = [name EXCEPT ![d] = file[d]]
           /\ inPlace' = IF statusSet
                         THEN [inPlace EXCEPT ![d] = DiskInPlace(file[d], media[d])]
                         ELSE inPlace
    /\ changing' = None
    /\ UNCHANGED <<file, media, statusSet, queue, present, lost, web, guestVars>>
----------------------------------------------------------------------------
(* The guest's calls of the driver, within a frame.                        *)

InFrame == changing = None

\* Mistake: open keeps the media state of before the reset.
HandleOpenKeepsMedia ==
    /\ InFrame /\ ~driverOpen
    /\ driverOpen' = TRUE /\ statusSet' = TRUE
    /\ inPlace' = [d \in Drives |-> DiskInPlace(file[d], media[d])]
    /\ UNCHANGED <<file, name, media, changing, queue, present, lost, web, volume>>

HandleOpen ==
    /\ InFrame /\ ~driverOpen
    /\ driverOpen' = TRUE /\ statusSet' = TRUE
    /\ inPlace' = [d \in Drives |-> IF file[d] = None THEN 0 ELSE 1]
    /\ media' = [d \in Drives |-> IF file[d] = None THEN "Empty" ELSE "PendingInsert"]
    /\ UNCHANGED <<file, name, changing, queue, present, lost, web, volume>>

\* handlePrime, of a volume or, at boot, of any drive with a disk in place;
\* a failed read or write is media Error.  (The calls it refuses for their
\* parameters change nothing.)
HandlePrime(d) ==
    /\ InFrame /\ driverOpen /\ inPlace[d] # 0 /\ file[d] # None
    /\ \E m \in {"Accessed", "Error"} :
          /\ media' = [media EXCEPT ![d] = m]
          /\ inPlace' = [inPlace EXCEPT ![d] = DiskInPlace(file[d], m)]
          /\ volume' = IF m = "Accessed" THEN [volume EXCEPT ![d] = file[d]] ELSE volume
    /\ UNCHANGED <<file, name, statusSet, changing, queue, present, lost, web,
                   driverOpen>>

\* handleControl 65, the driver's periodic call: the first drive with a
\* pending insertion is reported, and the guest makes a volume of it.
Pending == {d \in Drives : media[d] = "PendingInsert"}

AccRun ==
    /\ InFrame /\ driverOpen /\ Pending # {}
    /\ LET d == CHOOSE e \in Pending : \A o \in Pending : e <= o
       IN  /\ media' = [media EXCEPT ![d] = "Inserted"]
           /\ inPlace' = [inPlace EXCEPT ![d] = DiskInPlace(file[d], "Inserted")]
           /\ volume' = [volume EXCEPT ![d] = file[d]]
    /\ UNCHANGED <<file, name, statusSet, changing, queue, present, lost, web,
                   driverOpen>>

\* Mistake: an eject forgets to clear the published name.
HandleEjectKeepsName(d) ==
    /\ InFrame /\ driverOpen
    /\ file' = [file EXCEPT ![d] = None]
    /\ media' = [media EXCEPT ![d] = "Empty"]
    /\ inPlace' = [inPlace EXCEPT ![d] = 0]
    /\ volume' = [volume EXCEPT ![d] = None]
    /\ UNCHANGED <<name, statusSet, changing, queue, present, lost, web, driverOpen>>

\* handleControl 7, eject, up to the new mediaState; PublishName clears the name
\* and the guest's status.  The guest gives up its volume.
HandleEject(d) ==
    /\ InFrame /\ driverOpen
    /\ file' = [file EXCEPT ![d] = None]
    /\ media' = [media EXCEPT ![d] = "Empty"]
    /\ changing' = <<d>>
    /\ volume' = [volume EXCEPT ![d] = None]
    /\ UNCHANGED <<name, statusSet, inPlace, queue, present, lost, web, driverOpen>>

\* The RESET instruction: resetMacHardware leaves the floppy drives as they
\* are, their statusAddress included; the guest starts over.
MacReset ==
    /\ InFrame /\ driverOpen
    /\ driverOpen' = FALSE /\ volume' = [d \in Drives |-> None]
    /\ UNCHANGED <<fddVars, queue, present, lost, web>>
----------------------------------------------------------------------------
(* The web filer: mountedStoragePathMatches, then the operation.           *)

mountedStoragePathMatches(n) == \E d \in Drives : name[d] = n

FilerCheck(op, n) ==
    /\ op \in WebOps /\ web = None /\ FileOf(n) \in present
    /\ op # "upload" => ~mountedStoragePathMatches(n)
    /\ web' = <<op, FileOf(n)>>
    /\ UNCHANGED <<fddVars, queue, present, lost, guestVars>>

\* remove() or rename() of a file that a drive may have open by now.
FilerRemove ==
    /\ web # None /\ web[1] \in {"delete", "rename", "upload"}
    /\ lost' = (lost \/ \E d \in Drives : file[d] # None /\ FileOf(file[d]) = web[2])
    /\ present' = IF web[1] = "upload" THEN present ELSE present \ {web[2]}
    /\ web' = None
    /\ UNCHANGED <<fddVars, queue, guestVars>>

\* A new file of a removed name.
Upload(i) ==
    /\ "upload" \in WebOps /\ web = None /\ i \notin present
    /\ present' = present \cup {i}
    /\ UNCHANGED <<fddVars, queue, lost, web, guestVars>>
----------------------------------------------------------------------------
GuestStep == HandleOpen \/ AccRun \/ MacReset
             \/ \E d \in Drives : HandlePrime(d) \/ HandleEject(d)

Next ==
    \/ \E d \in Drives, n \in Names : SettingsCheck(d, n)
    \/ \E d \in Drives, n \in Names \cup {None} : MenuRequest(d, n)
    \/ SettingsRequest
    \/ pvFddProcessRequests \/ PublishName \/ GuestStep
    \/ \E op \in WebOps, n \in Names : FilerCheck(op, n)
    \/ FilerRemove \/ \E i \in Images : Upload(i)

Spec == Init /\ [][Next]_vars

\* The emulator task runs; the guest opens the driver and polls it.
FairSpec == /\ Spec
            /\ WF_vars(pvFddProcessRequests) /\ WF_vars(PublishName)
            /\ WF_vars(HandleOpen) /\ SF_vars(AccRun)
----------------------------------------------------------------------------
(* Type correctness.                                                       *)
FddTypeOK ==
    /\ file \in [Drives -> Names \cup {None}]
    /\ name \in [Drives -> Names \cup {None}]
    /\ media \in [Drives -> MediaStates] /\ inPlace \in [Drives -> 0..2]
    /\ statusSet \in BOOLEAN /\ driverOpen \in BOOLEAN
    /\ queue \in Seq(Drives \X (Names \cup {None})) /\ Len(queue) <= QueueDepth
    /\ changing \in {None} \cup {<<d>> : d \in Drives}
    /\ present \subseteq Images /\ lost \in BOOLEAN
    /\ volume \in [Drives -> Names \cup {None}]

(* An image never changes under a volume of the guest: whatever requests   *)
(* the two user interfaces queue, and however stale they are when they are *)
(* taken, a volume the guest holds is of the image in the drive.           *)
VolumeMatches ==
    \A d \in Drives : volume[d] # None => volume[d] = file[d]

(* What the others see of a drive is its image, across live mounts, ejects, *)
(* errors and resets.  A drive has media exactly when its image is open.   *)
(* Except between the steps of an openImage or an eject of the drive, the  *)
(* name shown to the other tasks is its image's, and the guest's drive     *)
(* status, once the driver is open, says whether there is a disk in place. *)
(* Between them the name is behind: empty for an image just opened, or of  *)
(* the image just closed; it is never of another image than the open one.  *)
DriveShowsImage ==
    /\ FddTypeOK
    /\ \A d \in Drives :
          /\ media[d] # "Empty" <=> file[d] # None
          /\ changing # <<d>> => name[d] = file[d]
          /\ name[d] # None /\ file[d] # None => name[d] = file[d]
          /\ driverOpen /\ changing # <<d>> => inPlace[d] = DiskInPlace(file[d], media[d])

(* Every image in a drive of an opened driver comes to the guest, those    *)
(* mounted before or during a guest reset included, unless the guest meets *)
(* an error reading it first.  The poll always reports the lowest drive,   *)
(* so this holds when the user does not swap disks for ever: swapping in   *)
(* drive 0 keeps drive 1 waiting.                                          *)
SwapsEnd == \A d \in Drives : <>[][~HandleEject(d)]_vars

InsertReported ==
    SwapsEnd => \A d \in Drives :
        (driverOpen /\ file[d] # None)
            ~> (volume[d] = file[d] \/ media[d] = "Error" \/ ~driverOpen)

(* PUBLISH_DETAILS.md:243: delete and rename of a mounted image are        *)
(* blocked, so no drive's open file loses its directory entry.             *)
MountedKept == ~lost
=============================================================================
