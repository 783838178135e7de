---------------------------- MODULE PvFddProofs -----------------------------
(***************************************************************************)
(* No image is exchanged under a volume of the guest, for any number of    *)
(* drives, images and spellings, whatever the web server and the menu      *)
(* queue.  The property is inductive once it is known which functions      *)
(* range over the drives: a request is taken only for a drive without an   *)
(* open image, and such a drive has no volume.  And what the others see of *)
(* a drive is the image open in it.                                        *)
(***************************************************************************)
EXTENDS PvFdd, FiniteSetTheorems, WellFoundedInduction, TLAPS

\* The functions over the drives the property speaks of.
ShapeOK ==
    /\ DOMAIN file = Drives /\ DOMAIN volume = Drives
    /\ file = [d \in Drives |-> file[d]]
    /\ volume = [d \in Drives |-> volume[d]]

VInv == ShapeOK /\ VolumeMatches

(* At power-on the guest has no volume.                                    *)
LEMMA InitVInv == Init => VInv
  <1> SUFFICES ASSUME Init PROVE VInv
    OBVIOUS
  <1>1. /\ file \in [Drives -> Names \cup {None}]
        /\ volume = [d \in Drives |-> None]
    BY DEF Init
  <1>2. ShapeOK
    BY <1>1 DEF ShapeOK
  <1>3. VolumeMatches
    BY <1>1 DEF VolumeMatches
  <1> QED BY <1>2, <1>3 DEF VInv

(* Steps of the other tasks leave the drives and the guest alone.          *)
LEMMA SameVInv ==
  ASSUME VInv, UNCHANGED <<file, volume>>
  PROVE  VInv'
  BY DEF VInv, ShapeOK, VolumeMatches

(* A live mount fills a drive that was empty, and so had no volume.        *)
LEMMA ProcessVInv ==
  ASSUME VInv, pvFddProcessRequests
  PROVE  VInv'
  <1> DEFINE d == Head(queue)[1]
             n == Head(queue)[2]
  <1>1. volume' = volume
    BY DEF pvFddProcessRequests, guestVars
  <1>2. CASE CanOpen(d, n) /\ OpenImage(d, n)
    <2>1. file' = [file EXCEPT ![d] = n] /\ file[d] = None
      BY <1>2 DEF CanOpen, OpenImage
    <2>2. ShapeOK'
      BY <1>1, <2>1 DEF VInv, ShapeOK
    <2>3. ASSUME NEW e \in Drives, volume[e] # None
          PROVE  volume[e] = file'[e]
      <3>1. volume[e] = file[e]
        BY <2>3 DEF VInv, VolumeMatches
      <3>2. e # d
        BY <2>1, <2>3, <3>1
      <3> QED BY <2>1, <3>1, <3>2 DEF VInv, ShapeOK
    <2> QED BY <1>1, <2>2, <2>3 DEF VInv, VolumeMatches
  <1>3. CASE UNCHANGED fddVars
    BY <1>1, <1>3, SameVInv DEF fddVars
  <1> QED BY <1>2, <1>3 DEF pvFddProcessRequests

(* What the guest makes a volume of is what the drive has open.            *)
LEMMA SeenVInv ==
  ASSUME VInv, UNCHANGED file, NEW d, volume' = [volume EXCEPT ![d] = file[d]]
  PROVE  VInv'
  BY DEF VInv, ShapeOK, VolumeMatches

(* An eject empties the drive and ends the volume together.                *)
LEMMA EjectVInv ==
  ASSUME VInv, NEW d \in Drives, HandleEject(d)
  PROVE  VInv'
  <1>1. /\ file' = [file EXCEPT ![d] = None]
        /\ volume' = [volume EXCEPT ![d] = None]
    BY DEF HandleEject
  <1> QED BY <1>1 DEF VInv, ShapeOK, VolumeMatches

(* Every call of the guest keeps the property.                             *)
LEMMA GuestVInv ==
  ASSUME VInv, GuestStep
  PROVE  VInv'
  <1>1. CASE HandleOpen
    BY <1>1, SameVInv DEF HandleOpen
  <1>2. CASE AccRun
    <2>1. PICK d : volume' = [volume EXCEPT ![d] = file[d]]
      BY <1>2 DEF AccRun
    <2> QED BY <1>2, <2>1, SeenVInv DEF AccRun
  <1>3. CASE MacReset
    <2>1. volume' = [d \in Drives |-> None] /\ file' = file
      BY <1>3 DEF MacReset, fddVars
    <2> QED BY <2>1 DEF VInv, ShapeOK, VolumeMatches
  <1>4. ASSUME NEW d \in Drives, HandlePrime(d)
        PROVE  VInv'
    <2>1. file' = file
      BY <1>4 DEF HandlePrime
    <2>2. volume' = [volume EXCEPT ![d] = file[d]] \/ volume' = volume
      BY <1>4 DEF HandlePrime
    <2> QED BY <2>1, <2>2, SeenVInv, SameVInv
  <1>5. ASSUME NEW d \in Drives, HandleEject(d)
        PROVE  VInv'
    BY <1>5, EjectVInv
  <1> QED BY <1>1, <1>2, <1>3, <1>4, <1>5 DEF GuestStep

(* Every step of the system keeps it.                                      *)
LEMMA NextVInv == VInv /\ [Next]_vars => VInv'
  <1> SUFFICES ASSUME VInv, [Next]_vars PROVE VInv'
    OBVIOUS
  <1>1. CASE \E d \in Drives, n \in Names : SettingsCheck(d, n)
    BY <1>1, SameVInv DEF SettingsCheck, fddVars, guestVars
  <1>2. CASE \E d \in Drives, n \in Names \cup {None} : MenuRequest(d, n)
    BY <1>2, SameVInv DEF MenuRequest, fddVars, guestVars
  <1>3. CASE SettingsRequest
    BY <1>3, SameVInv DEF SettingsRequest, fddVars, guestVars
  <1>4. CASE pvFddProcessRequests
    BY <1>4, ProcessVInv
  <1>5. CASE PublishName
    BY <1>5, SameVInv DEF PublishName, guestVars
  <1>6. CASE GuestStep
    BY <1>6, GuestVInv
  <1>7. CASE \E op \in WebOps, n \in Names : FilerCheck(op, n)
    BY <1>7, SameVInv DEF FilerCheck, fddVars, guestVars
  <1>8. CASE FilerRemove
    BY <1>8, SameVInv DEF FilerRemove, fddVars, guestVars
  <1>9. CASE \E i \in Images : Upload(i)
    BY <1>9, SameVInv DEF Upload, fddVars, guestVars
  <1>10. CASE UNCHANGED vars
    BY <1>10, SameVInv DEF vars, fddVars, guestVars
  <1> QED BY <1>1, <1>2, <1>3, <1>4, <1>5, <1>6, <1>7, <1>8, <1>9, <1>10 DEF Next

(* A volume the guest holds is of the image in the drive, in every state:  *)
(* requests that are stale by the time pvFddProcessRequests takes them     *)
(* never change the image under it.                                        *)
THEOREM VolumeKeepsImage == Spec => []VolumeMatches
  <1>1. Init => VInv
    BY InitVInv
  <1>2. VInv /\ [Next]_vars => VInv'
    BY NextVInv
  <1>3. VInv => VolumeMatches
    BY DEF VInv
  <1> QED BY <1>1, <1>2, <1>3, PTL DEF Spec
-----------------------------------------------------------------------------
(***************************************************************************)
(* What the other tasks and the guest see of a drive.  Between the first   *)
(* and the last store of an openImage or an eject its drive is the one     *)
(* exception, and no call of the guest comes in between.                   *)
(***************************************************************************)
DriveOK(d) ==
    /\ media[d] # "Empty" <=> file[d] # None
    /\ changing # <<d>> => name[d] = file[d]
    /\ name[d] # None /\ file[d] # None => name[d] = file[d]
    /\ driverOpen /\ changing # <<d>> => inPlace[d] = DiskInPlace(file[d], media[d])

\* The requests under way are for drives; a driver that is open has told where
\* its drives' status is.
RequestsOK ==
    /\ web # None /\ web[1] = "mount" => web[2] \in Drives /\ web[3] \in Names
    /\ driverOpen => statusSet

DInv == FddTypeOK /\ RequestsOK /\ \A d \in Drives : DriveOK(d)

LEMMA DInvImplies == DInv => DriveShowsImage
  BY DEF DInv, DriveShowsImage, DriveOK

(* A set of drives has a lowest one, which the poll reports.               *)
LEMMA LowestDrive ==
  ASSUME NEW T, T \subseteq Drives, T # {}
  PROVE  \E d \in T : \A o \in T : d <= o
  <1>1. T \subseteq Nat
    BY DrivesAssumption, FS_CardinalityType
  <1> DEFINE R == OpToRel(<, Nat)
  <1>2. IsWellFoundedOn(R, Nat)
    BY NatLessThanWellFounded
  <1>3. \A x, y \in T : <<y, x>> \in R <=> y < x
    BY <1>1 DEF OpToRel
  <1> HIDE DEF R
  <1>4. PICK d \in T : \A o \in T : ~ (<<o, d>> \in R)
    BY <1>1, <1>2, WFMin
  <1>5. \A o \in T : ~(o < d)
    BY <1>3, <1>4
  <1>6. \A o \in T : d <= o
    BY <1>1, <1>5
  <1> QED BY <1>6

LEMMA InitDInv == Init => DInv
  <1> SUFFICES ASSUME Init PROVE DInv
    OBVIOUS
  <1>1. <<>> \in Seq(Drives \X (Names \cup {None})) /\ Len(<<>>) = 0
    OBVIOUS
  <1>4. /\ file \in [Drives -> Names \cup {None}] /\ name \in [Drives -> Names \cup {None}]
        /\ volume \in [Drives -> Names \cup {None}]
    BY DEF Init
  <1>5. media \in [Drives -> MediaStates] /\ inPlace \in [Drives -> 0 .. 2]
    BY DEF Init, MediaStates
  <1>6. queue \in Seq(Drives \X (Names \cup {None})) /\ Len(queue) <= QueueDepth
    BY <1>1 DEF Init, QueueDepth
  <1>2. FddTypeOK
    BY <1>4, <1>5, <1>6 DEF Init, FddTypeOK
  <1>3. RequestsOK /\ \A d \in Drives : DriveOK(d)
    BY DEF Init, RequestsOK, DriveOK
  <1> QED BY <1>2, <1>3 DEF DInv

(* A request finds room in the queue or is lost.                           *)
LEMMA RequestDInv ==
  ASSUME DInv, NEW d \in Drives, NEW n \in Names \cup {None}, pvFddRequestImage(d, n),
         UNCHANGED <<fddVars, present, lost, guestVars>>,
         web' = web \/ web' = None
  PROVE  DInv'
  <1>1. queue' \in Seq(Drives \X (Names \cup {None})) /\ Len(queue') <= QueueDepth
    BY DEF DInv, FddTypeOK, pvFddRequestImage, QueueDepth
  <1>2. FddTypeOK'
    BY <1>1 DEF DInv, FddTypeOK, fddVars, guestVars
  <1> QED BY <1>2 DEF DInv, RequestsOK, DriveOK, fddVars, guestVars

(* openImage up to the name: the drive was empty and gets its media.       *)
LEMMA ProcessDInv ==
  ASSUME DInv, pvFddProcessRequests
  PROVE  DInv'
  <1> DEFINE d == Head(queue)[1]
             n == Head(queue)[2]
  <1>1. /\ d \in Drives /\ n \in Names \cup {None}
        /\ queue' \in Seq(Drives \X (Names \cup {None})) /\ Len(queue') <= QueueDepth
    <2>1. queue # <<>> /\ queue' = Tail(queue)
      BY DEF pvFddProcessRequests
    <2>2. queue \in Seq(Drives \X (Names \cup {None})) /\ Len(queue) <= QueueDepth
      BY DEF DInv, FddTypeOK
    <2>3. Head(queue) \in Drives \X (Names \cup {None})
      BY <2>1, <2>2
    <2>4. Tail(queue) \in Seq(Drives \X (Names \cup {None})) /\ Len(Tail(queue)) <= QueueDepth
      BY <2>1, <2>2 DEF QueueDepth
    <2> QED BY <2>1, <2>3, <2>4
  <1>2. UNCHANGED <<present, lost, web, driverOpen, volume>> /\ changing = None
    BY DEF pvFddProcessRequests, guestVars
  <1>3. CASE CanOpen(d, n) /\ OpenImage(d, n)
    <2> HIDE DEF d, n
    <2>1. PICK m \in {"PendingInsert", "Inserted"} :
             /\ file' = [file EXCEPT ![d] = n] /\ media' = [media EXCEPT ![d] = m]
             /\ changing' = <<d>> /\ UNCHANGED <<name, statusSet, inPlace>>
             /\ file[d] = None /\ n # None
      BY <1>3 DEF OpenImage, CanOpen
    <2>2. FddTypeOK'
      BY <1>1, <1>2, <2>1 DEF DInv, FddTypeOK, MediaStates
    <2>3. ASSUME NEW e \in Drives PROVE DriveOK(e)'
      <3>1. DriveOK(e) /\ changing # <<e>>
        BY <1>2 DEF DInv, None
      <3>2. CASE e = d
        <4>1. name[e] = None
          BY <2>1, <3>1, <3>2 DEF DriveOK
        <4>2. file'[e] = n /\ media'[e] = m
          BY <1>1, <2>1, <3>2 DEF DInv, FddTypeOK
        <4> QED BY <2>1, <3>2, <4>1, <4>2 DEF DriveOK
      <3>3. CASE e # d
        <4>1. file'[e] = file[e] /\ media'[e] = media[e]
          BY <2>1, <3>3 DEF DInv, FddTypeOK
        <4> QED BY <1>2, <2>1, <3>1, <4>1 DEF DriveOK
      <3> QED BY <3>2, <3>3
    <2> QED BY <1>2, <2>1, <2>2, <2>3 DEF DInv, RequestsOK
  <1>4. CASE UNCHANGED fddVars
    <2> HIDE DEF d, n
    <2> QED BY <1>1, <1>2, <1>4 DEF DInv, FddTypeOK, RequestsOK, DriveOK, fddVars
  <1> QED BY <1>3, <1>4 DEF pvFddProcessRequests

(* The end of openImage and of an eject: the name, and the guest's status. *)
LEMMA PublishDInv ==
  ASSUME DInv, PublishName
  PROVE  DInv'
  <1>1. PICK d \in Drives : changing = <<d>>
    BY DEF PublishName, DInv, FddTypeOK
  <1>2. /\ name' = [name EXCEPT ![d] = file[d]]
        /\ inPlace' = IF statusSet THEN [inPlace EXCEPT ![d] = DiskInPlace(file[d], media[d])]
                                   ELSE inPlace
        /\ changing' = None
        /\ UNCHANGED <<file, media, statusSet, queue, present, lost, web, driverOpen, volume>>
    BY <1>1 DEF PublishName, guestVars
  <1>3. FddTypeOK'
    BY <1>1, <1>2 DEF DInv, FddTypeOK, DiskInPlace
  <1>4. ASSUME NEW e \in Drives PROVE DriveOK(e)'
    <2>1. DriveOK(e)
      BY DEF DInv
    <2>2. CASE e = d
      BY <1>1, <1>2, <2>1, <2>2 DEF DriveOK, DInv, FddTypeOK, RequestsOK
    <2>3. CASE e # d
      <3>1. changing # <<e>>
        BY <1>1, <2>3
      <3>2. name'[e] = name[e] /\ inPlace'[e] = inPlace[e]
        BY <1>2, <2>3 DEF DInv, FddTypeOK
      <3> QED BY <1>2, <2>1, <3>1, <3>2 DEF DriveOK
    <2> QED BY <2>2, <2>3
  <1> QED BY <1>2, <1>3, <1>4 DEF DInv, RequestsOK

(* A call that gives a drive a media state and the status that goes with   *)
(* it, and leaves its image open.                                          *)
LEMMA MediaDInv ==
  ASSUME DInv, changing = None, NEW d \in Drives, file[d] # None,
         NEW m \in MediaStates \ {"Empty"},
         media' = [media EXCEPT ![d] = m],
         inPlace' = [inPlace EXCEPT ![d] = DiskInPlace(file[d], m)],
         volume' = volume \/ volume' = [volume EXCEPT ![d] = file[d]],
         UNCHANGED <<file, name, statusSet, changing, queue, present, lost, web, driverOpen>>
  PROVE  DInv'
  <1>1. FddTypeOK'
    BY DEF DInv, FddTypeOK, DiskInPlace
  <1>2. ASSUME NEW e \in Drives PROVE DriveOK(e)'
    <2>1. DriveOK(e) /\ changing # <<e>>
      BY DEF DInv, None
    <2>2. CASE e = d
      BY <2>1, <2>2 DEF DriveOK, DInv, FddTypeOK
    <2>3. CASE e # d
      BY <2>1, <2>3 DEF DriveOK, DInv, FddTypeOK
    <2> QED BY <2>2, <2>3
  <1> QED BY <1>1, <1>2 DEF DInv, RequestsOK

(* Every call of the guest keeps it.                                       *)
LEMMA GuestDInv ==
  ASSUME DInv, GuestStep
  PROVE  DInv'
  <1> USE DEF InFrame
  <1>1. CASE HandleOpen
    <2>1. /\ driverOpen' = TRUE /\ statusSet' = TRUE
          /\ inPlace' = [d \in Drives |-> IF file[d] = None THEN 0 ELSE 1]
          /\ media' = [d \in Drives |-> IF file[d] = None THEN "Empty" ELSE "PendingInsert"]
          /\ UNCHANGED <<file, name, changing, queue, present, lost, web, volume>>
      BY <1>1 DEF HandleOpen
    <2>2. FddTypeOK'
      BY <2>1 DEF DInv, FddTypeOK, MediaStates
    <2>3. \A d \in Drives : DriveOK(d)'
      BY <2>1 DEF DInv, FddTypeOK, DriveOK, DiskInPlace
    <2> QED BY <2>1, <2>2, <2>3 DEF DInv, RequestsOK
  <1>2. CASE AccRun
    <2>1. PICK d \in Pending : \A o \in Pending : d <= o
      BY <1>2, LowestDrive DEF AccRun, Pending
    <2> DEFINE c == CHOOSE e \in Pending : \A o \in Pending : e <= o
    <2>2. c \in Pending
      BY <2>1
    <2>3. /\ media' = [media EXCEPT ![c] = "Inserted"]
          /\ inPlace' = [inPlace EXCEPT ![c] = DiskInPlace(file[c], "Inserted")]
          /\ volume' = [volume EXCEPT ![c] = file[c]]
          /\ UNCHANGED <<file, name, statusSet, changing, queue, present, lost, web, driverOpen>>
          /\ changing = None
      BY <1>2 DEF AccRun
    <2> HIDE DEF c
    <2>4. c \in Drives /\ file[c] # None
      BY <2>2 DEF Pending, DInv, DriveOK
    <2> QED BY <2>3, <2>4, MediaDInv DEF MediaStates
  <1>3. CASE MacReset
    BY <1>3 DEF MacReset, DInv, FddTypeOK, RequestsOK, DriveOK, fddVars
  <1>4. ASSUME NEW d \in Drives, HandlePrime(d)
        PROVE  DInv'
    <2>1. PICK m \in {"Accessed", "Error"} :
             /\ media' = [media EXCEPT ![d] = m]
             /\ inPlace' = [inPlace EXCEPT ![d] = DiskInPlace(file[d], m)]
             /\ volume' = IF m = "Accessed" THEN [volume EXCEPT ![d] = file[d]] ELSE volume
      BY <1>4 DEF HandlePrime
    <2> QED BY <1>4, <2>1, MediaDInv DEF HandlePrime, MediaStates
  <1>5. ASSUME NEW d \in Drives, HandleEject(d)
        PROVE  DInv'
    <2>1. /\ file' = [file EXCEPT ![d] = None]
          /\ media' = [media EXCEPT ![d] = "Empty"] /\ changing' = <<d>>
          /\ volume' = [volume EXCEPT ![d] = None]
          /\ UNCHANGED <<name, statusSet, inPlace, queue, present, lost, web, driverOpen>>
          /\ changing = None
      BY <1>5 DEF HandleEject
    <2>2. FddTypeOK'
      BY <2>1 DEF DInv, FddTypeOK, MediaStates
    <2>3. ASSUME NEW e \in Drives PROVE DriveOK(e)'
      <3>1. DriveOK(e) /\ changing # <<e>>
        BY <2>1 DEF DInv, None
      <3>2. CASE e = d
        BY <2>1, <3>2 DEF DriveOK, DInv, FddTypeOK
      <3>3. CASE e # d
        BY <2>1, <3>1, <3>3 DEF DriveOK, DInv, FddTypeOK
      <3> QED BY <3>2, <3>3
    <2> QED BY <2>1, <2>2, <2>3 DEF DInv, RequestsOK
  <1> QED BY <1>1, <1>2, <1>3, <1>4, <1>5 DEF GuestStep

(* The filer changes the card's files, not the drives.                     *)
LEMMA FilerDInv ==
  ASSUME DInv, \/ \E op \in WebOps, n \in Names : FilerCheck(op, n)
               \/ FilerRemove
               \/ \E i \in Images : Upload(i)
  PROVE  DInv'
  <1>1. UNCHANGED <<fddVars, queue, guestVars>>
    BY DEF FilerCheck, FilerRemove, Upload
  <1>2. present' \subseteq Images /\ lost' \in BOOLEAN
    BY DEF DInv, FddTypeOK, FilerCheck, FilerRemove, Upload
  <1>3. web' = web \/ web' = None \/ web'[1] # "mount"
    BY WebOpsAssumption DEF FilerCheck, FilerRemove, Upload
  <1>4. FddTypeOK'
    BY <1>1, <1>2 DEF DInv, FddTypeOK, fddVars, guestVars
  <1> QED BY <1>1, <1>3, <1>4 DEF DInv, RequestsOK, DriveOK, fddVars, guestVars

(* Every step of the system keeps it.                                      *)
LEMMA NextDInv == DInv /\ [Next]_vars => DInv'
  <1> SUFFICES ASSUME DInv, [Next]_vars PROVE DInv'
    OBVIOUS
  <1>1. ASSUME NEW d \in Drives, NEW n \in Names, SettingsCheck(d, n)
        PROVE  DInv'
    BY <1>1 DEF SettingsCheck, DInv, FddTypeOK, RequestsOK, DriveOK, fddVars, guestVars
  <1>2. ASSUME NEW d \in Drives, NEW n \in Names \cup {None}, MenuRequest(d, n)
        PROVE  DInv'
    BY <1>2, RequestDInv DEF MenuRequest
  <1>3. CASE SettingsRequest
    BY <1>3, RequestDInv DEF SettingsRequest, DInv, RequestsOK
  <1>4. CASE pvFddProcessRequests
    BY <1>4, ProcessDInv
  <1>5. CASE PublishName
    BY <1>5, PublishDInv
  <1>6. CASE GuestStep
    BY <1>6, GuestDInv
  <1>7. CASE \/ \E op \in WebOps, n \in Names : FilerCheck(op, n)
             \/ FilerRemove
             \/ \E i \in Images : Upload(i)
    BY <1>7, FilerDInv
  <1>8. CASE UNCHANGED vars
    BY <1>8 DEF vars, DInv, FddTypeOK, RequestsOK, DriveOK, fddVars, guestVars
  <1> QED BY <1>1, <1>2, <1>3, <1>4, <1>5, <1>6, <1>7, <1>8 DEF Next

(* The media state is that of the image open in the drive, and so are, but *)
(* between the stores of an openImage or an eject, the name the other      *)
(* tasks see and the guest's status byte, for any drives, images and       *)
(* spellings, across live mounts, ejects, errors and guest resets.         *)
THEOREM DrivesShowImages == Spec => []DriveShowsImage
  <1>1. Init => DInv
    BY InitDInv
  <1>2. DInv /\ [Next]_vars => DInv'
    BY NextDInv
  <1>3. DInv => DriveShowsImage
    BY DInvImplies
  <1> QED BY <1>1, <1>2, <1>3, PTL DEF Spec
=============================================================================
