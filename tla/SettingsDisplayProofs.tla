----------------------- MODULE SettingsDisplayProofs ------------------------
(***************************************************************************)
(* Proofs about the settings file, for any keys, values, requests and      *)
(* tasks: the types hold whatever the tasks do to each other, and, one     *)
(* task at a time with at most one failing call in a save, a save does     *)
(* what it reports, loses nothing at any moment, and leaves the settings   *)
(* page showing the file.                                                  *)
(*                                                                         *)
(* And about the display, for any size of the console, texts and callers:  *)
(* no surface is lost or drawn over, whoever switches, draws and prints.   *)
(***************************************************************************)
EXTENDS Settings, Display, WellFoundedInduction, TLAPS

Names  == {"setting", "tmp", "bak"}
Places == {"idle", "save", "output", "close", "unbackup", "backup", "place",
           "clean", "saved", "failed"}
Maybe  == Contents \cup {Missing}
Values == Vals \cup {Default}
Saves  == [key : Keys, val : Values \cup {Bad}, change : BOOLEAN,
           part : {"form", "menu", "set", "join"}]

SettingsTypes ==
    /\ world \in Worlds /\ world.tasks \subseteq Tasks
    /\ files \in [setting : Maybe, tmp : Maybe, bak : Maybe]
    /\ sSettings \in [Keys -> Values] /\ menu \in [Keys -> Values]
    /\ todo \in [Tasks -> Seq(Saves)]
    /\ pc \in [Tasks -> Places]
    /\ input \in [Tasks -> Maybe] /\ before \in [Tasks -> Maybe]
    /\ network \in [WifiSet -> Values] /\ strays \subseteq Keys
    /\ fails \in Nat

\* A task has a save to make exactly when it is not idle, only the tasks of the
\* world run, and a save that goes on has a value that is accepted.
Control ==
    \A t \in Tasks :
        /\ pc[t] = "idle" <=> todo[t] = <<>>
        /\ t \notin world.tasks => pc[t] = "idle"
        /\ pc[t] \notin {"idle", "save", "failed"} => Val(t) # Bad

\* What the three names hold at each place of a task's save.
Stage(t) ==
    /\ pc[t] \in {"idle", "save"} => files.setting # Missing
    /\ pc[t] \notin {"idle", "save"} => before[t] # Missing
    /\ pc[t] \in {"output", "close", "unbackup", "backup", "failed"}
            => files.setting = before[t]
    /\ pc[t] \in {"output", "close", "unbackup", "backup"} => input[t] = before[t]
    /\ pc[t] = "close" => files.tmp # Missing
    /\ pc[t] \in {"unbackup", "backup", "place"} => files.tmp = After(t)
    /\ pc[t] = "backup" => files.bak = Missing
    /\ pc[t] = "place" => files.setting = Missing /\ files.bak = before[t]
    /\ pc[t] \in {"clean", "saved"} => files.setting = After(t)

\* The settings page shows the file as it is, or was when the save began, where every
\* value is plain; the saves of a join only touch keys that have strayed.
PlainFile(c) == c # Missing => \A k \in Keys : c[k] \in Plain \cup {Absent}
Base == IF pc["http"] \in {"idle", "save"} THEN files.setting ELSE before["http"]
PlainSaves(saves) ==
    \A i \in DOMAIN saves :
        /\ saves[i].val \in Plain \cup {Bad}
        /\ saves[i].part = saves[1].part
        /\ saves[i].part = "join" => WifiSet \subseteq strays
        /\ saves[i].part = "join" => saves[i].key \in WifiSet
        /\ saves[i].part \in {"form", "join"}
PageShows ==
    /\ \A k \in Keys : sSettings[k] \in Plain
    /\ \A k \in WifiSet : network[k] \in Plain
    /\ PlainSaves(todo["http"])
    /\ PlainFile(Base)
    /\ \A k \in Keys \ strays : sSettings[k] = Loaded(Base)[k]

SettingsInv ==
    /\ SettingsTypes /\ Control
    /\ Sound => \A t \in world.tasks : Stage(t)
    /\ Sound /\ world.tasks = {"http"} /\ world.vals \subseteq Plain => PageShows
-----------------------------------------------------------------------------
(* Files and sequences of saves. *)

LEMMA ContentsAreDefaults ==
    ASSUME SettingsAssumption
    PROVE  /\ Defaults \in [Keys -> Values] /\ Defaults \in Contents /\ Empty \in Contents
           /\ [Keys -> Values] \subseteq Contents
           /\ Defaults # Missing
<1>1. /\ Defaults \in [Keys -> Values] /\ Defaults \in Contents /\ Empty \in Contents
      /\ [Keys -> Values] \subseteq Contents
    BY DEF Defaults, Empty, Contents, Values
<1> QED BY <1>1 DEF SettingsAssumption

LEMMA MaxExists ==
    ASSUME NEW n \in Nat, NEW S, S \subseteq 1 .. n, S # {}
    PROVE  \E m \in S : \A x \in S : x <= m
<1> DEFINE T == {n - x : x \in S}
<1>1. \A x \in S : x \in Nat /\ n - x \in Nat /\ n - x \in T
    OBVIOUS
<1>2. T \subseteq Nat /\ T # {}
    BY <1>1
<1>3. PICK y \in T : \A z \in T : y <= z
  <2> DEFINE R == OpToRel(<, Nat)
  <2>1. IsWellFoundedOn(R, Nat)
      BY NatLessThanWellFounded
  <2>2. \A x, z \in Nat : x < z => <<x, z>> \in R
      BY DEF OpToRel
  <2> HIDE DEF R
  <2>3. PICK y \in T : \A z \in T : ~ (<<z, y>> \in R)
      BY <1>2, <2>1, WFMin
  <2>4. \A z \in T : ~ (z < y) /\ z \in Nat /\ y \in Nat
      BY <1>2, <2>2, <2>3
  <2> QED BY <2>4
<1>4. PICK m \in S : y = n - m
    OBVIOUS
<1>5. \A x \in S : n - m <= n - x
    BY <1>1, <1>3, <1>4
<1> QED BY <1>1, <1>4, <1>5

LEMMA LastSetter ==
    ASSUME SettingsAssumption, NEW S, S \subseteq Keys, S # {}
    PROVE  \E j \in S : \A i \in S : LineOf(i) <= LineOf(j)
<1>1. \A k \in Keys : LineOf(k) \in DOMAIN LineOrder
    BY DEF SettingsAssumption, LineOf
<1>2. PICK n \in Nat : DOMAIN LineOrder = 1 .. n
    <2>1. LineOrder \in Seq(Keys)
        BY DEF SettingsAssumption
    <2> QED BY <2>1
<1> DEFINE L == {LineOf(k) : k \in S}
<1>3. L \subseteq 1 .. n /\ L # {}
    BY <1>1, <1>2
<1>4. PICK m \in L : \A x \in L : x <= m
    BY <1>2, <1>3, MaxExists
<1> QED BY <1>4

LEMMA LoadedTyped ==
    ASSUME SettingsAssumption, NEW c \in Maybe
    PROVE  Loaded(c) \in [Keys -> Values]
<1>1. ASSUME NEW k \in Keys, c # Missing, Setters(c, k) # {}
      PROVE  Rest[c[CHOOSE j \in Setters(c, k) :
                      \A i \in Setters(c, k) : LineOf(i) <= LineOf(j)]].val \in Values
  <2> DEFINE S == Setters(c, k)
             last == CHOOSE j \in S : \A i \in S : LineOf(i) <= LineOf(j)
  <2>1. S \subseteq Keys
      BY DEF Setters, Long
  <2>2. \E j \in S : \A i \in S : LineOf(i) <= LineOf(j)
    <3> HIDE DEF S
    <3> QED BY <1>1, <2>1, LastSetter DEF S
  <2>3. last \in S
      BY <2>2
  <2>4. /\ c[last] # Absent /\ Rest[c[last]] # NoRest /\ last \in Keys
      BY <2>3 DEF Setters, Long
  <2>5. c[last] \in Values
      BY <1>1, <2>4 DEF Maybe, Contents, Values
  <2> HIDE DEF last
  <2>6. Rest[c[last]].val \in Values
      BY <2>4, <2>5 DEF SettingsAssumption, Values
  <2> QED BY <2>6 DEF last
<1>2. ASSUME NEW k \in Keys, c # Missing, c[k] # Absent
      PROVE  Read[c[k]] \in Values
  <2>1. c[k] \in Values
      BY <1>2 DEF Maybe, Contents, Values
  <2> QED BY <2>1 DEF SettingsAssumption, Values
<1>3. Default \in Values
    BY DEF Values
<1> QED BY <1>1, <1>2, <1>3 DEF Loaded

\* Values that are plain are loaded as they are.
LEMMA LoadedPlain ==
    ASSUME SettingsAssumption, NEW c \in Contents, PlainFile(c)
    PROVE  Loaded(c) = [k \in Keys |-> IF c[k] = Absent THEN Default ELSE c[k]]
<1>1. c # Missing
    BY DEF SettingsAssumption
<1>2. \A k \in Keys : c[k] # Absent => Rest[c[k]] = NoRest /\ Read[c[k]] = c[k]
    BY <1>1 DEF PlainFile, Plain
<1>3. \A k \in Keys : Setters(c, k) = {}
    BY <1>2 DEF Setters, Long
<1>4. Loaded(c) = [k \in Keys |-> IF c[k] = Absent THEN Default ELSE Read[c[k]]]
    BY <1>1, <1>3 DEF Loaded
<1> QED BY <1>2, <1>4

LEMMA BootstrappedTyped ==
    ASSUME SettingsAssumption, NEW fs \in [setting : Maybe, tmp : Maybe, bak : Maybe]
    PROVE  /\ Bootstrapped(fs) \in [setting : Maybe, tmp : Maybe, bak : Maybe]
           /\ Bootstrapped(fs).setting # Missing
           /\ fs.setting # Missing => Bootstrapped(fs) = fs
BY ContentsAreDefaults DEF Bootstrapped, Maybe

LEMMA RenamedTyped ==
    ASSUME NEW fs \in [setting : Maybe, tmp : Maybe, bak : Maybe],
           NEW from \in Names, NEW to \in Names, from # to
    PROVE  LET r == Renamed(fs, from, to)
           IN  /\ r \in [setting : Maybe, tmp : Maybe, bak : Maybe]
               /\ r[to] = fs[from] /\ r[from] = Missing
               /\ \A f \in Names \ {from, to} : r[f] = fs[f]
BY DEF Renamed, Names, Maybe

LEMMA SavesMove ==
    ASSUME NEW q \in Seq(Saves), q # <<>>
    PROVE  /\ Tail(q) \in Seq(Saves)
           /\ Head(q).key \in Keys /\ Head(q).val \in Values \cup {Bad}
<1>1. Head(q) \in Saves /\ Tail(q) \in Seq(Saves)
    OBVIOUS
<1> QED BY <1>1 DEF Saves

-----------------------------------------------------------------------------
(* Types and control, whatever the tasks do at the same time. *)

LEMMA TypesInit ==
    ASSUME SettingsAssumption, SettingsInit
    PROVE  SettingsTypes /\ Control
<1> USE DEF SettingsInit
<1>1. /\ files \in [setting : Maybe, tmp : Maybe, bak : Maybe]
      /\ sSettings \in [Keys -> Values] /\ menu \in [Keys -> Values]
    BY ContentsAreDefaults DEF Maybe
<1>2. /\ todo \in [Tasks -> Seq(Saves)] /\ pc \in [Tasks -> Places]
      /\ input \in [Tasks -> Maybe] /\ before \in [Tasks -> Maybe] /\ fails \in Nat
      /\ network \in [WifiSet -> Values] /\ strays \subseteq Keys
    BY DEF Places, Maybe, NoNetwork, Values
<1>3. world \in Worlds /\ world.tasks \subseteq Tasks
    BY DEF SettingsAssumption
<1>4. Control
    BY DEF Control
<1> QED BY <1>1, <1>2, <1>3, <1>4 DEF SettingsTypes

\* A step of a task's save: its place moves, its value is accepted at the start,
\* and the other tasks keep their places and saves.
LEMMA SaveMoves ==
    ASSUME SettingsAssumption, SettingsTypes, Control, NEW t \in Tasks, Save(t)
    PROVE  /\ pc[t] \notin {"idle", "saved", "failed"} /\ t \in world.tasks
           /\ \E p \in Places \ {"idle", "save"} :
                 /\ pc' = [pc EXCEPT ![t] = p]
                 /\ p # "failed" => Val(t) # Bad
           /\ UNCHANGED <<world, sSettings, menu, todo, network, strays>>
<1>1. pc[t] \in Places /\ pc \in [Tasks -> Places]
    BY DEF SettingsTypes
<1>2. CASE Refuse(t)
    BY <1>1, <1>2 DEF Refuse, Quiet, Control, Places
<1>3. CASE OpenInput(t)
    BY <1>1, <1>3 DEF OpenInput, At, Accepts, Quiet, Control, Places
<1>4. CASE OpenOutput(t)
    BY <1>1, <1>4 DEF OpenOutput, Quiet, Control, Places
<1>5. CASE CloseOutput(t)
    BY <1>1, <1>5 DEF CloseOutput, Quiet, Control, Places
<1>6. CASE RemoveOldBackup(t)
    BY <1>1, <1>6 DEF RemoveOldBackup, At, Quiet, Control, Places
<1>7. CASE Backup(t)
    BY <1>1, <1>7 DEF Backup, Quiet, Control, Places
<1>8. CASE Place(t)
    BY <1>1, <1>8 DEF Place, Quiet, Control, Places
<1>9. CASE Clean(t)
    BY <1>1, <1>9 DEF Clean, At, Quiet, Control, Places
<1> QED BY <1>2, <1>3, <1>4, <1>5, <1>6, <1>7, <1>8, <1>9 DEF Save

LEMMA SaveTypes ==
    ASSUME SettingsAssumption, SettingsTypes, Control, NEW t \in Tasks, Save(t)
    PROVE  /\ files' \in [setting : Maybe, tmp : Maybe, bak : Maybe]
           /\ input' \in [Tasks -> Maybe] /\ before' \in [Tasks -> Maybe] /\ fails' \in Nat
<1>1. /\ files \in [setting : Maybe, tmp : Maybe, bak : Maybe]
      /\ input \in [Tasks -> Maybe] /\ before \in [Tasks -> Maybe] /\ fails \in Nat
      /\ files.setting \in Maybe /\ Missing \in Maybe
    BY DEF SettingsTypes, Maybe
<1>2. Empty \in Maybe
    BY ContentsAreDefaults DEF Maybe
<1>3. ASSUME pc[t] # "idle", Val(t) # Bad
      PROVE  Copied(t) \in Maybe
  <2>1. todo[t] \in Seq(Saves) /\ todo[t] # <<>>
      BY <1>3 DEF SettingsTypes, Control
  <2>2. Key(t) \in Keys /\ Val(t) \in Values
      BY <2>1, <1>3, SavesMove DEF Key, Val
  <2>3. PICK c \in Contents : c = IF input[t] = Missing THEN Empty ELSE input[t]
      BY <1>1, ContentsAreDefaults DEF Maybe
  <2>4. [c EXCEPT ![Key(t)] = Val(t)] \in Contents
      BY <2>2 DEF Contents, Values
  <2> QED BY <2>3, <2>4 DEF Copied, Maybe
<1>4. CASE Refuse(t)
    BY <1>1, <1>4 DEF Refuse
<1>10. CASE OpenInput(t)
  <2>1. /\ files' = files /\ fails' \in Nat
        /\ before' = [before EXCEPT ![t] = files.setting]
        /\ input' = [input EXCEPT ![t] = files.setting] \/ input' = [input EXCEPT ![t] = Missing]
      BY <1>1, <1>10 DEF OpenInput, Works, Fails
  <2> QED BY <1>1, <2>1
<1>5. CASE OpenOutput(t)
  <2>1. PICK e \in Maybe : e = Empty
      BY <1>2
  <2>2. /\ UNCHANGED <<input, before>>
        /\ files' = files \/ files' = [files EXCEPT !.tmp = e]
      BY <1>5, <2>1 DEF OpenOutput
  <2>3. fails' \in Nat
      BY <1>1, <1>5 DEF OpenOutput, Works, Fails
  <2> QED BY <1>1, <2>2, <2>3
<1>6. CASE CloseOutput(t)
  <2>1. Copied(t) \in Maybe
      BY <1>6, <1>3 DEF CloseOutput, Control
  <2>2. PICK c \in Maybe : c = Copied(t)
      BY <2>1
  <2>3. /\ UNCHANGED <<input, before>> /\ fails' \in Nat
        /\ \/ files' = files
           \/ files' = [files EXCEPT !.tmp = c]
           \/ files' = [files EXCEPT !.tmp = Missing]
      BY <1>1, <1>6, <2>2 DEF CloseOutput, Works, Fails
  <2> QED BY <1>1, <2>3
<1>7. CASE RemoveOldBackup(t) \/ Clean(t)
    BY <1>1, <1>7 DEF RemoveOldBackup, Clean
<1>8. CASE Backup(t)
  <2>1. Renamed(files, "setting", "bak") \in [setting : Maybe, tmp : Maybe, bak : Maybe]
      BY <1>1, RenamedTyped DEF Names
  <2>2. /\ UNCHANGED <<input, before>>
        /\ \/ files' = files
           \/ files' = Renamed(files, "setting", "bak")
           \/ files' = [files EXCEPT !.tmp = Missing]
      BY <1>8 DEF Backup
  <2>3. fails' \in Nat
      BY <1>1, <1>8 DEF Backup, Works, Fails
  <2> QED BY <1>1, <2>1, <2>2, <2>3
<1>9. CASE Place(t)
  <2>1. /\ Renamed(files, "tmp", "setting") \in [setting : Maybe, tmp : Maybe, bak : Maybe]
        /\ Renamed(files, "bak", "setting") \in [setting : Maybe, tmp : Maybe, bak : Maybe]
      BY <1>1, RenamedTyped DEF Names
  <2>2. /\ files' \in [setting : Maybe, tmp : Maybe, bak : Maybe]
        /\ UNCHANGED <<input, before>>
      BY <1>1, <1>9, <2>1 DEF Place
  <2>3. fails' \in Nat
      BY <1>1, <1>9 DEF Place, Works, Fails
  <2> QED BY <1>1, <2>2, <2>3
<1> QED BY <1>4, <1>5, <1>6, <1>7, <1>8, <1>9, <1>10 DEF Save

LEMMA SaveKeepsTypes ==
    ASSUME SettingsAssumption, SettingsTypes, Control, NEW t \in Tasks, Save(t)
    PROVE  SettingsTypes' /\ Control'
<1>1. PICK p \in Places \ {"idle", "save"} :
            /\ pc' = [pc EXCEPT ![t] = p]
            /\ p # "failed" => Val(t) # Bad
    BY SaveMoves
<1>2. /\ pc[t] \notin {"idle", "saved", "failed"} /\ t \in world.tasks
      /\ UNCHANGED <<world, sSettings, menu, todo, network, strays>>
    BY SaveMoves
<1>3. pc \in [Tasks -> Places] /\ pc' \in [Tasks -> Places]
    BY <1>1 DEF SettingsTypes
<1>4. SettingsTypes'
    BY <1>2, <1>3, SaveTypes DEF SettingsTypes
<1>5. Control'
  <2> SUFFICES ASSUME NEW u \in Tasks
               PROVE  /\ pc'[u] = "idle" <=> todo[u] = <<>>
                      /\ u \notin world.tasks => pc'[u] = "idle"
                      /\ pc'[u] \notin {"idle", "save", "failed"} => Val(u) # Bad
      BY <1>2 DEF Control, Val
  <2> QED BY <1>1, <1>2, <1>3 DEF Control
<1> QED BY <1>4, <1>5

-----------------------------------------------------------------------------
(* The callers. *)

\* A sequence of saves built over the places of a sequence of keys.
LEMMA SavesFor ==
    ASSUME NEW ks \in Seq(Keys) \ {<<>>}, NEW q \in [DOMAIN ks -> Saves]
    PROVE  q \in Seq(Saves) /\ q # <<>>
<1>1. PICK n \in Nat \ {0} : DOMAIN ks = 1 .. n
    <2>1. Len(ks) \in Nat /\ DOMAIN ks = 1 .. Len(ks) /\ Len(ks) # 0
        OBVIOUS
    <2> QED BY <2>1
<1>2. q \in [1 .. n -> Saves]
    BY <1>1
<1>3. q \in Seq(Saves)
    BY <1>2
<1>4. Len(q) = n
    BY <1>2, <1>3
<1> QED BY <1>3, <1>4

LEMMA BeginTyped ==
    ASSUME SettingsAssumption, SettingsTypes, Control,
           NEW t \in Tasks, NEW q \in Seq(Saves) \ {<<>>}, Idle(t), Begin(t, q)
    PROVE  /\ todo' \in [Tasks -> Seq(Saves)] /\ pc' \in [Tasks -> Places]
           /\ input' \in [Tasks -> Maybe] /\ before' \in [Tasks -> Maybe]
           /\ fails' \in Nat /\ UNCHANGED <<world, network, strays>>
           /\ Control'
<1>1. /\ todo' \in [Tasks -> Seq(Saves)] /\ pc' \in [Tasks -> Places]
      /\ input' \in [Tasks -> Maybe] /\ before' \in [Tasks -> Maybe]
      /\ fails' \in Nat /\ UNCHANGED <<world, network, strays>>
    BY DEF SettingsTypes, Begin, Places
<1>2. Control'
  <2> SUFFICES ASSUME NEW u \in Tasks
               PROVE  /\ pc'[u] = "idle" <=> todo'[u] = <<>>
                      /\ u \notin world.tasks => pc'[u] = "idle"
                      /\ pc'[u] \notin {"idle", "save", "failed"} => Head(todo'[u]).val # Bad
      BY <1>1 DEF Control, Val
  <2>1. CASE u = t
      BY <2>1 DEF SettingsTypes, Begin, Idle
  <2>2. CASE u # t
      BY <2>2 DEF SettingsTypes, Begin, Control, Val
  <2> QED BY <2>1, <2>2
<1> QED BY <1>1, <1>2

LEMMA Posted ==
    ASSUME PostSettings
    PROVE  \E k \in Keys, v \in world.vals \cup {Bad} :
              Begin("http", [i \in DOMAIN KeyOrder |->
                                [key |-> KeyOrder[i],
                                 val |-> [sSettings EXCEPT ![k] = v][KeyOrder[i]],
                                 change |-> KeyOrder[i] = k, part |-> "form"]])
BY DEF PostSettings

LEMMA PostSettingsTyped ==
    ASSUME SettingsAssumption, SettingsTypes, Control, PostSettings
    PROVE  SettingsTypes' /\ Control'
<1> DEFINE field(i, val, k) == [key |-> KeyOrder[i], val |-> val,
                                change |-> KeyOrder[i] = k, part |-> "form"]
<1>1. PICK k \in Keys, v \in Vals \cup {Bad} :
        Begin("http", [i \in DOMAIN KeyOrder |->
                          field(i, [sSettings EXCEPT ![k] = v][KeyOrder[i]], k)])
  <2>1. world.vals \subseteq Vals
      BY DEF SettingsTypes, SettingsAssumption
  <2> QED BY <2>1 DEF PostSettings
<1>2. PICK form : form = [sSettings EXCEPT ![k] = v]
    OBVIOUS
<1>3. form \in [Keys -> Values \cup {Bad}]
    BY <1>2 DEF SettingsTypes, Values
<1>4. KeyOrder \in Seq(Keys) \ {<<>>}
    BY DEF SettingsAssumption
<1>5. ASSUME NEW i \in DOMAIN KeyOrder
      PROVE  field(i, form[KeyOrder[i]], k) \in Saves
  <2>1. KeyOrder[i] \in Keys /\ form[KeyOrder[i]] \in Values \cup {Bad}
      BY <1>3, <1>4
  <2>2. (KeyOrder[i] = k) \in BOOLEAN
      OBVIOUS
  <2> QED BY <2>1, <2>2 DEF Saves
<1> DEFINE S(i) == field(i, form[KeyOrder[i]], k)
           q == [i \in DOMAIN KeyOrder |-> S(i)]
<1>6. \A i \in DOMAIN KeyOrder : S(i) \in Saves
    BY <1>5
<1>7. q \in Seq(Saves) /\ q # <<>>
  <2>1. q \in [DOMAIN KeyOrder -> Saves]
    <3> HIDE DEF S
    <3> QED BY <1>6
  <2> HIDE DEF q
  <2> QED BY <1>4, <2>1, SavesFor
<1>8. Begin("http", q)
    BY <1>1, <1>2
<1> HIDE DEF q
<1>9. /\ todo' \in [Tasks -> Seq(Saves)] /\ pc' \in [Tasks -> Places]
      /\ input' \in [Tasks -> Maybe] /\ before' \in [Tasks -> Maybe]
      /\ fails' \in Nat /\ UNCHANGED <<world, network, strays>> /\ Control'
    BY <1>7, <1>8, BeginTyped DEF PostSettings, Tasks
<1> QED BY <1>9 DEF SettingsTypes, PostSettings

LEMMA SelectImageTyped ==
    ASSUME SettingsAssumption, SettingsTypes, Control, SelectImage
    PROVE  SettingsTypes' /\ Control'
<1>1. PICK k \in ImageKeys, v \in Vals :
            /\ menu' = [Loaded(files.setting) EXCEPT ![k] = v]
            /\ Begin("menu", <<Change(k, v, "menu")>>)
    BY DEF SelectImage, SettingsTypes, SettingsAssumption
<1>2. files.setting \in Maybe
    BY DEF SettingsTypes
<1>3. PICK c \in [Keys -> Values] : c = Loaded(files.setting)
    BY <1>2, LoadedTyped
<1>4. menu' \in [Keys -> Values]
    BY <1>1, <1>3 DEF Values
<1>5. PICK s \in Saves : s = Change(k, v, "menu")
    BY DEF Saves, Values, Change, SettingsAssumption
<1>6. <<s>> \in Seq(Saves) \ {<<>>}
    OBVIOUS
<1>7. Begin("menu", <<s>>)
    BY <1>1, <1>5
<1>8. /\ todo' \in [Tasks -> Seq(Saves)] /\ pc' \in [Tasks -> Places]
      /\ input' \in [Tasks -> Maybe] /\ before' \in [Tasks -> Maybe]
      /\ fails' \in Nat /\ UNCHANGED <<world, network, strays>> /\ Control'
    BY <1>6, <1>7, BeginTyped DEF SelectImage, Tasks
<1> QED BY <1>4, <1>8 DEF SettingsTypes, SelectImage

LEMMA SetWifiTyped ==
    ASSUME SettingsAssumption, SettingsTypes, Control, SetWifi
    PROVE  SettingsTypes' /\ Control'
<1>1. PICK v \in Vals :
        Begin("shell", [i \in DOMAIN WifiKeys |-> Change(WifiKeys[i], v, "set")])
    BY DEF SetWifi, SettingsTypes, SettingsAssumption
<1>2. WifiKeys \in Seq(Keys) \ {<<>>}
    BY DEF SettingsAssumption
<1> DEFINE S(i) == Change(WifiKeys[i], v, "set")
           q == [i \in DOMAIN WifiKeys |-> S(i)]
<1>3. \A i \in DOMAIN WifiKeys : S(i) \in Saves
  <2> SUFFICES ASSUME NEW i \in DOMAIN WifiKeys
               PROVE  S(i) \in Saves
      OBVIOUS
  <2>1. WifiKeys[i] \in Keys
      BY <1>2
  <2> QED BY <2>1 DEF Saves, Values, Change
<1>4. q \in Seq(Saves) /\ q # <<>>
  <2>1. q \in [DOMAIN WifiKeys -> Saves]
    <3> HIDE DEF S
    <3> QED BY <1>3
  <2> HIDE DEF q
  <2> QED BY <1>2, <2>1, SavesFor
<1>5. Begin("shell", q)
    BY <1>1
<1> HIDE DEF q
<1>6. /\ todo' \in [Tasks -> Seq(Saves)] /\ pc' \in [Tasks -> Places]
      /\ input' \in [Tasks -> Maybe] /\ before' \in [Tasks -> Maybe]
      /\ fails' \in Nat /\ UNCHANGED <<world, network, strays>> /\ Control'
    BY <1>4, <1>5, BeginTyped DEF SetWifi, Tasks
<1>7. files' \in [setting : Maybe, tmp : Maybe, bak : Maybe]
    BY BootstrappedTyped DEF SetWifi, SettingsTypes
<1> QED BY <1>6, <1>7 DEF SettingsTypes, SetWifi

\* The web server is handed what was loaded, and a network of the list may follow.
LEMMA JoinTyped ==
    ASSUME SettingsAssumption, NEW n \in [WifiSet -> Values]
    PROVE  /\ Join(n) \in Seq(Saves) /\ Join(n) # <<>>
           /\ \A i \in DOMAIN Join(n) : Join(n)[i].val \in {n[k] : k \in WifiSet}
           /\ \A i \in DOMAIN Join(n) : Join(n)[i].part = "join" /\ Join(n)[i].key \in WifiSet
           /\ 1 \in DOMAIN Join(n)
<1> DEFINE S(i) == Change(WifiKeys[i], n[WifiKeys[i]], "join")
<1>1. WifiKeys \in Seq(Keys) \ {<<>>}
    BY DEF SettingsAssumption
<1>2. \A i \in DOMAIN WifiKeys : S(i) \in Saves
  <2> SUFFICES ASSUME NEW i \in DOMAIN WifiKeys
               PROVE  S(i) \in Saves
      OBVIOUS
  <2>1. WifiKeys[i] \in Keys /\ WifiKeys[i] \in WifiSet
      BY <1>1 DEF WifiSet
  <2>2. n[WifiKeys[i]] \in Values
      BY <2>1
  <2> QED BY <2>1, <2>2 DEF Saves, Change
<1>3. Join(n) = [i \in DOMAIN WifiKeys |-> S(i)]
    BY DEF Join
<1>4. Join(n) \in Seq(Saves) /\ Join(n) # <<>>
  <2>1. Join(n) \in [DOMAIN WifiKeys -> Saves]
    <3> HIDE DEF S
    <3> QED BY <1>2, <1>3
  <2> QED BY <1>1, <2>1, SavesFor
<1>5. 1 \in DOMAIN WifiKeys
    BY <1>1
<1>6. \A i \in DOMAIN WifiKeys : WifiKeys[i] \in WifiSet
    BY DEF WifiSet
<1> QED BY <1>3, <1>4, <1>5, <1>6 DEF Change

LEMMA ConnectedTyped ==
    ASSUME SettingsAssumption, SettingsTypes, Control, NEW t \in Tasks, NEW rest \in SUBSET Tasks,
           files' \in [setting : Maybe, tmp : Maybe, bak : Maybe], Connected(t, rest)
    PROVE  /\ sSettings' \in [Keys -> Values] /\ todo' \in [Tasks -> Seq(Saves)]
           /\ pc' \in [Tasks -> Places] /\ network' \in [WifiSet -> Values]
           /\ strays' \subseteq Keys /\ fails' \in Nat /\ UNCHANGED <<world, input, before>>
           /\ Control'
<1>1. sSettings' \in [Keys -> Values]
  <2>1. files'.setting \in Maybe
      OBVIOUS
  <2> QED BY <2>1, LoadedTyped DEF Connected
<1>2. fails' \in Nat /\ UNCHANGED <<world, input, before>>
    BY DEF Connected
<1>3. todo \in [Tasks -> Seq(Saves)] /\ pc \in [Tasks -> Places]
    BY DEF SettingsTypes
<1>4. CASE /\ network' = NoNetwork /\ strays' = {}
           /\ todo' = [u \in Tasks |-> IF u \in rest \ {t} THEN todo[u] ELSE <<>>]
           /\ pc' = [u \in Tasks |-> IF u \in rest \ {t} THEN pc[u] ELSE "idle"]
  <2>1. todo' \in [Tasks -> Seq(Saves)] /\ pc' \in [Tasks -> Places]
      BY <1>3, <1>4 DEF Places
  <2>2. network' \in [WifiSet -> Values] /\ strays' \subseteq Keys
      BY <1>4 DEF NoNetwork, Values
  <2>3. Control'
      BY <1>2, <1>4 DEF Control, Val
  <2> QED BY <1>1, <1>2, <2>1, <2>2, <2>3
<1>5. ASSUME t \in world.tasks, strays' = WifiSet, NEW n \in Answers, network' = n,
             todo' = [u \in Tasks |-> IF u = t THEN Join(n)
                                      ELSE IF u \in rest THEN todo[u] ELSE <<>>],
             pc' = [u \in Tasks |-> IF u = t THEN "save"
                                    ELSE IF u \in rest THEN pc[u] ELSE "idle"]
      PROVE  /\ todo' \in [Tasks -> Seq(Saves)] /\ pc' \in [Tasks -> Places]
             /\ network' \in [WifiSet -> Values] /\ strays' \subseteq Keys
             /\ Control'
  <2>1. n \in [WifiSet -> Values]
    <3>1. world.vals \subseteq Vals
        BY DEF SettingsTypes, SettingsAssumption
    <3>2. \A v \in world.vals : Cut[v] \in Values
        BY <3>1 DEF SettingsAssumption, Values
    <3>3. PICK cut : cut = {Cut[v] : v \in world.vals}
        OBVIOUS
    <3>4. n \in [WifiSet -> cut]
        BY <1>5, <3>3 DEF Answers
    <3>5. cut \subseteq Values
        BY <3>2, <3>3
    <3> QED BY <3>4, <3>5
  <2>2. PICK q \in Seq(Saves) \ {<<>>} : q = Join(n)
      BY <2>1, JoinTyped
  <2>3. todo' \in [Tasks -> Seq(Saves)] /\ pc' \in [Tasks -> Places]
      BY <1>3, <1>5, <2>2 DEF Places
  <2>4. WifiSet \subseteq Keys
      BY DEF WifiSet, SettingsAssumption
  <2>5. Control'
    <3> SUFFICES ASSUME NEW u \in Tasks
                 PROVE  /\ pc'[u] = "idle" <=> todo'[u] = <<>>
                        /\ u \notin world.tasks => pc'[u] = "idle"
                        /\ pc'[u] \notin {"idle", "save", "failed"} => Head(todo'[u]).val # Bad
        BY <1>2 DEF Control, Val
    <3>1. CASE u = t
        BY <1>5, <2>2, <3>1
    <3>2. CASE u # t
        BY <1>5, <3>2 DEF Control, Val
    <3> QED BY <3>1, <3>2
  <2> QED BY <1>5, <2>1, <2>3, <2>4, <2>5
<1> QED BY <1>1, <1>2, <1>4, <1>5 DEF Connected

LEMMA ConnectWifiTyped ==
    ASSUME SettingsAssumption, SettingsTypes, Control, ConnectWifi
    PROVE  SettingsTypes' /\ Control'
<1>1. files' \in [setting : Maybe, tmp : Maybe, bak : Maybe] /\ UNCHANGED menu
    BY BootstrappedTyped DEF ConnectWifi, SettingsTypes
<1>2. Connected("shell", Tasks) /\ "shell" \in Tasks /\ Tasks \in SUBSET Tasks
    BY DEF ConnectWifi, Tasks
<1> QED BY <1>1, <1>2, ConnectedTyped DEF SettingsTypes

LEMMA PowerLossTyped ==
    ASSUME SettingsAssumption, SettingsTypes, Control, PowerLoss
    PROVE  SettingsTypes' /\ Control'
<1>1. files' \in [setting : Maybe, tmp : Maybe, bak : Maybe]
    BY BootstrappedTyped DEF PowerLoss, SettingsTypes
<1>2. menu' \in [Keys -> Values]
    BY ContentsAreDefaults DEF PowerLoss
<1>3. Connected("http", {}) /\ "http" \in Tasks /\ {} \in SUBSET Tasks
    BY DEF PowerLoss, Tasks
<1> QED BY <1>1, <1>2, <1>3, ConnectedTyped DEF SettingsTypes

LEMMA NextSaveTyped ==
    ASSUME SettingsAssumption, SettingsTypes, Control, NEW t \in Tasks, NextSave(t)
    PROVE  SettingsTypes' /\ Control'
<1>1. /\ todo[t] \in Seq(Saves) /\ todo[t] # <<>> /\ t \in world.tasks
    BY DEF SettingsTypes, Control, NextSave
<1>2. Tail(todo[t]) \in Seq(Saves) /\ Key(t) \in Keys
    BY <1>1, SavesMove DEF Key
<1>3. pc[t] = "saved" => Val(t) \in Values
    BY <1>1, SavesMove DEF Val, Control
<1>4. sSettings' \in [Keys -> Values]
  <2>1. sSettings \in [Keys -> Values] /\ network \in [WifiSet -> Values]
      BY DEF SettingsTypes
  <2>2. [k \in Keys |-> IF k \in WifiSet THEN network[k] ELSE sSettings[k]] \in [Keys -> Values]
      BY <2>1
  <2>3. ASSUME pc[t] = "saved"
        PROVE  [sSettings EXCEPT ![Key(t)] = Cut[Val(t)]] \in [Keys -> Values]
    <3>1. PICK v \in Values : v = Cut[Val(t)]
        BY <1>3, <2>3 DEF SettingsAssumption, Values
    <3> QED BY <1>2, <2>1, <3>1
  <2>4. sSettings' \in Held(t)
      BY DEF NextSave
  <2> QED BY <2>1, <2>2, <2>3, <2>4 DEF Held
<1>5. PICK q \in Seq(Saves) : todo' = [todo EXCEPT ![t] = q]
  <2>1. PICK r \in Seq(Saves) : r = Tail(todo[t])
      BY <1>2
  <2>2. todo' = [todo EXCEPT ![t] = IF Part(t) = "set" /\ pc[t] = "failed" THEN <<>> ELSE r]
      BY <2>1 DEF NextSave
  <2>3. <<>> \in Seq(Saves)
      OBVIOUS
  <2> QED BY <2>2, <2>3
<1>6. todo' \in [Tasks -> Seq(Saves)] /\ todo'[t] = q
    BY <1>5 DEF SettingsTypes
<1>7. pc' = [pc EXCEPT ![t] = IF q = <<>> THEN "idle" ELSE "save"]
    BY <1>6 DEF NextSave
<1>8. pc' \in [Tasks -> Places]
    BY <1>7 DEF SettingsTypes, Places
<1>12. network' \in [WifiSet -> Values] /\ strays' \subseteq Keys
    BY DEF NextSave, NoNetwork, SettingsTypes, Values
<1>9. SettingsTypes'
    BY <1>4, <1>6, <1>8, <1>12 DEF SettingsTypes, NextSave
<1>10. Control'
  <2> SUFFICES ASSUME NEW u \in Tasks
               PROVE  /\ pc'[u] = "idle" <=> todo'[u] = <<>>
                      /\ u \notin world.tasks => pc'[u] = "idle"
                      /\ pc'[u] \notin {"idle", "save", "failed"} => Head(todo'[u]).val # Bad
      BY DEF Control, Val, NextSave
  <2>1. CASE u = t
      BY <1>1, <1>6, <1>7, <2>1 DEF SettingsTypes
  <2>2. CASE u # t
    <3>1. pc'[u] = pc[u] /\ todo'[u] = todo[u]
        BY <1>5, <1>7, <2>2 DEF SettingsTypes
    <3> QED BY <3>1 DEF Control, Val
  <2> QED BY <2>1, <2>2
<1> QED BY <1>9, <1>10

-----------------------------------------------------------------------------
(* One task at a time. *)

LEMMA OnlyTask ==
    ASSUME SettingsTypes, Control, Sound, NEW t \in Tasks, pc[t] # "idle"
    PROVE  world.tasks = {t} /\ \A u \in Tasks : u # t => pc[u] = "idle"
BY DEF SettingsTypes, Control, Sound

\* A step of a save, among places where only what follows can happen to the files
\* with all of them under the task's control.
LEMMA SaveKeepsStage ==
    ASSUME SettingsAssumption, SettingsTypes, Control, Sound,
           NEW t \in Tasks, Stage(t), Save(t)
    PROVE  Stage(t)'
<1>1. /\ pc \in [Tasks -> Places] /\ pc[t] \in Places
      /\ files \in [setting : Maybe, tmp : Maybe, bak : Maybe]
      /\ input \in [Tasks -> Maybe] /\ before \in [Tasks -> Maybe] /\ fails \in Nat
    BY DEF SettingsTypes
<1>2. UNCHANGED <<world, todo>> /\ world \in Worlds
    BY SaveMoves DEF SettingsTypes
<1>3. /\ "input" \notin world.faults /\ world.most <= 1 /\ world.most \in Nat
    BY <1>2 DEF Sound, SettingsAssumption
<1> DEFINE a == After(t)
           a1 == [before'[t] EXCEPT ![Key(t)] = Val(t)]
<1>4. a1 = After(t)'
    BY <1>2 DEF After, Key, Val
<1>5. before'[t] = before[t] => a1 = a
    BY DEF After
<1>6. Empty # Missing
    BY ContentsAreDefaults DEF SettingsAssumption
<1>7. pc[t] \in {"close"} => Copied(t) = a
    BY DEF Stage, Copied, After
<1>8. pc[t] \in {"close", "backup", "place"} => a \in Contents
  <2> SUFFICES ASSUME pc[t] \in {"close", "backup", "place"}
               PROVE  a \in Contents
      OBVIOUS
  <2>1. todo[t] \in Seq(Saves) /\ todo[t] # <<>> /\ Val(t) # Bad
      BY DEF SettingsTypes, Control
  <2>2. Key(t) \in Keys /\ Val(t) \in Values
      BY <2>1, SavesMove DEF Key, Val
  <2>3. before[t] \in Contents
      BY <1>1 DEF Stage, Maybe
  <2> QED BY <2>2, <2>3 DEF After, Contents, Values
<1>9. a # Missing \/ pc[t] \notin {"close", "backup", "place"}
    BY <1>8 DEF SettingsAssumption
<1>10. SUFFICES
        /\ pc'[t] \in {"idle", "save"} => files'.setting # Missing
        /\ pc'[t] \notin {"idle", "save"} => before'[t] # Missing
        /\ pc'[t] \in {"output", "close", "unbackup", "backup", "failed"}
                => files'.setting = before'[t]
        /\ pc'[t] \in {"output", "close", "unbackup", "backup"} => input'[t] = before'[t]
        /\ pc'[t] = "close" => files'.tmp # Missing
        /\ pc'[t] \in {"unbackup", "backup", "place"} => files'.tmp = a1
        /\ pc'[t] = "backup" => files'.bak = Missing
        /\ pc'[t] = "place" => files'.setting = Missing /\ files'.bak = before'[t]
        /\ pc'[t] \in {"clean", "saved"} => files'.setting = a1
    BY <1>4 DEF Stage
<1> HIDE DEF a, a1
<1>11. CASE Refuse(t)
    BY <1>1, <1>11 DEF Refuse, Stage
<1>12. CASE OpenInput(t)
  <2>1. /\ pc[t] = "save" /\ pc'[t] = "output" /\ files' = files
        /\ before'[t] = files.setting /\ input'[t] = files.setting
      BY <1>1, <1>3, <1>12 DEF OpenInput, At, Fails, MayFail
  <2> QED BY <2>1 DEF Stage
<1>13. CASE OpenOutput(t)
  <2>1. /\ pc[t] = "output" /\ before'[t] = before[t] /\ input'[t] = input[t]
        /\ \/ files' = files /\ pc'[t] = "failed"
           \/ files'.setting = files.setting /\ files'.tmp = Empty /\ pc'[t] = "close"
      BY <1>1, <1>13 DEF OpenOutput
  <2> QED BY <2>1, <1>6 DEF Stage
<1>14. CASE CloseOutput(t)
  <2>1. /\ pc[t] = "close" /\ before'[t] = before[t] /\ input'[t] = input[t]
        /\ files'.setting = files.setting
        /\ \/ pc'[t] = "failed"
           \/ pc'[t] = "unbackup" /\ files'.tmp = a
    <3>1. Copied(t) = a /\ files.tmp # Missing
        BY <1>14, <1>7 DEF CloseOutput, Stage
    <3> QED BY <1>1, <1>14, <3>1 DEF CloseOutput
  <2> QED BY <2>1, <1>5 DEF Stage
<1>15. CASE RemoveOldBackup(t)
  <2>1. /\ pc[t] = "unbackup" /\ before'[t] = before[t] /\ input'[t] = input[t]
        /\ files'.setting = files.setting /\ files'.tmp = files.tmp /\ files'.bak = Missing
        /\ pc'[t] = "backup"
      BY <1>1, <1>15 DEF RemoveOldBackup, At
  <2> QED BY <2>1, <1>5 DEF Stage, a
<1>16. CASE Backup(t)
  <2>1. /\ pc[t] = "backup" /\ before'[t] = before[t] /\ input'[t] = input[t]
        /\ input[t] # Missing
      BY <1>16 DEF Backup, Stage
  <2>2. PICK r \in [setting : Maybe, tmp : Maybe, bak : Maybe] :
            /\ r = Renamed(files, "setting", "bak")
            /\ r.bak = files.setting /\ r.setting = Missing /\ r.tmp = files.tmp
      BY <1>1, RenamedTyped DEF Names
  <2>3. \/ files' = r /\ pc'[t] = "place"
        \/ files' = [files EXCEPT !.tmp = Missing] /\ pc'[t] = "failed"
      BY <1>1, <1>16, <2>1, <2>2 DEF Backup
  <2> QED BY <1>1, <2>1, <2>2, <2>3, <1>5 DEF Stage, a
<1>17. CASE Place(t)
  <2>1. /\ pc[t] = "place" /\ before'[t] = before[t]
      BY <1>17 DEF Place
  <2>2. PICK r \in [setting : Maybe, tmp : Maybe, bak : Maybe] :
            /\ r = Renamed(files, "tmp", "setting")
            /\ r.setting = files.tmp
      BY <1>1, RenamedTyped DEF Names
  <2>3. PICK b \in [setting : Maybe, tmp : Maybe, bak : Maybe] :
            /\ b = Renamed(files, "bak", "setting")
            /\ b.setting = files.bak
      BY <1>1, RenamedTyped DEF Names
  <2>4. CanRename(files, "tmp", "setting") /\ CanRename(files, "bak", "setting")
      BY <1>9, <2>1 DEF CanRename, Stage, a
  <2>5. ~ (fails + 2 <= world.most)
      BY <1>1, <1>3
  <2>6. \/ files' = r /\ pc'[t] = "clean"
        \/ files' = b /\ pc'[t] = "failed"
      BY <1>1, <1>17, <1>2, <2>2, <2>3, <2>4, <2>5 DEF Place, Quiet
  <2> QED BY <2>1, <2>2, <2>3, <2>6, <1>5 DEF Stage, a
<1>18. CASE Clean(t)
  <2>1. /\ pc[t] = "clean" /\ before'[t] = before[t]
        /\ files'.setting = files.setting /\ pc'[t] = "saved"
      BY <1>1, <1>18 DEF Clean, At
  <2> QED BY <2>1, <1>5 DEF Stage, a
<1> QED BY <1>11, <1>12, <1>13, <1>14, <1>15, <1>16, <1>17, <1>18 DEF Save

\* Between two saves the file is there.
LEMMA StageBetween ==
    ASSUME NEW t \in Tasks, pc'[t] \in {"idle", "save"}, files'.setting # Missing
    PROVE  Stage(t)'
BY DEF Stage

LEMMA SavedValue ==
    ASSUME SettingsAssumption, SettingsTypes, Control, NEW t \in Tasks, Stage(t), pc[t] = "saved"
    PROVE  /\ before[t] \in Contents /\ Key(t) \in Keys /\ Val(t) \in Values
           /\ files.setting = After(t) /\ After(t) \in Contents /\ After(t) # Missing
<1>1. todo[t] \in Seq(Saves) /\ todo[t] # <<>> /\ Val(t) # Bad
    BY DEF SettingsTypes, Control
<1>2. Key(t) \in Keys /\ Val(t) \in Values
    BY <1>1, SavesMove DEF Key, Val
<1>3. before[t] \in Contents /\ files.setting = After(t)
    BY DEF Stage, SettingsTypes, Maybe
<1>4. After(t) \in Contents
    BY <1>2, <1>3 DEF After, Contents, Values
<1> QED BY <1>2, <1>3, <1>4 DEF SettingsAssumption

LEMMA NextSaveKeepsStage ==
    ASSUME SettingsAssumption, SettingsTypes, Control, NEW t \in Tasks, Stage(t), NextSave(t)
    PROVE  Stage(t)'
<1>1. pc[t] \in {"saved", "failed"} /\ files' = files
    BY DEF NextSave
<1>2. files.setting # Missing
    BY <1>1, SavedValue DEF Stage
<1>3. pc'[t] \in {"idle", "save"}
    BY DEF NextSave, SettingsTypes
<1> QED BY <1>1, <1>2, <1>3, StageBetween

LEMMA CallerKeepsStage ==
    ASSUME SettingsAssumption, SettingsTypes, Control, Sound,
           \A t \in world.tasks : Stage(t),
           PostSettings \/ SelectImage \/ SetWifi \/ ConnectWifi \/ PowerLoss,
           NEW u \in world.tasks
    PROVE  Stage(u)'
<1>1. u \in Tasks /\ pc \in [Tasks -> Places]
    BY DEF SettingsTypes
<1>2. /\ files \in [setting : Maybe, tmp : Maybe, bak : Maybe]
      /\ Bootstrapped(files).setting # Missing
      /\ files.setting # Missing => Bootstrapped(files) = files
    BY BootstrappedTyped DEF SettingsTypes
<1>3. ASSUME NEW t \in Tasks, Idle(t)
      PROVE  t = u /\ pc[u] = "idle" /\ files.setting # Missing
    BY <1>3 DEF Idle, Sound, Stage
<1>4. CASE PostSettings
  <2>1. Idle("http") /\ "http" \in Tasks
      BY <1>4 DEF PostSettings, Tasks
  <2>2. pc'["http"] = "save" /\ files' = files
      BY <1>1, <1>4, <2>1 DEF PostSettings, Begin
  <2> QED BY <2>1, <2>2, <1>1, <1>3, StageBetween
<1>5. CASE SelectImage
  <2>1. Idle("menu") /\ "menu" \in Tasks
      BY <1>5 DEF SelectImage, Tasks
  <2>2. pc'["menu"] = "save" /\ files' = files
      BY <1>1, <1>5, <2>1 DEF SelectImage, Begin
  <2> QED BY <2>1, <2>2, <1>1, <1>3, StageBetween
<1>6. CASE SetWifi
  <2>1. Idle("shell") /\ "shell" \in Tasks
      BY <1>6 DEF SetWifi, Tasks
  <2>2. pc'["shell"] = "save" /\ files' = Bootstrapped(files)
      BY <1>1, <1>6, <2>1 DEF SetWifi, Begin
  <2> QED BY <2>1, <2>2, <1>1, <1>2, <1>3, StageBetween
<1>7. CASE ConnectWifi
  <2>1. Idle("shell") /\ "shell" \in Tasks
      BY <1>7 DEF ConnectWifi, Tasks
  <2>2. pc'["shell"] \in {"idle", "save"} /\ files' = Bootstrapped(files)
      BY <1>7, <2>1 DEF ConnectWifi, Connected
  <2> QED BY <2>1, <2>2, <1>1, <1>2, <1>3, StageBetween
<1>8. CASE PowerLoss
  <2>1. pc'[u] \in {"idle", "save"} /\ files' = Bootstrapped(files)
      BY <1>1, <1>8 DEF PowerLoss, Connected
  <2> QED BY <2>1, <1>1, <1>2, StageBetween
<1> QED BY <1>4, <1>5, <1>6, <1>7, <1>8

\* The page's copy takes over the value of a save that worked.
LEMMA LoadedAfter ==
    ASSUME SettingsAssumption, NEW b \in Contents, PlainFile(b), NEW k \in Keys,
           NEW c \in Contents, c[k] \in Plain, \A x \in Keys \ {k} : c[x] = b[x]
    PROVE  /\ PlainFile(c) /\ Loaded(c)[k] = c[k]
           /\ \A x \in Keys \ {k} : Loaded(c)[x] = Loaded(b)[x]
<1>1. b # Missing /\ c # Missing /\ c[k] # Absent
    BY DEF SettingsAssumption, Plain, Absent
<1>2. PlainFile(c)
    BY <1>1 DEF PlainFile
<1>3. /\ Loaded(c) = [x \in Keys |-> IF c[x] = Absent THEN Default ELSE c[x]]
      /\ Loaded(b) = [x \in Keys |-> IF b[x] = Absent THEN Default ELSE b[x]]
    BY <1>2, LoadedPlain
<1> QED BY <1>1, <1>2, <1>3

LEMMA LoadedIsPlain ==
    ASSUME SettingsAssumption, NEW c \in Contents, PlainFile(c)
    PROVE  \A k \in Keys : Loaded(c)[k] \in Plain
<1>1. Loaded(c) = [k \in Keys |-> IF c[k] = Absent THEN Default ELSE c[k]] /\ c # Missing
    BY LoadedPlain DEF SettingsAssumption
<1> QED BY <1>1 DEF PlainFile, SettingsAssumption

\* The first save of the web server has a plain value, and what is left after it too.
LEMMA PlainHead ==
    ASSUME SettingsTypes, Control, PlainSaves(todo["http"]), pc["http"] # "idle"
    PROVE  /\ Val("http") \in Plain \cup {Bad} /\ Part("http") \in {"form", "join"}
           /\ Part("http") = "join" => Key("http") \in WifiSet /\ WifiSet \subseteq strays
           /\ PlainSaves(Tail(todo["http"]))
           /\ \A i \in DOMAIN Tail(todo["http"]) : Tail(todo["http"])[i].part = Part("http")
<1>1. PICK q \in Seq(Saves) : q = todo["http"] /\ q # <<>>
    BY DEF SettingsTypes, Control, Tasks
<1>2. 1 \in DOMAIN q /\ Head(q) = q[1]
    BY <1>1
<1>3. /\ q[1].val \in Plain \cup {Bad} /\ q[1].part \in {"form", "join"}
      /\ q[1].part = "join" => q[1].key \in WifiSet /\ WifiSet \subseteq strays
    BY <1>1, <1>2 DEF PlainSaves
<1>4. \A i \in DOMAIN Tail(q) : i + 1 \in DOMAIN q /\ Tail(q)[i] = q[i + 1] /\ 1 \in DOMAIN Tail(q)
    BY <1>1
<1>5. \A i \in DOMAIN Tail(q) :
        /\ Tail(q)[i].val \in Plain \cup {Bad} /\ Tail(q)[i].part = q[1].part
        /\ Tail(q)[1].part = q[1].part
        /\ Tail(q)[i].part = "join" => WifiSet \subseteq strays
        /\ Tail(q)[i].part = "join" => Tail(q)[i].key \in WifiSet
        /\ Tail(q)[i].part \in {"form", "join"}
    BY <1>1, <1>4 DEF PlainSaves
<1> QED BY <1>1, <1>2, <1>3, <1>5 DEF PlainSaves, Val, Key, Part

LEMMA PageKept ==
    ASSUME SettingsAssumption, SettingsTypes, Control, Sound, world.tasks = {"http"},
           world.vals \subseteq Plain, Stage("http"), PageShows, SettingsNext,
           SettingsTypes'
    PROVE  PageShows'
<1>1. /\ "http" \in Tasks /\ pc \in [Tasks -> Places] /\ before \in [Tasks -> Maybe]
      /\ todo \in [Tasks -> Seq(Saves)] /\ sSettings \in [Keys -> Values]
      /\ files.setting \in Maybe
      /\ \A t \in Tasks : t # "http" => pc[t] = "idle"
    BY DEF Tasks, SettingsTypes, Control
<1>2. CASE \E t \in Tasks : Save(t)
  <2>1. Save("http")
      BY <1>1, <1>2, SaveMoves
  <2>2. UNCHANGED <<sSettings, network, strays, todo>> /\ pc'["http"] \notin {"idle", "save"}
      BY <1>1, <2>1, SaveMoves
  <2>3. pc["http"] # "idle"
      BY <1>1, <2>1, SaveMoves
  <2>4. Base' = Base
    <3>1. CASE pc["http"] = "save"
      <4>1. before'["http"] = files.setting
          BY <1>1, <2>1, <3>1 DEF Save, Refuse, OpenInput, OpenOutput, CloseOutput,
                RemoveOldBackup, Backup, Place, Clean, At
      <4> QED BY <2>2, <3>1, <4>1 DEF Base
    <3>2. CASE pc["http"] # "save"
      <4>1. before'["http"] = before["http"]
          BY <1>1, <2>1, <3>2 DEF Save, Refuse, OpenInput, OpenOutput, CloseOutput,
                RemoveOldBackup, Backup, Place, Clean, At
      <4> QED BY <2>2, <2>3, <3>2, <4>1 DEF Base
    <3> QED BY <3>1, <3>2
  <2> QED BY <2>2, <2>4 DEF PageShows, PlainSaves
<1>3. CASE \E t \in Tasks : NextSave(t)
  <2>1. NextSave("http")
      BY <1>1, <1>3 DEF NextSave
  <2>2. pc["http"] \in {"saved", "failed"} /\ files' = files /\ Base = before["http"]
      BY <2>1 DEF NextSave, Base
  <2>3. pc'["http"] \in {"idle", "save"} /\ Base' = files.setting
      BY <1>1, <2>1 DEF NextSave, Base
  <2>4. /\ Val("http") \in Plain \cup {Bad} /\ Part("http") \in {"form", "join"}
        /\ Part("http") = "join" => Key("http") \in WifiSet /\ WifiSet \subseteq strays
        /\ PlainSaves(Tail(todo["http"]))
        /\ \A i \in DOMAIN Tail(todo["http"]) : Tail(todo["http"])[i].part = Part("http")
      BY <2>2, PlainHead DEF PageShows
  <2>5. todo'["http"] = Tail(todo["http"])
      BY <1>1, <2>1, <2>4 DEF NextSave
  <2>6. PlainSaves(todo["http"])'
    <3>1. Part("http") = "join" => strays' = strays
        BY <2>1 DEF NextSave
    <3> QED BY <2>4, <2>5, <3>1 DEF PlainSaves
  <2>7. \A k \in WifiSet : network'[k] \in Plain
      BY <2>1 DEF NextSave, NoNetwork, PageShows, SettingsAssumption
  <2>8. /\ PlainFile(before["http"]) /\ \A k \in Keys : sSettings[k] \in Plain
        /\ \A k \in Keys \ strays : sSettings[k] = Loaded(before["http"])[k]
      BY <2>2 DEF PageShows
  <2>9. WifiSet \subseteq Keys
      BY DEF WifiSet, SettingsAssumption
  <2>10. sSettings' \in Held("http")
      BY <2>1 DEF NextSave
  <2>14. \A k \in WifiSet : network[k] \in Plain
      BY DEF PageShows
  <2>15. ASSUME Part("http") = "join"
         PROVE  \A k \in Keys : /\ sSettings'[k] \in Plain
                                /\ k \notin WifiSet => sSettings'[k] = sSettings[k]
    <3>1. PICK joined : joined = [k \in Keys |-> IF k \in WifiSet THEN network[k]
                                                ELSE sSettings[k]]
        OBVIOUS
    <3>2. sSettings' = joined \/ sSettings' = sSettings
        BY <2>10, <2>15, <3>1 DEF Held
    <3>3. \A k \in Keys : /\ joined[k] \in Plain
                          /\ k \notin WifiSet => joined[k] = sSettings[k]
        BY <2>8, <2>14, <3>1
    <3> QED BY <2>8, <3>2, <3>3
  <2>11. CASE Part("http") = "form" /\ pc["http"] = "failed"
    <3>1. files.setting = before["http"]
        BY <2>11 DEF Stage
    <3>2. sSettings' = sSettings /\ strays' = strays
        BY <2>1, <2>10, <2>11 DEF NextSave, Held
    <3> QED BY <2>3, <2>6, <2>7, <2>8, <3>1, <3>2 DEF PageShows
  <2>12. CASE Part("http") = "join" /\ pc["http"] = "failed"
    <3>1. files.setting = before["http"]
        BY <2>12 DEF Stage
    <3>2. strays' = strays
        BY <2>1, <2>12 DEF NextSave
    <3>3. \A k \in Keys : sSettings'[k] \in Plain /\ (k \notin WifiSet => sSettings'[k] = sSettings[k])
        BY <2>12, <2>15
    <3> QED BY <2>3, <2>4, <2>6, <2>7, <2>8, <2>12, <3>1, <3>2, <3>3 DEF PageShows
  <2>13. CASE pc["http"] = "saved"
    <3>1. /\ before["http"] \in Contents /\ Key("http") \in Keys /\ Val("http") \in Values
          /\ files.setting = [before["http"] EXCEPT ![Key("http")] = Val("http")]
        BY <1>1, <2>13, SavedValue DEF After
    <3>2. Val("http") \in Plain
        BY <2>4, <3>1 DEF Values, SettingsAssumption
    <3>3. PICK c : c = [before["http"] EXCEPT ![Key("http")] = Val("http")]
        OBVIOUS
    <3>4. /\ PlainFile(c) /\ Loaded(c)[Key("http")] = Val("http")
          /\ \A x \in Keys \ {Key("http")} : Loaded(c)[x] = Loaded(before["http"])[x]
      <4>1. PICK b \in Contents, key \in Keys : b = before["http"] /\ key = Key("http")
          BY <3>1
      <4>2. /\ c \in Contents /\ c[key] = Val("http") /\ PlainFile(b)
            /\ \A x \in Keys \ {key} : c[x] = b[x]
          BY <2>8, <3>1, <3>3, <4>1 DEF Contents, Values
      <4>3. /\ PlainFile(c) /\ Loaded(c)[key] = c[key]
            /\ \A x \in Keys \ {key} : Loaded(c)[x] = Loaded(b)[x]
          BY <3>2, <4>2, LoadedAfter
      <4> QED BY <4>1, <4>2, <4>3
    <3>5. CASE Part("http") = "form"
      <4>1. strays' = strays \ {Key("http")}
          BY <2>1, <2>13, <3>5 DEF NextSave
      <4>2. sSettings' = [sSettings EXCEPT ![Key("http")] = Cut[Val("http")]]
          BY <2>10, <2>13, <3>5 DEF Held
      <4>3. Cut[Val("http")] = Val("http")
          BY <3>2 DEF Plain
      <4>4. \A k \in Keys : sSettings'[k] = IF k = Key("http") THEN Val("http") ELSE sSettings[k]
          BY <1>1, <3>1, <4>2, <4>3
      <4>5. \A k \in Keys : sSettings'[k] \in Plain
          BY <2>8, <3>2, <4>4
      <4>6. \A k \in Keys \ strays' : sSettings'[k] = Loaded(c)[k]
          BY <2>8, <3>4, <4>1, <4>4
      <4>7. Base' = c
          BY <2>3, <3>1, <3>3
      <4> QED BY <2>6, <2>7, <3>4, <4>5, <4>6, <4>7 DEF PageShows
    <3>6. CASE Part("http") = "join"
      <4>1. strays' = strays /\ Key("http") \in strays /\ WifiSet \subseteq strays
          BY <2>1, <2>4, <3>6 DEF NextSave
      <4>2. \A k \in Keys : /\ sSettings'[k] \in Plain
                            /\ k \notin WifiSet => sSettings'[k] = sSettings[k]
          BY <2>15, <3>6
      <4>3. \A k \in Keys \ strays' : sSettings'[k] = Loaded(c)[k]
        <5> SUFFICES ASSUME NEW k \in Keys \ strays'
                     PROVE  sSettings'[k] = Loaded(c)[k]
            OBVIOUS
        <5>1. k \in Keys \ strays /\ k \notin WifiSet /\ k # Key("http")
            BY <4>1
        <5>2. sSettings'[k] = sSettings[k]
            BY <4>2, <5>1
        <5>3. sSettings[k] = Loaded(before["http"])[k]
            BY <2>8, <5>1
        <5> QED BY <3>4, <5>1, <5>2, <5>3
      <4>4. Base' = c
          BY <2>3, <3>1, <3>3
      <4> QED BY <2>6, <2>7, <3>4, <4>2, <4>3, <4>4 DEF PageShows
    <3> QED BY <2>4, <3>5, <3>6
  <2> QED BY <2>2, <2>4, <2>11, <2>12, <2>13
<1>4. CASE PostSettings
  <2>1. /\ pc["http"] = "idle" /\ pc'["http"] = "save" /\ files' = files
        /\ UNCHANGED <<sSettings, network, strays>>
      BY <1>1, <1>4 DEF PostSettings, Begin, Idle
  <2>2. PICK k \in Keys, v \in world.vals \cup {Bad} :
            todo'["http"] = [i \in DOMAIN KeyOrder |->
                                [key |-> KeyOrder[i],
                                 val |-> [sSettings EXCEPT ![k] = v][KeyOrder[i]],
                                 change |-> KeyOrder[i] = k, part |-> "form"]]
    <3>1. PICK k \in Keys, v \in world.vals \cup {Bad} :
              Begin("http", [i \in DOMAIN KeyOrder |->
                                [key |-> KeyOrder[i],
                                 val |-> [sSettings EXCEPT ![k] = v][KeyOrder[i]],
                                 change |-> KeyOrder[i] = k, part |-> "form"]])
        BY <1>4, Posted
    <3>2. PICK saves : saves = [i \in DOMAIN KeyOrder |->
                                  [key |-> KeyOrder[i],
                                   val |-> [sSettings EXCEPT ![k] = v][KeyOrder[i]],
                                   change |-> KeyOrder[i] = k, part |-> "form"]]
        OBVIOUS
    <3>3. todo' = [todo EXCEPT !["http"] = saves]
      <4>1. Begin("http", saves)
          BY <3>1, <3>2
      <4> QED BY <4>1 DEF Begin
    <3>4. todo'["http"] = saves
        BY <1>1, <3>3
    <3>5. todo'["http"] = [i \in DOMAIN KeyOrder |->
                             [key |-> KeyOrder[i],
                              val |-> [sSettings EXCEPT ![k] = v][KeyOrder[i]],
                              change |-> KeyOrder[i] = k, part |-> "form"]]
        BY <3>2, <3>4
    <3> QED BY <3>5, Zenon
  <2>3. \A x \in Keys : [sSettings EXCEPT ![k] = v][x] \in Plain \cup {Bad}
      BY <1>1, <2>2 DEF PageShows
  <2>4. \A i \in DOMAIN KeyOrder : KeyOrder[i] \in Keys /\ 1 \in DOMAIN KeyOrder
      BY DEF SettingsAssumption
  <2>5. PlainSaves(todo["http"])'
      BY <2>2, <2>3, <2>4 DEF PlainSaves
  <2> QED BY <2>1, <2>5 DEF PageShows, Base
<1>5. CASE PowerLoss
  <2>1. /\ Connected("http", {}) /\ files' = Bootstrapped(files)
        /\ sSettings' = Loaded(files'.setting) /\ pc'["http"] \in {"idle", "save"}
      BY <1>1, <1>5 DEF PowerLoss, Connected
  <2>2. PICK c : c = files'.setting /\ Base' = c
      BY <2>1 DEF Base
  <2>3. PlainFile(files.setting)
    <3>1. CASE pc["http"] \in {"idle", "save"}
        BY <3>1 DEF PageShows, Base
    <3>2. CASE pc["http"] \notin {"idle", "save"}
      <4>1. PlainFile(before["http"]) /\ before["http"] \in Contents
          BY <1>1, <3>2 DEF PageShows, Base, Stage, Maybe
      <4>2. files.setting \in {Missing, before["http"], After("http")}
          BY <1>1, <3>2 DEF Stage, Places
      <4>3. CASE files.setting = After("http") /\ pc["http"] \in {"clean", "saved"}
        <5>1. /\ todo["http"] \in Seq(Saves) /\ todo["http"] # <<>> /\ Val("http") # Bad
            BY <1>1, <4>3 DEF Control
        <5>2. Key("http") \in Keys /\ Val("http") \in Plain
            BY <3>2, <5>1, SavesMove, PlainHead DEF Key, PageShows
        <5>3. PICK b \in Contents, key \in Keys : b = before["http"] /\ key = Key("http")
            BY <4>1, <5>2
        <5>4. PICK result : result = [b EXCEPT ![key] = Val("http")]
            OBVIOUS
        <5>5. /\ result \in Contents /\ result[key] = Val("http") /\ PlainFile(b)
              /\ \A x \in Keys \ {key} : result[x] = b[x]
            BY <4>1, <5>2, <5>3, <5>4 DEF Contents, Plain
        <5>6. PlainFile(result)
            BY <5>2, <5>5, LoadedAfter
        <5> QED BY <4>3, <5>3, <5>4, <5>6 DEF After
      <4> QED BY <1>1, <3>2, <4>1, <4>2, <4>3 DEF Stage, Places, PlainFile
    <3> QED BY <3>1, <3>2
  <2>4. c \in Contents /\ PlainFile(c)
    <3>1. files'.setting \in Maybe /\ files'.setting # Missing
        BY <2>1, BootstrappedTyped DEF SettingsTypes
    <3>2. files'.setting \in {files.setting, Defaults}
        BY <2>1 DEF Bootstrapped, SettingsTypes
    <3>3. PlainFile(Defaults)
        BY DEF PlainFile, Defaults, SettingsAssumption
    <3> QED BY <2>2, <2>3, <3>1, <3>2, <3>3 DEF Maybe
  <2>5. \A k \in Keys : sSettings'[k] \in Plain
      BY <2>1, <2>2, <2>4, LoadedIsPlain
  <2>6. /\ \A k \in WifiSet : network'[k] \in Plain
        /\ PlainSaves(todo["http"])'
    <3>1. CASE network' = NoNetwork /\ todo'["http"] = <<>>
        BY <3>1 DEF NoNetwork, SettingsAssumption, PlainSaves
    <3>2. ASSUME NEW n \in Answers, network' = n, todo'["http"] = Join(n), strays' = WifiSet
          PROVE  /\ \A k \in WifiSet : network'[k] \in Plain
                 /\ PlainSaves(todo["http"])'
      <4>1. \A v \in world.vals : Cut[v] = v
          BY DEF Plain
      <4>2. n \in [WifiSet -> Values] /\ \A k \in WifiSet : n[k] \in Plain
        <5>1. PICK cut : cut = {Cut[v] : v \in world.vals}
            OBVIOUS
        <5>2. n \in [WifiSet -> cut]
            BY <3>2, <5>1 DEF Answers
        <5>3. cut \subseteq Plain
            BY <4>1, <5>1
        <5>4. Plain \subseteq Values
            BY DEF Plain, Values
        <5> QED BY <5>2, <5>3, <5>4
      <4>3. /\ \A i \in DOMAIN Join(n) : Join(n)[i].val \in {n[k] : k \in WifiSet}
            /\ \A i \in DOMAIN Join(n) : Join(n)[i].part = "join" /\ Join(n)[i].key \in WifiSet
            /\ 1 \in DOMAIN Join(n)
          BY <4>2, JoinTyped
      <4> QED BY <3>2, <4>2, <4>3 DEF PlainSaves
    <3>3. \/ network' = NoNetwork /\ todo'["http"] = <<>>
          \/ \E n \in Answers : network' = n /\ todo'["http"] = Join(n) /\ strays' = WifiSet
        BY <1>1, <2>1 DEF Connected
    <3> QED BY <3>1, <3>2, <3>3
  <2> QED BY <2>1, <2>2, <2>4, <2>5, <2>6 DEF PageShows
<1>6. CASE SelectImage \/ SetWifi \/ ConnectWifi
    BY <1>6 DEF SelectImage, SetWifi, ConnectWifi, Idle
<1> QED BY <1>2, <1>3, <1>4, <1>5, <1>6 DEF SettingsNext

-----------------------------------------------------------------------------
(* The invariant, and what follows from it. *)

LEMMA SettingsInvInit ==
    ASSUME SettingsAssumption, SettingsInit
    PROVE  SettingsInv
<1>1. SettingsTypes /\ Control
    BY TypesInit
<1>2. files.setting = Defaults /\ Defaults # Missing
    BY ContentsAreDefaults DEF SettingsInit
<1>3. \A t \in Tasks : Stage(t)
    BY <1>2 DEF SettingsInit, Stage
<1>4. PageShows
  <2>1. PlainFile(Defaults) /\ \A k \in Keys : Defaults[k] = Default /\ Default \in Plain
      BY DEF PlainFile, Defaults, SettingsAssumption
  <2>2. \A k \in Keys : Loaded(Defaults)[k] = Default
      BY <2>1, LoadedPlain, ContentsAreDefaults DEF Absent, SettingsAssumption
  <2>3. Base = Defaults /\ todo["http"] = <<>>
      BY <1>2 DEF SettingsInit, Base, Tasks
  <2> QED BY <2>1, <2>2, <2>3 DEF SettingsInit, PageShows, PlainSaves, NoNetwork
<1> QED BY <1>1, <1>3, <1>4 DEF SettingsInv, SettingsTypes

LEMMA SettingsInvStep ==
    ASSUME SettingsAssumption, SettingsInv, [SettingsNext]_settingsVars
    PROVE  SettingsInv'
<1>1. CASE SettingsNext
  <2>1. SettingsTypes /\ Control /\ world' = world
      BY <1>1, SaveMoves DEF SettingsInv, SettingsNext, NextSave, PostSettings, SelectImage,
            SetWifi, ConnectWifi, PowerLoss, Begin, Connected
  <2>2. SettingsTypes' /\ Control'
      BY <1>1, <2>1, SaveKeepsTypes, NextSaveTyped, PostSettingsTyped, SelectImageTyped,
         SetWifiTyped, ConnectWifiTyped, PowerLossTyped DEF SettingsNext
  <2>3. Sound' <=> Sound
      BY <2>1 DEF Sound
  <2>4. ASSUME Sound, NEW u \in world.tasks
        PROVE  Stage(u)'
    <3>1. u \in Tasks /\ \A t \in world.tasks : Stage(t)
        BY <2>1, <2>4 DEF SettingsInv, SettingsTypes
    <3>2. ASSUME NEW t \in Tasks, Save(t) \/ NextSave(t)
          PROVE  t = u
      <4>1. pc[t] # "idle"
          BY <2>1, <3>2, SaveMoves DEF NextSave
      <4> QED BY <2>1, <2>4, <4>1, OnlyTask
    <3>3. CASE \E t \in Tasks : Save(t)
        BY <2>1, <2>4, <3>1, <3>2, <3>3, SaveKeepsStage
    <3>4. CASE \E t \in Tasks : NextSave(t)
        BY <2>1, <2>4, <3>1, <3>2, <3>4, NextSaveKeepsStage
    <3>5. CASE PostSettings \/ SelectImage \/ SetWifi \/ ConnectWifi \/ PowerLoss
        BY <2>1, <2>4, <3>1, <3>5, CallerKeepsStage
    <3> QED BY <1>1, <3>3, <3>4, <3>5 DEF SettingsNext
  <2>5. ASSUME Sound, world.tasks = {"http"}, world.vals \subseteq Plain
        PROVE  PageShows'
      BY <1>1, <2>1, <2>2, <2>5, PageKept DEF SettingsInv
  <2> QED BY <2>1, <2>2, <2>3, <2>4, <2>5 DEF SettingsInv
<1>2. CASE UNCHANGED settingsVars
  <2> USE <1>2 DEF settingsVars
  <2>1. SettingsTypes' /\ Control'
      BY DEF SettingsInv, SettingsTypes, Control, Val
  <2>2. (Sound' <=> Sound) /\ (PageShows' <=> PageShows)
      BY DEF Sound, PageShows, Base, PlainSaves
  <2>3. \A t \in Tasks : Stage(t)' <=> Stage(t)
      BY DEF Stage, After, Key, Val
  <2> QED BY <2>1, <2>2, <2>3 DEF SettingsInv, SettingsTypes
<1> QED BY <1>1, <1>2

LEMMA SettingsInvHolds == SettingsSpec => []SettingsInv
<1>1. SettingsInit => SettingsInv
    BY SettingsAssumption, SettingsInvInit
<1>2. SettingsInv /\ [SettingsNext]_settingsVars => SettingsInv'
    BY SettingsAssumption, SettingsInvStep
<1> QED BY <1>1, <1>2, PTL DEF SettingsSpec

(* A save that reports success has changed the one value, and one that     *)
(* reports failure nothing: for any keys, values, requests, task, power    *)
(* losses, and whichever one call of each save fails (app_settings.cpp,    *)
(* saveSettingValue).                                                      *)
THEOREM SavesAreExact == SettingsSpec => []SaveIsExact
<1>1. SettingsInv => SaveIsExact
    BY DEF SettingsInv, SaveIsExact, Stage
<1> QED BY <1>1, SettingsInvHolds, PTL

(* At every moment of a save the settings are on the card, in setting.txt  *)
(* or in setting.bak, and every variable keeps its type even when tasks    *)
(* undo each other's saves.                                                *)
THEOREM SettingsStayWhole == SettingsSpec => []WholeAtAnyMoment
<1>1. SettingsInv => SettingsTypeOK
  <2> SUFFICES ASSUME SettingsInv
               PROVE  SettingsTypeOK
      OBVIOUS
  <2>1. /\ files.setting \in Maybe /\ files.tmp \in Maybe /\ files.bak \in Maybe
      BY DEF SettingsInv, SettingsTypes
  <2>2. sSettings \in Contents /\ menu \in Contents
      BY SettingsAssumption, ContentsAreDefaults DEF SettingsInv, SettingsTypes
  <2>3. \A t \in Tasks : /\ input[t] \in Maybe /\ before[t] \in Maybe /\ pc[t] \in Places
                         /\ pc[t] = "idle" <=> todo[t] = <<>>
      BY DEF SettingsInv, SettingsTypes, Control
  <2> QED BY <2>1, <2>2, <2>3 DEF SettingsTypeOK, Maybe, Places
<1>2. SettingsInv /\ Sound => \A t \in world.tasks :
            pc[t] \notin {"idle", "save"} =>
                \/ files.setting \in {before[t], After(t)}
                \/ files.setting = Missing /\ files.bak = before[t]
  <2> SUFFICES ASSUME SettingsInv, Sound, NEW t \in world.tasks,
                      pc[t] \notin {"idle", "save"}
               PROVE  \/ files.setting \in {before[t], After(t)}
                      \/ files.setting = Missing /\ files.bak = before[t]
      OBVIOUS
  <2>1. Stage(t) /\ pc[t] \in Places
      BY DEF SettingsInv, SettingsTypes
  <2> QED BY <2>1 DEF Stage, Places
<1> QED BY <1>1, <1>2, SettingsInvHolds, PTL DEF WholeAtAnyMoment

(* When no request of the web server is running, the settings page shows   *)
(* what the next boot will load, for any values that the loader reads back *)
(* as they are entered, whatever saves fail and wherever the power goes;   *)
(* but for the keys of a network of the list that was joined, until the    *)
(* form has saved them (http_server.cpp, settingsPostHandler).             *)
THEOREM PageShowsFile == SettingsSpec => []PageMatchesFile
<1>1. SettingsInv => PageMatchesFile
    BY DEF SettingsInv, PageMatchesFile, PageShows, Base
<1> QED BY <1>1, SettingsInvHolds, PTL

-----------------------------------------------------------------------------
(* The display.  Induction over the characters of a text.                  *)

LEMMA SetInduction ==
  ASSUME NEW S, 0 \in S, \A n \in Nat : n \in S => n + 1 \in S
  PROVE  Nat \subseteq S
  <1> DEFINE T == Nat \ S
             R == OpToRel(<, Nat)
  <1> SUFFICES ASSUME T # {} PROVE FALSE
    OBVIOUS
  <1>1. IsWellFoundedOn(R, Nat)
    BY NatLessThanWellFounded
  <1>2. \A x, y \in T : <<y, x>> \in R <=> y < x
    BY DEF OpToRel
  <1> HIDE DEF R
  <1>3. PICK n \in T : \A m \in T : ~ (<<m, n>> \in R)
    BY <1>1, WFMin
  <1>4. \A m \in T : ~(m < n)
    BY <1>2, <1>3
  <1>5. n # 0 /\ n - 1 \in Nat /\ n - 1 \notin T
    BY <1>4
  <1> QED BY <1>5, (n - 1) + 1 = n

Steps(f, N, b, step) == f[0] = b /\ \A n \in 1 .. N : f[n] = step[<<n, f[n - 1]>>]

LEMMA StepsExist ==
  ASSUME NEW N \in Nat, NEW S, NEW b \in S, NEW step \in [(1 .. N) \X S -> S]
  PROVE  \E f \in [0 .. N -> S] : Steps(f, N, b, step)
  <1> DEFINE Good == {n \in Nat : n <= N =>
                        \E f \in [0 .. n -> S] :
                            f[0] = b /\ \A i \in 1 .. n : f[i] = step[<<i, f[i - 1]>>]}
  <1>1. 0 \in Good
    <2> DEFINE f == [i \in 0 .. 0 |-> b]
    <2>1. f \in [0 .. 0 -> S] /\ f[0] = b /\ \A i \in 1 .. 0 : FALSE
      OBVIOUS
    <2> QED BY <2>1
  <1>2. ASSUME NEW n \in Nat, n \in Good PROVE n + 1 \in Good
    <2> SUFFICES ASSUME n + 1 <= N
                 PROVE  \E f \in [0 .. n + 1 -> S] :
                          f[0] = b /\ \A i \in 1 .. n + 1 : f[i] = step[<<i, f[i - 1]>>]
      OBVIOUS
    <2>1. PICK g \in [0 .. n -> S] : g[0] = b /\ \A i \in 1 .. n : g[i] = step[<<i, g[i - 1]>>]
      BY <1>2
    <2>2. step[<<n + 1, g[n]>>] \in S
      OBVIOUS
    <2> DEFINE f == [i \in 0 .. n + 1 |-> IF i = n + 1 THEN step[<<n + 1, g[n]>>] ELSE g[i]]
    <2>3. f \in [0 .. n + 1 -> S] /\ f[0] = b
      BY <2>1, <2>2
    <2>4. ASSUME NEW i \in 1 .. n + 1 PROVE f[i] = step[<<i, f[i - 1]>>]
      <3>1. i - 1 \in 0 .. n /\ f[i - 1] = g[i - 1]
        OBVIOUS
      <3>2. CASE i = n + 1
        <4>1. f[n + 1] = step[<<n + 1, g[n]>>]
          OBVIOUS
        <4>2. f[i - 1] = g[n]
          BY <3>1, <3>2
        <4> HIDE DEF f
        <4> QED BY <3>2, <4>1, <4>2
      <3>3. CASE i # n + 1
        BY <2>1, <3>1, <3>3
      <3> QED BY <3>2, <3>3
    <2> QED BY <2>3, <2>4
  <1> HIDE DEF Good
  <1>3. N \in Good
    BY <1>1, <1>2, SetInduction
  <1> QED BY <1>3 DEF Good, Steps

Prints == {s \in [x : 0 .. Cols - 1, y : LogRows, wrote : SUBSET Row,
                  marks : SUBSET Row, full : BOOLEAN] : s.full => s.marks = Row}

LEMMA PutCharTyped ==
    ASSUME DisplayAssumption, NEW s \in Prints, NEW ch
    PROVE  PutChar(s, ch) \in Prints
<1>1. /\ Rows \in Nat /\ Cols \in Nat /\ Rows > 1 /\ Cols > 0
    BY DEF DisplayAssumption
<1>2. PICK X \in 0 .. Cols - 1, Y \in LogRows, W \in SUBSET Row, M \in SUBSET Row,
           F \in BOOLEAN :
        /\ s = [x |-> X, y |-> Y, wrote |-> W, marks |-> M, full |-> F]
        /\ F = TRUE => M = Row
    BY DEF Prints
<1>3. LogRows \subseteq Row /\ \A y \in LogRows : y < StatusRow - 1 => y + 1 \in LogRows
    BY <1>1 DEF LogRows, Row, StatusRow
<1> DEFINE Made(x, y, w, m, f) == [x |-> x, y |-> y, wrote |-> w, marks |-> m, full |-> f]
<1>4. ASSUME NEW x \in 0 .. Cols - 1, NEW y \in LogRows, NEW w \in SUBSET Row,
             NEW m \in SUBSET Row, NEW f \in BOOLEAN, f = TRUE => m = Row
      PROVE  Made(x, y, w, m, f) \in Prints
    BY <1>4 DEF Prints
<1> HIDE DEF Made
<1>5. ASSUME NEW x \in Nat, NEW y \in LogRows, NEW w \in SUBSET Row,
             NEW m \in SUBSET Row, NEW f \in BOOLEAN, f = TRUE => m = Row
      PROVE  Newline(Made(x, y, w, m, f)) \in Prints
  <2>1. 0 \in 0 .. Cols - 1
      BY <1>1
  <2>2. CASE y < StatusRow - 1
    <3>1. PICK z \in LogRows : z = y + 1
        BY <1>3, <2>2
    <3>2. Newline(Made(x, y, w, m, f)) = Made(0, z, w, m, f)
        BY <2>2, <3>1 DEF Newline, Made
    <3> QED BY <1>4, <1>5, <2>1, <3>2
  <2>3. CASE ~ (y < StatusRow - 1)
    <3>1. PICK w1 \in SUBSET Row : w1 = w \cup LogRows
        BY <1>3
    <3>2. Newline(Made(x, y, w, m, f)) = Made(0, y, w1, Row, TRUE)
        BY <2>3, <3>1 DEF Newline, Made
    <3> QED BY <1>4, <2>1, <3>2
  <2> QED BY <2>2, <2>3
<1>6. CASE ch = "n"
  <2>1. s = Made(X, Y, W, M, F) /\ X \in Nat
      BY <1>2 DEF Made
  <2>2. PutChar(s, ch) = Newline(s)
      BY <1>6 DEF PutChar
  <2> QED BY <1>2, <1>5, <2>1, <2>2
<1>7. CASE ch # "n"
  <2> DEFINE put  == [s EXCEPT !.x = @ + 1, !.wrote = @ \cup {s.y}]
             here == IF put.x >= Cols THEN Newline(put) ELSE put
  <2>0. X + 1 \in Nat /\ W \cup {Y} \in SUBSET Row
      BY <1>1, <1>3
  <2>1. PICK x \in Nat, w \in SUBSET Row : x = X + 1 /\ w = W \cup {Y}
      BY <2>0
  <2>2. put = Made(x, Y, w, M, F)
    <3>1. s.x + 1 = x /\ s.wrote \cup {s.y} = w
        BY <1>2, <2>1
    <3>2. put = [s EXCEPT !.x = x, !.wrote = w]
        BY <3>1
    <3> HIDE DEF put
    <3> QED BY <1>2, <3>2 DEF Made
  <2>3. put.x = x
      BY <2>2 DEF Made
  <2> HIDE DEF put
  <2>4. here \in Prints
    <3>1. CASE x >= Cols
        BY <1>2, <1>5, <2>2, <2>3, <3>1
    <3>2. CASE ~ (x >= Cols)
      <4>1. x \in 0 .. Cols - 1
          BY <1>1, <3>2
      <4> QED BY <1>2, <1>4, <2>2, <2>3, <3>2, <4>1
    <3> QED BY <3>1, <3>2
  <2>5. PICK h : h = here
      OBVIOUS
  <2>6. PutChar(s, ch) = [h EXCEPT !.marks = @ \cup {h.y}]
      BY <1>7, <2>5 DEF PutChar, put
  <2> HIDE DEF here
  <2>7. PICK X1 \in 0 .. Cols - 1, Y1 \in LogRows, W1 \in SUBSET Row, M1 \in SUBSET Row,
             F1 \in BOOLEAN :
          /\ h = [x |-> X1, y |-> Y1, wrote |-> W1, marks |-> M1, full |-> F1]
          /\ F1 = TRUE => M1 = Row
      BY <2>4, <2>5 DEF Prints
  <2>8. PICK m \in SUBSET Row : m = M1 \cup {Y1}
      BY <1>3
  <2>9. PutChar(s, ch) = Made(X1, Y1, W1, m, F1)
      BY <2>6, <2>7, <2>8 DEF Made
  <2>10. F1 = TRUE => m = Row
      BY <1>3, <2>7, <2>8
  <2> QED BY <1>4, <2>9, <2>10
<1> QED BY <1>6, <1>7

LEMMA PrintedTyped ==
    ASSUME DisplayAssumption, cursor \in [x : 0 .. Cols - 1, y : LogRows],
           NEW chars \in Seq({"c", "n"})
    PROVE  Printed(chars) \in Prints
<1> DEFINE L == Len(chars)
           b == [x |-> cursor.x, y |-> cursor.y, wrote |-> {}, marks |-> {}, full |-> FALSE]
           R(h) == [n \in 0 .. L |-> IF n = 0 THEN b ELSE PutChar(h[n - 1], chars[n])]
           step == [p \in (1 .. L) \X Prints |-> PutChar(p[2], chars[p[1]])]
           after[n \in 0 .. L] == IF n = 0 THEN b ELSE PutChar(after[n - 1], chars[n])
<1>1. L \in Nat
    OBVIOUS
<1>2. b \in Prints
    BY DEF Prints
<1>3. step \in [(1 .. L) \X Prints -> Prints]
    BY PutCharTyped
<1>4. Printed(chars) = after[L]
    BY DEF Printed
<1>5. after = CHOOSE h : h = R(h)
    OBVIOUS
<1> HIDE DEF L, b, after
<1>6. ASSUME NEW n \in 1 .. L, NEW s \in Prints
      PROVE  step[<<n, s>>] = PutChar(s, chars[n])
    OBVIOUS
<1> HIDE DEF step
<1>7. PICK f \in [0 .. L -> Prints] : Steps(f, L, b, step)
    BY <1>1, <1>2, <1>3, StepsExist
<1>8. f = R(f)
  <2>1. \A n \in 0 .. L : f[n] = IF n = 0 THEN b ELSE PutChar(f[n - 1], chars[n])
    <3> SUFFICES ASSUME NEW n \in 0 .. L
                 PROVE  f[n] = IF n = 0 THEN b ELSE PutChar(f[n - 1], chars[n])
        OBVIOUS
    <3>1. CASE n = 0
        BY <1>7, <3>1 DEF Steps
    <3>2. CASE n # 0
      <4>1. n \in 1 .. L /\ f[n - 1] \in Prints
          BY <1>1, <1>7, <3>2
      <4> QED BY <1>6, <1>7, <3>2, <4>1 DEF Steps
    <3> QED BY <3>1, <3>2
  <2> QED BY <2>1
<1>9. after = R(after)
    BY <1>5, <1>8
<1> DEFINE Good == {n \in Nat : n <= L => after[n] \in Prints}
<1>10. 0 \in Good
    BY <1>1, <1>2, <1>9
<1>11. \A n \in Nat : n \in Good => n + 1 \in Good
  <2> SUFFICES ASSUME NEW n \in Nat, n <= L => after[n] \in Prints, n + 1 <= L
               PROVE  after[n + 1] \in Prints
      OBVIOUS
  <2>1. n + 1 \in 0 .. L /\ n + 1 # 0 /\ (n + 1) - 1 = n /\ after[n] \in Prints
      BY <1>1
  <2>2. after[n + 1] = PutChar(after[n], chars[n + 1])
      BY <1>9, <2>1
  <2> QED BY <2>1, <2>2, PutCharTyped
<1>12. L \in Good
  <2> HIDE DEF Good
  <2> QED BY <1>1, <1>10, <1>11, SetInduction
<1> QED BY <1>1, <1>4, <1>12

-----------------------------------------------------------------------------
(* The display's invariant. *)

Pictures == [of : Page, whole : BOOLEAN]
            \cup [of : {"console"}, stale : SUBSET Row, qr : BOOLEAN]
EmuPlaces == {"top", "guest", "save", "load", "switch", "lock console", "snapshot",
              "paint", "lock mac", "unlock", "rest"}

DisplayTypes ==
    /\ cursor \in [x : 0 .. Cols - 1, y : LogRows]
    /\ dirtyRows \in SUBSET Row /\ full \in BOOLEAN /\ (full = TRUE => dirtyRows = Row)
    /\ qrCodeActive \in BOOLEAN /\ running \in BOOLEAN
    /\ dispMode \in {"console", "emu"} /\ pendingDispMode \in {"none", "console", "emu"}
    /\ frontBuffer \in Pictures /\ offscreen \in [Surface -> Pictures]
    /\ activeSurface \in Surface /\ selectedMacSurface \in Page /\ next \in Surface
    /\ surfaceMutex \in {"free", "emu", "render"}
    /\ snapshot \in [rows : SUBSET Row, all : BOOLEAN, stale : SUBSET Row]
    /\ emu \in EmuPlaces
    /\ render \in {"poll", "try", "check", "snapshot", "paint", "unlock"}

\* The MMU has the active surface's page, and only it, in the front buffer.
MappedActive == mapped = MappedFor(activeSurface)

\* The lock says who has it; the render task draws only with it and on the
\* console, and a switch from or to the console has it too.
Locked ==
    /\ surfaceMutex = "render" <=> render \in {"check", "snapshot", "paint", "unlock"}
    /\ render \in {"snapshot", "paint"} => activeSurface = "console"
    /\ surfaceMutex = "emu" => emu \in {"snapshot", "paint", "save", "load", "switch", "unlock"}
    /\ emu \in {"snapshot", "paint", "unlock"} => surfaceMutex = "emu"
    /\ emu \in {"snapshot", "paint"} => activeSurface # "console"
    /\ emu \in {"save", "load", "switch"} =>
          /\ next # activeSurface
          /\ surfaceMutex = "emu" \/ {activeSurface, next} \subseteq Page

\* A picture of a surface: of a page, with all the guest wrote there.
Whole(picture, surface) ==
    IF surface = "console" THEN picture.of = "console"
    ELSE picture = MacPicture(surface, TRUE)

\* Where each surface is: the active one in the front buffer until it is saved,
\* the next one there once it is loaded, every other in its own buffer.
Placed ==
    /\ emu \notin {"load", "switch"} => Whole(frontBuffer, activeSurface)
    /\ emu = "switch" => Whole(frontBuffer, next)
    /\ \A s \in Surface : s # activeSurface \/ emu \in {"load", "switch"}
            => Whole(offscreen[s], s)

DisplayInv == DisplayTypes /\ MappedActive /\ Locked /\ Placed

LEMMA WholeFacts ==
    /\ \A p \in Page : p \in Surface /\ p # "console"
    /\ \A s \in Surface : s \in Page \/ s = "console"
    /\ \A p \in Page : MacPicture(p, TRUE) \in Pictures /\ MacPicture(p, FALSE) \in Pictures
                       /\ MacPicture(p, TRUE).of = p /\ MacPicture(p, FALSE).of = p
    /\ \A rows \in SUBSET Row, qr \in BOOLEAN :
          ConsolePicture(rows, qr) \in Pictures /\ ConsolePicture(rows, qr).of = "console"
    /\ \A x \in Pictures : x.of \in Surface
    /\ \A x, s : Whole(x, s) => x.of = s
    /\ Forgotten \in Pictures
BY DEF Surface, Page, Pictures, MacPicture, ConsolePicture, Whole, Forgotten

LEMMA AgedKept ==
    ASSUME NEW x \in Pictures, NEW rows \in SUBSET Row
    PROVE  Aged(x, rows) \in Pictures /\ \A s : Whole(x, s) => Whole(Aged(x, rows), s)
<1>1. CASE x.of = "console"
  <2>1. PICK st \in SUBSET Row, q \in BOOLEAN : x = [of |-> "console", stale |-> st, qr |-> q]
      BY <1>1 DEF Pictures, Page
  <2>2. PICK st1 \in SUBSET Row : st1 = st \cup rows
      OBVIOUS
  <2>3. Aged(x, rows) = [of |-> "console", stale |-> st1, qr |-> q]
      BY <1>1, <2>1, <2>2 DEF Aged
  <2>4. Aged(x, rows) \in Pictures /\ Aged(x, rows).of = "console"
      BY <2>3 DEF Pictures
  <2>5. \A s : Whole(x, s) => s = "console"
      BY <1>1, WholeFacts
  <2> QED BY <2>4, <2>5 DEF Whole
<1>2. CASE x.of # "console"
    BY <1>2 DEF Aged
<1> QED BY <1>1, <1>2

LEMMA WrittenKept ==
    ASSUME DisplayTypes, NEW rows \in SUBSET Row, Written(rows)
    PROVE  /\ frontBuffer' \in Pictures /\ offscreen' \in [Surface -> Pictures]
           /\ snapshot' \in [rows : SUBSET Row, all : BOOLEAN, stale : SUBSET Row]
           /\ \A s : Whole(frontBuffer, s) => Whole(frontBuffer', s)
           /\ \A s \in Surface : Whole(offscreen[s], s) => Whole(offscreen'[s], s)
<1>1. frontBuffer \in Pictures /\ offscreen \in [Surface -> Pictures]
    BY DEF DisplayTypes
<1>2. /\ frontBuffer' \in Pictures
      /\ \A s : Whole(frontBuffer, s) => Whole(frontBuffer', s)
    BY <1>1, AgedKept DEF Written
<1>3. \A s \in Surface : offscreen[s] \in Pictures /\ Aged(offscreen[s], rows) \in Pictures
    BY <1>1, AgedKept
<1>4. offscreen' = [s \in Surface |-> Aged(offscreen[s], rows)]
    BY DEF Written
<1>5. /\ offscreen' \in [Surface -> Pictures]
      /\ \A s \in Surface : Whole(offscreen[s], s) => Whole(offscreen'[s], s)
    BY <1>3, <1>4, AgedKept
<1>6. snapshot' \in [rows : SUBSET Row, all : BOOLEAN, stale : SUBSET Row]
  <2>1. PICK R \in SUBSET Row, A \in BOOLEAN, T \in SUBSET Row :
            snapshot = [rows |-> R, all |-> A, stale |-> T]
      BY DEF DisplayTypes
  <2>2. \/ snapshot' = snapshot
        \/ snapshot' = [rows |-> R, all |-> A, stale |-> T \cup rows]
      BY <2>1 DEF Written
  <2>3. T \cup rows \in SUBSET Row
      OBVIOUS
  <2> QED BY <2>1, <2>2, <2>3
<1> QED BY <1>2, <1>5, <1>6

\* A step that switches nothing and leaves the pictures, or ages them.
LEMMA NothingSwitched ==
    ASSUME DisplayInv,
           UNCHANGED <<vmu, surfaceMutex, emu, next, render>>,
           \/ UNCHANGED <<buffers, snapshot>>
           \/ \E rows \in SUBSET Row : Written(rows),
           cursor' \in [x : 0 .. Cols - 1, y : LogRows],
           dirtyRows' \in SUBSET Row, full' \in BOOLEAN, full' = TRUE => dirtyRows' = Row,
           qrCodeActive' \in BOOLEAN, running' \in BOOLEAN,
           dispMode' \in {"console", "emu"}, pendingDispMode' \in {"none", "console", "emu"}
    PROVE  DisplayInv'
<1>1. /\ DisplayTypes /\ MappedActive /\ Locked /\ Placed
      /\ activeSurface' = activeSurface /\ mapped' = mapped
      /\ selectedMacSurface' = selectedMacSurface
    BY DEF DisplayInv, vmu
<1>2. /\ frontBuffer' \in Pictures /\ offscreen' \in [Surface -> Pictures]
      /\ snapshot' \in [rows : SUBSET Row, all : BOOLEAN, stale : SUBSET Row]
      /\ \A s : Whole(frontBuffer, s) => Whole(frontBuffer', s)
      /\ \A s \in Surface : Whole(offscreen[s], s) => Whole(offscreen'[s], s)
  <2>1. CASE UNCHANGED <<buffers, snapshot>>
      BY <1>1, <2>1 DEF DisplayTypes, buffers
  <2>2. CASE \E rows \in SUBSET Row : Written(rows)
      BY <1>1, <2>2, WrittenKept
  <2> QED BY <2>1, <2>2
<1>3. DisplayTypes'
    BY <1>1, <1>2 DEF DisplayTypes
<1>4. MappedActive' /\ Locked'
    BY <1>1 DEF MappedActive, Locked, MappedFor
<1>5. Placed'
    BY <1>1, <1>2 DEF Placed, DisplayTypes
<1> QED BY <1>3, <1>4, <1>5 DEF DisplayInv

LEMMA DisplayInvInit ==
    ASSUME DisplayAssumption, Init
    PROVE  DisplayInv
<1> USE DEF Init
<1>1. /\ Rows \in Nat /\ Cols \in Nat /\ Rows > 1 /\ Cols > 0
    BY DEF DisplayAssumption
<1>2. cursor \in [x : 0 .. Cols - 1, y : LogRows]
    BY <1>1 DEF LogRows
<1>3. frontBuffer \in Pictures /\ offscreen \in [Surface -> Pictures]
  <2>1. \A s \in Surface :
            (IF s = "console" THEN Forgotten ELSE MacPicture(s, TRUE)) \in Pictures
      BY WholeFacts
  <2>2. ConsolePicture(Row, FALSE) \in Pictures
      BY WholeFacts
  <2> QED BY <2>1, <2>2
<1>4. snapshot \in [rows : SUBSET Row, all : BOOLEAN, stale : SUBSET Row]
    BY DEF NoSnapshot
<1>5. DisplayTypes
    BY <1>2, <1>3, <1>4 DEF DisplayTypes, EmuPlaces, Surface, Page
<1>6. MappedActive
    BY DEF MappedActive, MappedFor, Page
<1>7. Locked
    BY DEF Locked
<1>8. Placed
    BY DEF Placed, Whole, ConsolePicture, Forgotten
<1> QED BY <1>5, <1>6, <1>7, <1>8 DEF DisplayInv

LEMMA CallerStep ==
    ASSUME DisplayAssumption, DisplayInv, NEW c \in Callers, Return(c) \/ Call(c)
    PROVE  DisplayInv'
<1>1. /\ cursor \in [x : 0 .. Cols - 1, y : LogRows]
      /\ dirtyRows \in SUBSET Row /\ full \in BOOLEAN /\ (full = TRUE => dirtyRows = Row)
      /\ qrCodeActive \in BOOLEAN /\ running \in BOOLEAN
      /\ dispMode \in {"console", "emu"} /\ pendingDispMode \in {"none", "console", "emu"}
    BY DEF DisplayInv, DisplayTypes
<1>2. /\ Rows \in Nat /\ Cols \in Nat /\ Rows > 1 /\ Cols > 0 /\ LineRows \subseteq Row
    BY DEF DisplayAssumption, Row
<1>3. [x |-> 0, y |-> 0] \in [x : 0 .. Cols - 1, y : LogRows]
    BY <1>2 DEF LogRows
<1> USE DEF emuVars, mode, NotCall, text
<1>4. ASSUME NEW from, NEW to, Marked(c, from, to)
      PROVE  DisplayInv'
    BY <1>1, <1>4, NothingSwitched DEF Marked
<1>5. CASE \E t \in Texts : Printf(c, t)
  <2>1. PICK t \in Texts : Printf(c, t)
      BY <1>5
  <2>2. PICK s \in Prints : s = Printed(t)
      BY <1>1, <2>1, PrintedTyped DEF DisplayAssumption
  <2>3. PICK X \in 0 .. Cols - 1, Y \in LogRows, W \in SUBSET Row, M \in SUBSET Row,
             F \in BOOLEAN :
          /\ s = [x |-> X, y |-> Y, wrote |-> W, marks |-> M, full |-> F]
          /\ F = TRUE => M = Row
      BY DEF Prints
  <2>4. /\ cursor' = [x |-> X, y |-> Y]
        /\ dirtyRows' = dirtyRows \cup M /\ full' = (full \/ F)
        /\ Written(W)
        /\ UNCHANGED <<qrCodeActive, mode, vmu, surfaceMutex, emuVars, render>>
      BY <2>1, <2>2, <2>3 DEF Printf
  <2>5. /\ cursor' \in [x : 0 .. Cols - 1, y : LogRows]
        /\ dirtyRows' \in SUBSET Row
      BY <1>1, <2>4
  <2>6. full' \in BOOLEAN /\ (full' = TRUE => full = TRUE \/ F = TRUE)
      BY <1>1, <2>4
  <2>7. full' = TRUE => dirtyRows' = Row
      BY <1>1, <2>3, <2>4, <2>6
  <2> QED BY <1>1, <2>4, <2>5, <2>6, <2>7, NothingSwitched
<1>6. CASE \E r \in LineRows : WriteRow(c, r)
  <2>1. PICK r \in Row : WriteRow(c, r)
      BY <1>2, <1>6
  <2>2. /\ {r} \in SUBSET Row /\ Written({r}) /\ dirtyRows' = dirtyRows \cup {r}
        /\ UNCHANGED <<cursor, full, qrCodeActive, mode, vmu, surfaceMutex, emuVars, render>>
      BY <2>1 DEF WriteRow
  <2> QED BY <1>1, <2>2, NothingSwitched
<1>7. CASE Clear(c)
    BY <1>1, <1>3, <1>7, NothingSwitched DEF Clear
<1>8. CASE WriteQrText(c)
    BY <1>1, <1>3, <1>8, NothingSwitched DEF WriteQrText
<1>9. CASE ShowConsole(c) \/ MarkAll(c)
    BY <1>4, <1>9 DEF ShowConsole, MarkAll
<1>10. CASE StoreConsoleMode(c) \/ RequestConsole(c)
    BY <1>1, <1>10, NothingSwitched DEF StoreConsoleMode, RequestConsole
<1>11. CASE RequestEmu(c) \/ ShowEmu(c)
    BY <1>1, <1>11, NothingSwitched DEF RequestEmu, ShowEmu
<1>12. CASE ShowQrCode(c) \/ HideQrCode(c)
    BY <1>1, <1>12, NothingSwitched DEF ShowQrCode, HideQrCode
<1> QED BY <1>5, <1>6, <1>7, <1>8, <1>9, <1>10, <1>11, <1>12 DEF Return, Call

LEMMA PaintedWhole ==
    ASSUME DisplayTypes, NEW x \in Pictures
    PROVE  Painted(x) \in Pictures /\ Whole(Painted(x), "console")
<1>1. PICK old \in Pictures : /\ old.of = "console"
                              /\ old = IF x.of = "console" THEN x ELSE ConsolePicture(Row, FALSE)
    BY WholeFacts
<1>2. PICK st \in SUBSET Row, q \in BOOLEAN : old = [of |-> "console", stale |-> st, qr |-> q]
    BY <1>1 DEF Pictures, Page
<1>3. PICK R \in SUBSET Row, A \in BOOLEAN, T \in SUBSET Row :
            snapshot = [rows |-> R, all |-> A, stale |-> T]
    BY DEF DisplayTypes
<1>4. Painted(x) = ConsolePicture((st \ R) \cup (T \cap R), qrCodeActive \/ (q /\ ~A))
  <2>1. /\ old.stale = st /\ old.qr = q
        /\ snapshot.rows = R /\ snapshot.all = A /\ snapshot.stale = T
      BY <1>2, <1>3
  <2>2. Painted(x) = ConsolePicture((old.stale \ snapshot.rows) \cup (snapshot.stale \cap snapshot.rows),
                                    qrCodeActive \/ (old.qr /\ ~snapshot.all))
      BY <1>1 DEF Painted
  <2> QED BY <2>1, <2>2
<1>5. (st \ R) \cup (T \cap R) \in SUBSET Row
    OBVIOUS
<1>6. (qrCodeActive \/ (q /\ ~A)) \in BOOLEAN
    OBVIOUS
<1>7. PICK rows \in SUBSET Row, qr \in BOOLEAN : Painted(x) = ConsolePicture(rows, qr)
    BY <1>4, <1>5, <1>6
<1> QED BY <1>7, WholeFacts DEF Whole

LEMMA RenderStep ==
    ASSUME DisplayInv, RenderTask
    PROVE  DisplayInv'
<1>1. DisplayTypes /\ MappedActive /\ Locked /\ Placed
    BY DEF DisplayInv
<1> USE DEF emuVars, mode, vmu, text, NotRender, RenderAt
<1>2. /\ UNCHANGED <<qrCodeActive, mode, offscreen, vmu, emuVars>>
      /\ render' \in {"poll", "try", "check", "snapshot", "paint", "unlock"}
    BY DEF RenderTask, Look, TryLock, CheckAgain, TakeSnapshot, PaintFront, Unlock
<1>3. Locked'
  <2> USE <1>1, <1>2 DEF Locked
  <2>1. CASE Look
      BY <2>1 DEF Look
  <2>2. CASE TryLock
      BY <2>2 DEF TryLock
  <2>3. CASE CheckAgain
      BY <2>3 DEF CheckAgain, ConsoleOnScreen
  <2>4. CASE TakeSnapshot
      BY <2>4 DEF TakeSnapshot
  <2>5. CASE PaintFront
      BY <2>5 DEF PaintFront
  <2>6. CASE Unlock
      BY <2>6 DEF Unlock
  <2> QED BY <2>1, <2>2, <2>3, <2>4, <2>5, <2>6 DEF RenderTask
<1>4. /\ cursor' = cursor
      /\ \/ UNCHANGED <<dirtyRows, full, snapshot>>
         \/ dirtyRows' = {} /\ full' = FALSE
            /\ snapshot' = [rows |-> dirtyRows, all |-> full, stale |-> {}]
         \/ UNCHANGED <<dirtyRows, full>> /\ snapshot' = NoSnapshot
    BY DEF RenderTask, Look, TryLock, CheckAgain, TakeSnapshot, PaintFront, Unlock, TakeMarks
<1>5. surfaceMutex' \in {"free", "emu", "render"}
    BY <1>1 DEF DisplayTypes, RenderTask, Look, TryLock, CheckAgain, TakeSnapshot, PaintFront,
          Unlock
<1>6. /\ frontBuffer' \in Pictures
      /\ \/ frontBuffer' = frontBuffer
         \/ /\ render = "paint" /\ Whole(frontBuffer', "console")
  <2>1. frontBuffer \in Pictures
      BY <1>1 DEF DisplayTypes
  <2>2. \/ frontBuffer' = frontBuffer
        \/ render = "paint" /\ frontBuffer' = Painted(frontBuffer)
      BY DEF RenderTask, Look, TryLock, CheckAgain, TakeSnapshot, PaintFront, Unlock
  <2> QED BY <1>1, <2>1, <2>2, PaintedWhole
<1>7. DisplayTypes'
  <2>1. /\ dirtyRows' \in SUBSET Row /\ full' \in BOOLEAN /\ (full' = TRUE => dirtyRows' = Row)
        /\ snapshot' \in [rows : SUBSET Row, all : BOOLEAN, stale : SUBSET Row]
    <3>1. PICK D \in SUBSET Row, F \in BOOLEAN :
              dirtyRows = D /\ full = F /\ (F = TRUE => D = Row)
        BY <1>1 DEF DisplayTypes
    <3>2. CASE UNCHANGED <<dirtyRows, full, snapshot>>
        BY <1>1, <3>2 DEF DisplayTypes
    <3>3. CASE /\ dirtyRows' = {} /\ full' = FALSE
               /\ snapshot' = [rows |-> dirtyRows, all |-> full, stale |-> {}]
        BY <3>1, <3>3
    <3>4. CASE UNCHANGED <<dirtyRows, full>> /\ snapshot' = NoSnapshot
        BY <3>1, <3>4 DEF NoSnapshot
    <3> QED BY <1>4, <3>2, <3>3, <3>4
  <2> QED BY <1>1, <1>2, <1>4, <1>5, <1>6, <2>1 DEF DisplayTypes
<1>8. MappedActive'
    BY <1>1, <1>2 DEF MappedActive, MappedFor
<1>9. Placed'
  <2>1. CASE frontBuffer' = frontBuffer
      BY <1>1, <1>2, <2>1 DEF Placed
  <2>2. CASE render = "paint" /\ Whole(frontBuffer', "console")
    <3>1. activeSurface = "console" /\ emu \notin {"load", "switch"}
        BY <1>1, <2>2 DEF Locked, Page
    <3> QED BY <1>1, <1>2, <2>2, <3>1 DEF Placed
  <2> QED BY <1>6, <2>1, <2>2
<1> QED BY <1>3, <1>7, <1>8, <1>9 DEF DisplayInv

\* A step of the emulator task that leaves the pictures and what the screen shows.
LEMMA NothingShown ==
    ASSUME DisplayInv,
           UNCHANGED <<text, qrCodeActive, dispMode, running, buffers, mapped, activeSurface,
                       snapshot, render>>,
           emu \notin {"load", "switch"}, emu' \in EmuPlaces \ {"load", "switch"},
           pendingDispMode' \in {"none", "console", "emu"}, selectedMacSurface' \in Page,
           next' \in Surface, surfaceMutex' \in {"free", "emu", "render"}, Locked'
    PROVE  DisplayInv'
<1>1. DisplayTypes /\ MappedActive /\ Placed
    BY DEF DisplayInv
<1>2. DisplayTypes'
    BY <1>1 DEF DisplayTypes, text, buffers
<1>3. MappedActive'
    BY <1>1 DEF MappedActive, MappedFor
<1>4. Placed'
    BY <1>1 DEF Placed, buffers
<1> QED BY <1>2, <1>3, <1>4 DEF DisplayInv

LEMMA ControlStep ==
    ASSUME DisplayInv,
           \/ FrameStart \/ TakePendingMode \/ LockForConsole \/ LockForMac \/ UnlockSurface
           \/ FrameRest \/ \E p \in Page : SelectMacSurface(p)
    PROVE  DisplayInv'
<1>1. DisplayTypes /\ Locked
    BY DEF DisplayInv
<1>2. /\ pendingDispMode \in {"none", "console", "emu"} /\ selectedMacSurface \in Page
      /\ next \in Surface /\ activeSurface \in Surface
      /\ surfaceMutex \in {"free", "emu", "render"}
    BY <1>1 DEF DisplayTypes
<1>3. Page \subseteq Surface
    BY WholeFacts
<1> USE DEF EmuAt, NotEmu, EmuPlaces, vmu
<1>4. CASE FrameStart \/ FrameRest
  <2>1. Locked'
      BY <1>1, <1>4 DEF Locked, FrameStart, FrameRest
  <2> QED BY <1>2, <1>4, <2>1, NothingShown DEF FrameStart, FrameRest
<1>5. CASE TakePendingMode
  <2>1. emu' \in {"rest", "lock console", "lock mac"}
      BY <1>2, <1>5 DEF TakePendingMode
  <2>2. Locked'
      BY <1>1, <1>5, <2>1 DEF Locked, TakePendingMode
  <2> QED BY <1>2, <1>5, <2>1, <2>2, NothingShown DEF TakePendingMode
<1>6. CASE LockForConsole
  <2>1. Locked'
      BY <1>1, <1>6 DEF Locked, LockForConsole
  <2> QED BY <1>2, <1>6, <2>1, NothingShown DEF LockForConsole
<1>7. CASE LockForMac
  <2>1. Locked'
      BY <1>1, <1>7 DEF Locked, LockForMac
  <2> QED BY <1>2, <1>3, <1>7, <2>1, NothingShown DEF LockForMac
<1>8. CASE UnlockSurface
  <2>1. Locked'
      BY <1>1, <1>8 DEF Locked, UnlockSurface
  <2> QED BY <1>2, <1>8, <2>1, NothingShown DEF UnlockSurface
<1>9. CASE \E p \in Page : SelectMacSurface(p)
  <2>1. PICK p \in Page : SelectMacSurface(p)
      BY <1>9
  <2>2. CASE activeSurface = "console" \/ p = activeSurface
    <3>1. surfaceMutex # "emu" /\ emu' = "guest" /\ next' = next
        BY <1>1, <2>1, <2>2 DEF SelectMacSurface, Activate, Locked
    <3>2. Locked'
        BY <1>1, <2>1, <3>1 DEF Locked, SelectMacSurface
    <3> QED BY <1>2, <2>1, <3>1, <3>2, NothingShown DEF SelectMacSurface
  <2>3. CASE activeSurface # "console" /\ p # activeSurface
    <3>1. emu' = "save" /\ next' = p /\ {activeSurface, p} \subseteq Page
        BY <1>2, <2>1, <2>3, WholeFacts DEF SelectMacSurface, Activate
    <3>2. Locked'
        BY <1>1, <2>1, <2>3, <3>1 DEF Locked, SelectMacSurface
    <3> QED BY <1>2, <1>3, <2>1, <3>1, <3>2, NothingShown DEF SelectMacSurface
  <2> QED BY <2>2, <2>3
<1> QED BY <1>4, <1>5, <1>6, <1>7, <1>8, <1>9

LEMMA GuestWriteStep ==
    ASSUME DisplayInv, NEW page \in Page, GuestWrite(page)
    PROVE  DisplayInv'
<1>1. DisplayTypes /\ MappedActive /\ Locked /\ Placed
    BY DEF DisplayInv
<1> DEFINE Lacks(x) == IF x.of = page THEN MacPicture(page, FALSE) ELSE x
           whole    == MacPicture(page, TRUE)
<1>2. /\ emu = "guest" /\ emu' = "guest" /\ page \in Surface
      /\ UNCHANGED <<text, qrCodeActive, mode, vmu, surfaceMutex, running, next, render, snapshot>>
    BY WholeFacts DEF GuestWrite, EmuAt, NotEmu, mode
<1>3. /\ frontBuffer \in Pictures /\ offscreen \in [Surface -> Pictures]
      /\ activeSurface \in Surface
      /\ \A x \in Pictures : Lacks(x) \in Pictures
      /\ \A x, s : Whole(x, s) /\ s # page => Lacks(x) = x
      /\ whole \in Pictures /\ Whole(whole, page)
    BY <1>1, WholeFacts DEF DisplayTypes, Whole
<1>4. mapped[page] = "front" <=> page = activeSurface
    BY <1>1 DEF MappedActive, MappedFor
<1>5. /\ frontBuffer' = IF page = activeSurface THEN whole ELSE Lacks(frontBuffer)
      /\ offscreen' = [s \in Surface |-> IF s = page /\ page # activeSurface THEN whole
                                         ELSE Lacks(offscreen[s])]
    BY <1>4 DEF GuestWrite
<1> HIDE DEF Lacks, whole
<1>6. frontBuffer' \in Pictures /\ offscreen' \in [Surface -> Pictures]
    BY <1>3, <1>5
<1>7. DisplayTypes'
    BY <1>1, <1>2, <1>6 DEF DisplayTypes, text, mode, vmu
<1>8. MappedActive' /\ Locked'
    BY <1>1, <1>2 DEF MappedActive, MappedFor, Locked, vmu
<1>9. Placed'
  <2>1. Whole(frontBuffer, activeSurface)
        /\ \A s \in Surface : s # activeSurface => Whole(offscreen[s], s)
      BY <1>1, <1>2 DEF Placed
  <2>2. Whole(frontBuffer', activeSurface)
      BY <1>3, <1>5, <2>1
  <2>3. \A s \in Surface : s # activeSurface => Whole(offscreen'[s], s)
      BY <1>3, <1>5, <2>1
  <2> QED BY <1>2, <2>2, <2>3 DEF Placed, vmu
<1> QED BY <1>7, <1>8, <1>9 DEF DisplayInv

LEMMA SwitchStep ==
    ASSUME DisplayInv, SaveActive \/ LoadNext \/ SwitchSurface
    PROVE  DisplayInv'
<1>1. DisplayTypes /\ MappedActive /\ Locked /\ Placed
    BY DEF DisplayInv
<1>2. /\ frontBuffer \in Pictures /\ offscreen \in [Surface -> Pictures]
      /\ activeSurface \in Surface /\ next \in Surface
      /\ surfaceMutex \in {"free", "emu", "render"} /\ Forgotten \in Pictures
    BY <1>1, WholeFacts DEF DisplayTypes
<1> USE DEF EmuAt, NotEmu, EmuPlaces, text, vmu
<1>3. CASE SaveActive
  <2>1. offscreen' \in [Surface -> Pictures]
      BY <1>2, <1>3 DEF SaveActive
  <2>2. DisplayTypes'
      BY <1>1, <1>3, <2>1 DEF DisplayTypes, SaveActive
  <2>3. MappedActive' /\ Locked'
      BY <1>1, <1>3 DEF MappedActive, MappedFor, Locked, SaveActive
  <2>4. Placed'
      BY <1>1, <1>2, <1>3 DEF Placed, SaveActive
  <2> QED BY <2>2, <2>3, <2>4 DEF DisplayInv
<1>4. CASE LoadNext
  <2>1. frontBuffer' \in Pictures
      BY <1>2, <1>4 DEF LoadNext
  <2>2. DisplayTypes'
      BY <1>1, <1>4, <2>1 DEF DisplayTypes, LoadNext
  <2>3. MappedActive' /\ Locked'
      BY <1>1, <1>4 DEF MappedActive, MappedFor, Locked, LoadNext
  <2>4. Placed'
      BY <1>1, <1>2, <1>4 DEF Placed, LoadNext
  <2> QED BY <2>2, <2>3, <2>4 DEF DisplayInv
<1>5. CASE SwitchSurface
  <2>1. offscreen' \in [Surface -> Pictures] /\ emu' \in {"unlock", "guest"}
      BY <1>2, <1>5 DEF SwitchSurface
  <2>2. DisplayTypes'
      BY <1>1, <1>2, <1>5, <2>1 DEF DisplayTypes, SwitchSurface
  <2>3. MappedActive'
      BY <1>5 DEF MappedActive, MappedFor, SwitchSurface
  <2>4. Locked'
    <3>1. render' \in {"snapshot", "paint"} => activeSurface' = "console"
        BY <1>1, <1>5, WholeFacts DEF Locked, SwitchSurface
    <3> QED BY <1>1, <1>5, <3>1 DEF Locked, SwitchSurface
  <2>5. Placed'
      BY <1>1, <1>2, <1>5, <2>1 DEF Placed, SwitchSurface
  <2> QED BY <2>2, <2>3, <2>4, <2>5 DEF DisplayInv
<1> QED BY <1>3, <1>4, <1>5

LEMMA OffscreenStep ==
    ASSUME DisplayInv, SnapshotOffscreen \/ PaintOffscreen
    PROVE  DisplayInv'
<1>1. DisplayTypes /\ MappedActive /\ Locked /\ Placed
    BY DEF DisplayInv
<1>2. /\ frontBuffer \in Pictures /\ offscreen \in [Surface -> Pictures]
      /\ surfaceMutex = "emu" /\ activeSurface # "console"
    BY <1>1 DEF DisplayTypes, Locked, SnapshotOffscreen, PaintOffscreen, EmuAt
<1> USE DEF EmuAt, NotEmu, EmuPlaces, text, vmu
<1>3. CASE SnapshotOffscreen
  <2>1. PICK D \in SUBSET Row, F \in BOOLEAN : dirtyRows = D /\ full = F
      BY <1>1 DEF DisplayTypes
  <2>2. /\ dirtyRows' = {} /\ full' = FALSE /\ cursor' = cursor
        /\ snapshot' = [rows |-> D, all |-> F, stale |-> {}]
      BY <1>3, <2>1 DEF SnapshotOffscreen, TakeMarks
  <2>3. snapshot' \in [rows : SUBSET Row, all : BOOLEAN, stale : SUBSET Row]
      BY <2>2
  <2>4. DisplayTypes'
      BY <1>1, <1>3, <2>2, <2>3 DEF DisplayTypes, SnapshotOffscreen, buffers
  <2>5. MappedActive' /\ Locked' /\ Placed'
      BY <1>1, <1>3 DEF MappedActive, MappedFor, Locked, Placed, SnapshotOffscreen, buffers
  <2> QED BY <2>4, <2>5 DEF DisplayInv
<1>4. CASE PaintOffscreen
  <2>1. "console" \in Surface
      BY DEF Surface
  <2>2. PICK drawn : /\ drawn = Painted(offscreen["console"])
                     /\ drawn \in Pictures /\ Whole(drawn, "console")
      BY <1>1, <1>2, <2>1, PaintedWhole
  <2>3. offscreen' = [offscreen EXCEPT !["console"] = drawn]
      BY <1>4, <2>2 DEF PaintOffscreen
  <2>4. offscreen' \in [Surface -> Pictures]
      BY <1>2, <2>2, <2>3
  <2>5. snapshot' \in [rows : SUBSET Row, all : BOOLEAN, stale : SUBSET Row]
      BY <1>4 DEF PaintOffscreen, NoSnapshot
  <2>6. DisplayTypes'
      BY <1>1, <1>4, <2>1, <2>4, <2>5 DEF DisplayTypes, PaintOffscreen
  <2>7. MappedActive'
      BY <1>1, <1>4 DEF MappedActive, MappedFor, PaintOffscreen
  <2>8. Locked'
      BY <1>1, <1>2, <1>4 DEF Locked, PaintOffscreen
  <2>9. Placed'
      BY <1>1, <1>2, <1>4, <2>2, <2>3 DEF Placed, PaintOffscreen
  <2> QED BY <2>6, <2>7, <2>8, <2>9 DEF DisplayInv
<1> QED BY <1>3, <1>4

THEOREM DisplayInvHolds == Spec => []DisplayInv
<1> USE DisplayAssumption
<1>1. Init => DisplayInv
    BY DisplayInvInit
<1>2. DisplayInv /\ [Next]_vars => DisplayInv'
  <2> SUFFICES ASSUME DisplayInv, [Next]_vars PROVE DisplayInv'
      OBVIOUS
  <2>1. CASE RenderTask
      BY <2>1, RenderStep
  <2>2. CASE EmulatorTask
      BY <2>2, ControlStep, GuestWriteStep, SwitchStep, OffscreenStep DEF EmulatorTask, FrameEnd
  <2>3. CASE PauseOrRun \/ UNCHANGED vars
    <3>1. running' \in BOOLEAN
        BY <2>3 DEF PauseOrRun, vars, emuVars, DisplayInv, DisplayTypes
    <3> QED BY <2>3, <3>1, NothingSwitched
            DEF PauseOrRun, vars, emuVars, text, mode, DisplayInv, DisplayTypes
  <2>4. CASE \E c \in Callers : Return(c) \/ Call(c)
      BY <2>4, CallerStep
  <2> QED BY <2>1, <2>2, <2>3, <2>4 DEF Next
<1> QED BY <1>1, <1>2, PTL DEF Spec

(* No surface is lost or drawn over (tme/vmu.c): whatever the callers ask  *)
(* for and print, whichever page the guest selects, however the render     *)
(* task's drawing falls between the steps of a switch, outside a switch    *)
(* each page is, in the buffer the MMU has for it, what the guest wrote    *)
(* last, and the console's picture is where it is looked for.              *)
THEOREM SurfacesAreKept == Spec => []SurfacesKept
<1>1. DisplayInv => SurfacesKept
  <2> SUFFICES ASSUME DisplayInv PROVE SurfacesKept
      OBVIOUS
  <2>1. DisplayTypes /\ MappedActive /\ Placed /\ Locked
      BY DEF DisplayInv
  <2>2. mapped \in [Page -> {"front", "off"}]
      BY <2>1 DEF MappedActive, MappedFor
  <2>3. DisplayTypeOK
      BY <2>1, <2>2 DEF DisplayTypes, DisplayTypeOK, Pictures
  <2>4. ASSUME emu \notin {"save", "load", "switch"}
        PROVE  /\ \A p \in Page : BufferOf(p) = MacPicture(p, TRUE)
               /\ ConsoleBuffer.of = "console"
    <3>1. Whole(frontBuffer, activeSurface)
          /\ \A s \in Surface : s # activeSurface => Whole(offscreen[s], s)
        BY <2>1, <2>4 DEF Placed
    <3>2. ASSUME NEW p \in Page PROVE BufferOf(p) = MacPicture(p, TRUE)
        BY <2>1, <3>1, WholeFacts DEF BufferOf, MappedActive, MappedFor, Whole
    <3>3. ConsoleBuffer.of = "console"
        BY <3>1, WholeFacts DEF ConsoleBuffer, Whole, Surface
    <3> QED BY <3>2, <3>3
  <2> QED BY <2>3, <2>4 DEF SurfacesKept
<1> QED BY <1>1, DisplayInvHolds, PTL
=============================================================================
