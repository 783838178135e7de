------------------------------ MODULE Settings ------------------------------
(***************************************************************************)
(* The settings file (app_settings.cpp) and the tasks that change it: the  *)
(* settings page of the web server, the storage menu and the console       *)
(* shell.  A save copies /sd/setting.txt to /sd/setting.tmp with one value *)
(* changed and puts it in place through /sd/setting.bak; nothing locks the *)
(* three names.                                                            *)
(*                                                                         *)
(* The FAT file system (external): rename fails when the new name exists,  *)
(* a file opened for reading keeps the contents it had, and closing a file *)
(* whose name another task has renamed away changes no named file.         *)
(***************************************************************************)
EXTENDS Integers, Sequences, FiniteSets

CONSTANTS
    Keys,       \* the keys of setting.txt
    KeyOrder,   \* the order settingsPostHandler saves them in
    LineOrder,  \* the keys in the order of their lines
    Positional, \* what a line without '=' sets: the first, second and third one
    Vals,       \* the values a user may enter
    Cut,        \* what a field of AppSettings holds of a value
    Read,       \* what the loader makes of a value: trimmed, without a comment, cut
    Rest,       \* what it makes of the rest of a line over 159 characters, if any
    Bad,        \* a value with a line break, which no save accepts
    Default,    \* the value of writeDefaultSettingsFile
    Missing,    \* no file of that name
    ImageKeys,  \* the keys the storage menu saves
    WifiKeys,   \* the two keys "set wifi" saves, in order
    Worlds,     \* which tasks run, whether at the same time, what may fail, how
                \* many calls of one save, whether power may go, what users enter,
                \* whether a network of the Wi-Fi list may answer
    MaxJobs     \* bound: requests in a behaviour

Tasks   == {"http", "menu", "shell"}
Absent  == -1   \* a key the file does not have

Contents == [Keys -> Vals \cup {Default, Absent}]
WifiSet  == {WifiKeys[i] : i \in DOMAIN WifiKeys}
NoRest   == [key |-> "none", val |-> Default]

\* Values that the form, the file and the loader all hold as they are.
Plain == {v \in Vals \cup {Default} : Cut[v] = v /\ Read[v] = v /\ Rest[v] = NoRest}

ASSUME SettingsAssumption ==
    /\ Vals \subseteq Nat /\ Default \in Nat /\ Bad \notin Vals /\ Bad \in Int
    /\ {KeyOrder, WifiKeys} \subseteq Seq(Keys) \ {<<>>} /\ ImageKeys \subseteq Keys
    /\ LineOrder \in Seq(Keys) /\ \A k \in Keys : \E i \in DOMAIN LineOrder : LineOrder[i] = k
    /\ {Cut, Read} \subseteq [Vals \cup {Default} -> Vals \cup {Default}]
    /\ Rest \in [Vals \cup {Default} ->
                  [key : Keys \cup {"next"}, val : Vals \cup {Default}] \cup {NoRest}]
    /\ Default \in Plain
    /\ Missing \notin Contents /\ MaxJobs \in Nat
    /\ \A w \in Worlds : /\ w.tasks \subseteq Tasks /\ {w.power, w.overlap} \subseteq BOOLEAN
                         /\ w.faults \subseteq {"input", "output", "close", "rename"}
                         /\ w.most \in Nat /\ w.vals \subseteq Vals /\ w.joins \in BOOLEAN

VARIABLES
    world,      \* the world of this behaviour
    files,      \* the three names: a file's contents, or Missing
    sSettings,  \* http_server.cpp: what the settings page shows
    menu,       \* the values the storage menu has read
    todo,       \* task -> the saves still to make: key, value, whether it is a
                \* change, and what it is a part of
    pc,         \* task -> where it is in saveSettingValue
    input,      \* task -> the contents it copies, or Missing
    before,     \* task -> setting.txt when its save began
    network,    \* the network of the list that is being joined
    strays,     \* the keys it has changed since the settings were loaded
    chosen,     \* key -> the value it was last changed to
    jobs,       \* requests so far, for the bound
    fails       \* calls of a save that have failed, for the bound

settingsVars == <<world, files, sSettings, menu, todo, pc, input, before, network,
                  strays, chosen, jobs, fails>>

Defaults == [k \in Keys |-> Default]
Empty    == [k \in Keys |-> Absent]

NoNetwork == [k \in WifiSet |-> Default]

\* A line over 159 characters is read as two.  What its rest sets: the key it names
\* or, without a '=', the next one of the positional layout.
LineOf(k) == CHOOSE i \in DOMAIN LineOrder : LineOrder[i] = k
Long(c)   == {k \in Keys : c[k] # Absent /\ Rest[c[k]] # NoRest}
RestSets(c, j) ==
    IF Rest[c[j]].key # "next" THEN Rest[c[j]].key
    ELSE LET n == Cardinality({i \in Long(c) : /\ Rest[c[i]].key = "next"
                                               /\ LineOf(i) <= LineOf(j)})
         IN  IF n <= Len(Positional) THEN Positional[n] ELSE "none"
Setters(c, k) ==
    {j \in Long(c) : RestSets(c, j) = k /\ (c[k] # Absent => LineOf(k) <= LineOf(j))}

\* loadSettingsFromSd: the defaults, overridden by what the file has, the last
\* line of a key being the one that counts.
Loaded(contents) ==
    [k \in Keys |->
        IF contents = Missing THEN Default
        ELSE IF Setters(contents, k) # {}
        THEN LET last == CHOOSE j \in Setters(contents, k) :
                            \A i \in Setters(contents, k) : LineOf(i) <= LineOf(j)
             IN  Rest[contents[last]].val
        ELSE IF contents[k] = Absent THEN Default ELSE Read[contents[k]]]

\* appEnsureSdBootstrapFiles: a missing settings file is written anew.
Bootstrapped(fs) ==
    IF fs.setting = Missing THEN [fs EXCEPT !.setting = Defaults] ELSE fs

SettingsInit ==
    /\ world \in Worlds
    /\ files = [setting |-> Defaults, tmp |-> Missing, bak |-> Missing]
    /\ sSettings = Defaults /\ menu = Defaults /\ chosen = Defaults
    /\ todo = [t \in Tasks |-> <<>>] /\ pc = [t \in Tasks |-> "idle"]
    /\ input = [t \in Tasks |-> Missing] /\ before = [t \in Tasks |-> Missing]
    /\ network = NoNetwork /\ strays = {} /\ jobs = 0 /\ fails = 0
----------------------------------------------------------------------------
(* saveSettingValue, one action per call that changes the card.            *)

At(t, from, to) == pc[t] = from /\ pc' = [pc EXCEPT ![t] = to]
Key(t)  == Head(todo[t]).key
Val(t)  == Head(todo[t]).val
Part(t) == Head(todo[t]).part

MayFail(fault) == fault \in world.faults /\ fails < world.most
Works == UNCHANGED fails
Fails(fault) == MayFail(fault) /\ fails' = fails + 1

Quiet == UNCHANGED <<world, sSettings, menu, todo, network, strays, chosen, jobs>>

\* Mistake: any value is accepted.
AcceptsAll(v) == TRUE

\* A value with a line break is refused.
Accepts(v) == v # Bad

Refuse(t) ==
    /\ pc[t] = "save" /\ ~Accepts(Val(t))
    /\ pc' = [pc EXCEPT ![t] = "failed"] /\ before' = [before EXCEPT ![t] = files.setting]
    /\ UNCHANGED <<files, input, fails>> /\ Quiet

OpenInput(t) ==
    /\ At(t, "save", "output") /\ Accepts(Val(t))
    /\ before' = [before EXCEPT ![t] = files.setting]
    /\ \/ Works /\ input' = [input EXCEPT ![t] = files.setting]
       \/ Fails("input") /\ input' = [input EXCEPT ![t] = Missing]
    /\ UNCHANGED files /\ Quiet

\* fopen("w") empties an existing file.
OpenOutput(t) ==
    /\ pc[t] = "output" /\ UNCHANGED <<input, before>> /\ Quiet
    /\ \/ /\ Works /\ files' = [files EXCEPT !.tmp = Empty]
          /\ pc' = [pc EXCEPT ![t] = "close"]
       \/ Fails("output") /\ UNCHANGED files /\ pc' = [pc EXCEPT ![t] = "failed"]

\* The copy: every line but the key's, which is replaced or added.
Copied(t) ==
    [(IF input[t] = Missing THEN Empty ELSE input[t]) EXCEPT ![Key(t)] = Val(t)]

CloseOutput(t) ==
    /\ pc[t] = "close" /\ UNCHANGED <<input, before>> /\ Quiet
    /\ \/ /\ Works /\ pc' = [pc EXCEPT ![t] = "unbackup"]
          /\ files' = IF files.tmp = Missing THEN files ELSE [files EXCEPT !.tmp = Copied(t)]
       \/ /\ Fails("close") /\ pc' = [pc EXCEPT ![t] = "failed"]
          /\ files' = [files EXCEPT !.tmp = Missing]

RemoveOldBackup(t) ==
    /\ At(t, "unbackup", "backup") /\ files' = [files EXCEPT !.bak = Missing]
    /\ UNCHANGED <<input, before, fails>> /\ Quiet

CanRename(fs, from, to) == fs[from] # Missing /\ fs[to] = Missing
Renamed(fs, from, to)   == [fs EXCEPT ![to] = fs[from], ![from] = Missing]

\* Mistake: the old file is removed, not kept as the backup.
BackupRemoves(t) ==
    /\ At(t, "backup", "place") /\ files' = [files EXCEPT !.setting = Missing]
    /\ UNCHANGED <<input, before, fails>> /\ Quiet

\* A failing rename is accepted when there was no file to copy.
Backup(t) ==
    /\ pc[t] = "backup" /\ UNCHANGED <<input, before>> /\ Quiet
    /\ \/ /\ Works /\ CanRename(files, "setting", "bak")
          /\ files' = Renamed(files, "setting", "bak") /\ pc' = [pc EXCEPT ![t] = "place"]
       \/ /\ \/ Works /\ ~CanRename(files, "setting", "bak")
             \/ Fails("rename")
          /\ IF input[t] = Missing
             THEN UNCHANGED files /\ pc' = [pc EXCEPT ![t] = "place"]
             ELSE /\ files' = [files EXCEPT !.tmp = Missing]
                  /\ pc' = [pc EXCEPT ![t] = "failed"]

\* Mistake: the backup is not put back.
PlaceNoRollback(t) ==
    /\ pc[t] = "place" /\ UNCHANGED <<input, before>> /\ Quiet
    /\ \/ /\ Works /\ CanRename(files, "tmp", "setting")
          /\ files' = Renamed(files, "tmp", "setting") /\ pc' = [pc EXCEPT ![t] = "clean"]
       \/ /\ (Works /\ ~CanRename(files, "tmp", "setting")) \/ Fails("rename")
          /\ UNCHANGED files /\ pc' = [pc EXCEPT ![t] = "failed"]

\* The new file takes the name; if it cannot, the backup takes it back, unless
\* that fails as well.
Place(t) ==
    /\ pc[t] = "place" /\ UNCHANGED <<input, before>> /\ Quiet
    /\ \/ /\ Works /\ CanRename(files, "tmp", "setting")
          /\ files' = Renamed(files, "tmp", "setting") /\ pc' = [pc EXCEPT ![t] = "clean"]
       \/ /\ (Works /\ ~CanRename(files, "tmp", "setting")) \/ Fails("rename")
          /\ files' = IF CanRename(files, "bak", "setting")
                      THEN Renamed(files, "bak", "setting") ELSE files
          /\ pc' = [pc EXCEPT ![t] = "failed"]
       \/ /\ "rename" \in world.faults
          /\ fails' = fails + (IF CanRename(files, "tmp", "setting") THEN 2 ELSE 1)
          /\ fails' <= world.most
          /\ UNCHANGED files /\ pc' = [pc EXCEPT ![t] = "failed"]

Clean(t) ==
    /\ At(t, "clean", "saved") /\ files' = [files EXCEPT !.bak = Missing]
    /\ UNCHANGED <<input, before, fails>> /\ Quiet

Save(t) == \/ Refuse(t) \/ OpenInput(t) \/ OpenOutput(t) \/ CloseOutput(t)
           \/ RemoveOldBackup(t) \/ Backup(t) \/ Place(t) \/ Clean(t)
----------------------------------------------------------------------------
(* The callers: each runs its saves one after another.                     *)

Idle(t) == /\ t \in world.tasks /\ pc[t] = "idle" /\ jobs < MaxJobs
           /\ world.overlap \/ \A u \in Tasks : pc[u] = "idle"
Change(k, v, part) == [key |-> k, val |-> v, change |-> TRUE, part |-> part]
Begin(t, saves) ==
    /\ todo' = [todo EXCEPT ![t] = saves] /\ pc' = [pc EXCEPT ![t] = "save"]
    /\ jobs' = jobs + 1 /\ fails' = 0
    /\ UNCHANGED <<world, input, before, network, strays, chosen>>

\* settingsPostHandler: the page posts every field it was given, with the
\* one the user has changed.
PostSettings ==
    /\ Idle("http")
    /\ \E k \in Keys, v \in world.vals \cup {Bad} :
          LET form == [sSettings EXCEPT ![k] = v]
          IN  /\ form # sSettings
              /\ Begin("http", [i \in DOMAIN KeyOrder |->
                                  [key |-> KeyOrder[i], val |-> form[KeyOrder[i]],
                                   change |-> KeyOrder[i] = k, part |-> "form"]])
    /\ UNCHANGED <<files, sSettings, menu>>

\* runtimeMenuTask and selectImage: the menu reads the file when it opens
\* and saves a selection that differs from what it has read.
SelectImage ==
    /\ Idle("menu")
    /\ \E k \in ImageKeys, v \in world.vals :
          /\ Loaded(files.setting)[k] # v
          /\ menu' = [Loaded(files.setting) EXCEPT ![k] = v]
          /\ Begin("menu", <<Change(k, v, "menu")>>)
    /\ UNCHANGED <<files, sSettings>>

\* "set wifi" of the shell.
SetWifi ==
    /\ Idle("shell")
    /\ files' = Bootstrapped(files)
    /\ \E v \in world.vals :
          Begin("shell", [i \in DOMAIN WifiKeys |-> Change(WifiKeys[i], v, "set")])
    /\ UNCHANGED <<sSettings, menu>>

\* connectWifiCandidate saves the network of the list that has answered, if it is
\* another one than the settings have.
Answers ==
    {n \in [WifiSet -> {Cut[v] : v \in world.vals}] : \E k \in WifiSet : n[k] # sSettings'[k]}
Join(n) == [i \in DOMAIN WifiKeys |-> Change(WifiKeys[i], n[WifiKeys[i]], "join")]

\* macHttpNetworkStart and macHttpReconnectWifi, called by t: they hand the loaded
\* settings to the web server and connect.  The tasks of rest go on.
Connected(t, rest) ==
    /\ sSettings' = Loaded(files'.setting) /\ fails' = 0
    /\ UNCHANGED <<world, input, before, chosen>>
    /\ \/ /\ network' = NoNetwork /\ strays' = {}
          /\ todo' = [u \in Tasks |-> IF u \in rest \ {t} THEN todo[u] ELSE <<>>]
          /\ pc' = [u \in Tasks |-> IF u \in rest \ {t} THEN pc[u] ELSE "idle"]
       \/ /\ world.joins /\ t \in world.tasks /\ strays' = WifiSet
          /\ \E n \in Answers :
                /\ network' = n
                /\ todo' = [u \in Tasks |-> IF u = t THEN Join(n)
                                            ELSE IF u \in rest THEN todo[u] ELSE <<>>]
          /\ pc' = [u \in Tasks |-> IF u = t THEN "save"
                                    ELSE IF u \in rest THEN pc[u] ELSE "idle"]

\* "connect wifi" of the shell.
ConnectWifi ==
    /\ Idle("shell") /\ jobs' = jobs + 1 /\ UNCHANGED menu
    /\ files' = Bootstrapped(files) /\ Connected("shell", Tasks)

\* Mistake: the web server's copy follows the form, whatever the save says.
HeldRegardless(t) ==
    {IF Part(t) = "form" /\ Val(t) # Bad
     THEN [sSettings EXCEPT ![Key(t)] = Cut[Val(t)]] ELSE sSettings}

\* What the web server holds after a save: the form's value when it worked; after
\* the last one of a join the network, whatever the saves returned.  At the boot
\* macHttpServerStart hands it the settings of the boot once more, except where it
\* is itself the first to start the network, for want of a ROM.
Held(t) ==
    LET joined == [k \in Keys |-> IF k \in WifiSet THEN network[k] ELSE sSettings[k]]
    IN  IF Part(t) = "join" /\ Tail(todo[t]) = <<>>
        THEN IF t = "shell" THEN {joined} ELSE {joined, sSettings}
        ELSE IF Part(t) = "form" /\ pc[t] = "saved"
        THEN {[sSettings EXCEPT ![Key(t)] = Cut[Val(t)]]} ELSE {sSettings}

\* The end of one save; "set wifi" goes no further after one that failed.
NextSave(t) ==
    /\ pc[t] \in {"saved", "failed"} /\ sSettings' \in Held(t)
    /\ todo' = [todo EXCEPT ![t] =
                  IF Part(t) = "set" /\ pc[t] = "failed" THEN <<>> ELSE Tail(@)]
    /\ pc' = [pc EXCEPT ![t] = IF todo'[t] = <<>> THEN "idle" ELSE "save"] /\ fails' = 0
    /\ chosen' = IF Head(todo[t]).change /\ pc[t] = "saved"
                 THEN [chosen EXCEPT ![Key(t)] = Val(t)] ELSE chosen
    /\ strays' = IF Part(t) = "form" /\ pc[t] = "saved" THEN strays \ {Key(t)} ELSE strays
    /\ network' = IF Part(t) = "join" /\ todo'[t] = <<>> THEN NoNetwork ELSE network
    /\ UNCHANGED <<world, files, menu, input, before, jobs>>

\* The power goes and the machine boots: bootstrap, load, connect; a join by the web
\* server is over before the first request.
PowerLoss ==
    /\ world.power /\ \E t \in Tasks : pc[t] # "idle"
    /\ files' = Bootstrapped(files) /\ menu' = Defaults /\ UNCHANGED jobs
    /\ Connected("http", {})

SettingsNext ==
    \/ \E t \in Tasks : Save(t) \/ NextSave(t)
    \/ PostSettings \/ SelectImage \/ SetWifi \/ ConnectWifi \/ PowerLoss

SettingsSpec == SettingsInit /\ [][SettingsNext]_settingsVars
----------------------------------------------------------------------------
(* The names, the tasks' copies and the web server's copy keep their types *)
(* through every failing call and power loss (app_settings.cpp:361-419).   *)
SettingsTypeOK ==
    /\ \A f \in {"setting", "tmp", "bak"} : files[f] \in Contents \cup {Missing}
    /\ sSettings \in Contents /\ menu \in Contents
    /\ \A t \in Tasks :
        /\ input[t] \in Contents \cup {Missing} /\ before[t] \in Contents \cup {Missing}
        /\ pc[t] \in {"idle", "save", "output", "close", "unbackup", "backup", "place",
                      "clean", "saved", "failed"}
        /\ (pc[t] = "idle") <=> (todo[t] = <<>>)

\* One task saves at a time, the file it copies can be opened, and of the calls
\* of a save at most one fails: the way back from a failed rename is open.
Sound == /\ \A t, u \in world.tasks : t = u
         /\ "input" \notin world.faults /\ world.most <= 1
After(t) == [before[t] EXCEPT ![Key(t)] = Val(t)]

(* A save that reports success has changed the one value and no other, and *)
(* one that reports failure has changed nothing, whichever call failed     *)
(* (app_settings.cpp:408-418: the temporary file and the way back).        *)
SaveIsExact ==
    Sound => \A t \in world.tasks :
                /\ pc[t] = "saved" => files.setting = After(t)
                /\ pc[t] = "failed" => files.setting = before[t]

(* At every moment of a save either setting.txt is whole, as it was or as  *)
(* it will be, or it is gone and setting.bak holds what it was: a power    *)
(* loss finds every setting on the card.                                   *)
WholeAtAnyMoment ==
    /\ SettingsTypeOK
    /\ Sound => \A t \in world.tasks :
                  pc[t] \notin {"idle", "save"} =>
                      \/ files.setting \in {before[t], After(t)}
                      \/ files.setting = Missing /\ files.bak = before[t]

(* When no request is running, the settings page shows what the next boot  *)
(* will load, though a save of the form may have failed or been refused    *)
(* between others that worked (http_server.cpp:1403-1418).  For values     *)
(* that the loader reads back as they are entered, and but for the keys of *)
(* a network of the list that was joined, until the form saves them.       *)
PageMatchesFile ==
    /\ Sound /\ world.tasks = {"http"} /\ world.vals \subseteq Plain /\ pc["http"] = "idle"
    => \A k \in Keys \ strays : sSettings[k] = Loaded(files.setting)[k]

(* What was changed and saved stays until it is changed again:             *)
(* "Persist one storage image selection while preserving other settings."  *)
(* (app_settings.h).  The copy that one task's save makes of setting.txt   *)
(* must not undo another's, and the page must not post what the menu has   *)
(* changed since.                                                          *)
ChoicesKept ==
    (\A t \in Tasks : pc[t] = "idle") => Loaded(files.setting) = chosen

(* A power loss within a save leaves the boot with the settings before the *)
(* save or the ones after it (app_settings.cpp:361-419, 119-122).          *)
BootKeepsSettings ==
    [][PowerLoss => \/ files'.setting = files.setting
                    \/ \E t \in world.tasks : /\ pc[t] # "idle"
                                              /\ files'.setting \in {before[t], After(t)}]_settingsVars
=============================================================================
