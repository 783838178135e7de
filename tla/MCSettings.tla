----------------------------- MODULE MCSettings -----------------------------
(* Three keys: an image and the two of the Wi-Fi.  One task at a time with *)
(* every failure and power loss, and the menu with a shell that reloads.   *)
EXTENDS Settings

MCKeyOrder == <<"ssid", "password", "fd0">>
MCWifiKeys == <<"ssid", "password">>
MCLineOrder == <<"ssid", "password", "fd0">>
MCPositional == <<"server", "ssid", "password">>

\* 3 is 1 with a blank behind it or a comment; 4 is a line over 159 characters, held
\* and read as 2, with a 1 behind the 159th.
MCCut  == [v \in Vals \cup {Default} |-> IF v = 4 THEN 2 ELSE v]
MCRead == [v \in Vals \cup {Default} |-> CASE v = 3 -> 1 [] v = 4 -> 2 [] OTHER -> v]
MCRest == [v \in Vals \cup {Default} |-> IF v = 4 THEN [key |-> "next", val |-> 1] ELSE NoRest]

World(tasks, overlap, faults, most, power) ==
    [tasks |-> tasks, overlap |-> overlap, faults |-> faults, most |-> most, power |-> power,
     vals |-> {1, 2}, joins |-> FALSE]
Calls == {"output", "close", "rename"}

\* The last two are not Sound: the old file cannot be opened, or neither the new
\* file nor the backup gets its name.
OneTask     == {World({t}, FALSE, Calls, 1, TRUE) : t \in Tasks}
NoInput     == {World({"http"}, FALSE, {"input"}, 1, FALSE)}
NoWayBack   == {World({"http"}, FALSE, {"rename"}, 2, FALSE)}
OddValues   == {[World({"http"}, FALSE, {}, 0, TRUE) EXCEPT !.vals = {3, 4}]}
Joins       == {[World({t}, FALSE, Calls, 1, TRUE) EXCEPT !.joins = TRUE, !.vals = {1}] : t \in {"http", "shell"}}
PassWorlds  == OneTask \cup NoInput \cup NoWayBack \cup OddValues \cup Joins
RaceWorlds  == {World({"menu", "shell"}, TRUE, {}, 0, FALSE)}
PageWorlds  == {World({"menu", "http"}, FALSE, {}, 0, FALSE)}
PowerWorlds == {World({"menu"}, FALSE, {}, 0, TRUE)}

\* The page shows what the next boot loads, whatever is entered and joined.
PageIsTheBoots ==
    Sound /\ world.tasks = {"http"} /\ pc["http"] = "idle"
        => sSettings = Loaded(files.setting)
=============================================================================
