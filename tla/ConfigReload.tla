---------------------------- MODULE ConfigReload ----------------------------
(***************************************************************************)
(* How a change of the configuration file comes into force: the goroutines *)
(* of server/server.go that call reloadConfig.  handleSighupReload does so *)
(* for each signal, one after the other; watchConfigFile arms a timer at   *)
(* each event of the file, and each time it fires a goroutine of its own   *)
(* reloads.  Nothing keeps these apart: one may read the file, another     *)
(* read a newer one and store it, and the first store its older one last.  *)
(* ControlPlane, which looks at the sessions, takes a reload as one step.  *)
(*                                                                         *)
(* The file has versions 0, 1, ..., each either a valid configuration or   *)
(* not, like a file that is being written.  Its events are those of        *)
(* fsnotify for a watched file, used as watchConfigFile uses them.         *)
(***************************************************************************)
EXTENDS Integers, FiniteSets

CONSTANTS
    MaxVersion,   \* bound: changes of the file
    Callbacks,    \* bound: the timer goroutines that may run at a time
    QuickReload   \* does a reload take less than debounceDelay?

ASSUME ReloadAssumption ==
    MaxVersion \in Nat /\ QuickReload \in BOOLEAN /\ IsFiniteSet(Callbacks) /\ "sighup" \notin Callbacks

Reloaders == Callbacks \cup {"sighup"}

VARIABLES
    file,       \* the file: its version, and is it valid?
    told,       \* history: was there an event when the file last changed?
    asked,      \* history: was there a SIGHUP since, at a time when no timer
                \* goroutine was about to store an older file?
    current,    \* currentConfig: a version of the file
    watch,      \* the watch: "starting", "on", or "off"
    events,     \* watcher.Events
    timer,      \* debounceTimer: "nil", "armed", "fired"
    before,     \* history: the reloads under way since before it was armed
    signals,    \* sighupChan, of capacity 1
    reload,     \* reload[r]: "idle", "read", "store"
    newConfig   \* newConfig[r]: the version it has read

fileVars == <<file, told, asked>>
watchVars == <<watch, events, timer, before>>
reloadVars == <<current, reload, newConfig>>
vars == <<fileVars, watchVars, signals, reloadVars>>

Init ==
    /\ file = [version |-> 0, valid |-> TRUE] /\ told = FALSE /\ asked = FALSE
    /\ current = 0
    /\ watch = "starting" /\ events = 0 /\ timer = "nil" /\ before = {}
    /\ signals = 0
    /\ reload = [r \in Reloaders |-> "idle"]
    /\ newConfig = [r \in Reloaders |-> 0]

-----------------------------------------------------------------------------
(***************************************************************************)
(* The administrator.                                                      *)
(***************************************************************************)

Change(valid) ==
    /\ file.version < MaxVersion
    /\ file' = [version |-> file.version + 1, valid |-> valid]
    /\ asked' = FALSE

\* The file is written in place, once or, with an invalid file in between,
\* piece by piece: an event each time, if it is watched.
WriteFile(valid) ==
    /\ Change(valid)
    /\ told' = (watch = "on")
    /\ events' = IF watch = "on" THEN events + 1 ELSE events
    /\ UNCHANGED <<watch, timer, before, signals, reloadVars>>

\* Another file is renamed over it, as many editors save: the watch goes with
\* the old file, and its Remove event is none that the loop reacts to.
ReplaceFile(valid) ==
    /\ Change(valid)
    /\ told' = FALSE
    /\ watch' = IF watch = "on" THEN "off" ELSE watch
    /\ UNCHANGED <<events, timer, before, signals, reloadVars>>

\* SIGHUP, which is dropped when the channel is full.
TakenUnbuffered == IF reload["sighup"] = "idle" THEN 1 ELSE signals   \* mutant: capacity 0
Taken == 1
Sighup ==
    /\ ~asked
    /\ asked' = \A c \in Callbacks : reload[c] # "store"
    /\ signals' = Taken
    /\ UNCHANGED <<file, told, watchVars, reloadVars>>

-----------------------------------------------------------------------------
(***************************************************************************)
(* watchConfigFile.                                                        *)
(***************************************************************************)

\* watcher.Add, or an error and no watch at all.
StartWatch ==
    /\ watch = "starting"
    /\ watch' \in {"on", "off"}
    /\ UNCHANGED <<fileVars, events, timer, before, signals, reloadVars>>

\* An event: the timer is stopped, if it has not fired, and started anew.
ArmOnce == IF timer = "nil" THEN "armed" ELSE timer   \* mutant: only if there is none
Arm == "armed"
HandleEvent ==
    /\ events > 0
    /\ events' = events - 1
    /\ timer' = Arm
    /\ before' = {r \in Reloaders : reload[r] # "idle"}
    /\ UNCHANGED <<fileVars, watch, signals, reloadVars>>

\* After debounceDelay the timer fires and a goroutine begins to reload.
TimerFires ==
    /\ timer = "armed"
    /\ QuickReload => before = {}
    /\ \E r \in Callbacks :
          /\ reload[r] = "idle"
          /\ reload' = [reload EXCEPT ![r] = "read"]
    /\ timer' = "fired"
    /\ UNCHANGED <<fileVars, watch, events, before, signals, current, newConfig>>

\* handleSighupReload, between two reloads, takes a signal.
HandleSighup ==
    /\ signals = 1 /\ reload["sighup"] = "idle"
    /\ signals' = 0
    /\ reload' = [reload EXCEPT !["sighup"] = "read"]
    /\ UNCHANGED <<fileVars, watchVars, current, newConfig>>

-----------------------------------------------------------------------------
(***************************************************************************)
(* reloadConfig.                                                           *)
(***************************************************************************)

\* The file parses and is valid.
Acceptable == file.valid

Returns(r) ==
    /\ reload' = [reload EXCEPT ![r] = "idle"]
    /\ before' = before \ {r}

ReadConfig(r) ==
    /\ reload[r] = "read"
    /\ \/ /\ Acceptable
          /\ newConfig' = [newConfig EXCEPT ![r] = file.version]
          /\ reload' = [reload EXCEPT ![r] = "store"]
          /\ UNCHANGED before
       \/ /\ ~Acceptable
          /\ Returns(r)
          /\ UNCHANGED newConfig
    /\ UNCHANGED <<fileVars, watch, events, timer, signals, current>>

StoreConfig(r) ==
    /\ reload[r] = "store"
    /\ current' = newConfig[r]
    /\ Returns(r)
    /\ UNCHANGED <<fileVars, watch, events, timer, signals, newConfig>>

-----------------------------------------------------------------------------
Server ==
    \/ HandleEvent \/ TimerFires \/ HandleSighup
    \/ \E r \in Reloaders : ReadConfig(r) \/ StoreConfig(r)

Next ==
    \/ \E valid \in BOOLEAN : WriteFile(valid) \/ ReplaceFile(valid)
    \/ Sighup \/ StartWatch
    \/ Server

Spec == Init /\ [][Next]_vars

\* Events are handled, timers fire, reloads go on.
FairSpec == Spec /\ WF_vars(Server)
-----------------------------------------------------------------------------
\* A valid file that was written in place while it was watched comes into force
\* and stays there, if it is left alone: whatever events, signals and reloads of
\* older files, which may finish in any order, are still under way.
LatestStays ==
    \A v \in 1..MaxVersion :
        told /\ file = [version |-> v, valid |-> TRUE]
            ~> [](current = v \/ file.version # v)

\* So does any valid file after a SIGHUP, watched or not, also if the signal
\* meets the reload for another one: if it does not meet, between its read and
\* its store, a reload of the watcher's, which may have the last word.
AskedStays ==
    \A v \in 1..MaxVersion :
        asked /\ file = [version |-> v, valid |-> TRUE]
            ~> [](current = v \/ file.version # v)
=============================================================================
