------------------------------ MODULE HotReload ------------------------------
(***************************************************************************)
(* A frontend's life with its controllers: internal/serve/serve.go         *)
(* replaces the live controller by one rebuilt from changed extensions     *)
(* (boot.Rebuild) or with another model (boot.Build), with turns,          *)
(* rotations and commands of TurnAdmission and SessionTemp going on, and   *)
(* the process may die.  The replacement shares the temporary directory,   *)
(* so a reload keeps the session's files.                                  *)
(***************************************************************************)
EXTENDS TurnAdmission

CONSTANT MaxCrashes   \* bound: how often the process dies

ASSUME ReloadAssumption == MaxCrashes \in Nat

VARIABLES
  serving,   \* Server.ctrl
  reload,    \* where reloadExtensions or switchModel is: "no", "checked", "built",
             \* "published", "swapped" (the outgoing controller is to be closed)
  other,     \* the replacement, and after the swap the outgoing controller
  crashes    \* counter for the bound

reloadVars == <<serving, reload, other, crashes>>
vars == <<tempVars, turnVars, reloadVars>>

Init ==
  /\ TempInit /\ TurnInit
  /\ serving = None /\ reload = "no" /\ other = None /\ crashes = 0

\* boot.Build of the first controller of a process.
Boot(c) ==
  /\ serving = None /\ Open(c)
  /\ serving' = c /\ published' = {c}
  /\ UNCHANGED <<reload, other, crashes>>

\* reloadExtensions, switchModel under bindMu: refused while a turn or a background command
\* is running.
ReloadBegins ==
  /\ serving # None /\ reload = "no" /\ ~Busy(serving)
  /\ \A k \in Commands : lease[k] = None
  /\ reload' = "checked"
  /\ UNCHANGED <<tempVars, turnVars, serving, other, crashes>>

\* Wrong on purpose: the replacement does not count as an owner.
ReloadBuildsUnretained(c) ==
  /\ reload = "checked" /\ life[c] = "none"
  /\ life' = [life EXCEPT ![c] = "open"]
  /\ reload' = "built" /\ other' = c
  /\ UNCHANGED <<tempVars, running, finishing, rotating, parked, stage, on, published,
                 serving, crashes>>

\* Rebuild constructs the replacement, privately.
ReloadBuilds(c) ==
  /\ reload = "checked" /\ Open(c)
  /\ reload' = "built" /\ other' = c
  /\ UNCHANGED <<published, serving, crashes>>

\* publishBuildResult, the last step of Rebuild: the old generation drains.
ReloadPublishes ==
  /\ reload = "built" /\ reload' = "published"
  /\ published' = (published \ {serving}) \cup {other}
  /\ UNCHANGED <<tempVars, life, running, finishing, rotating, parked, stage, on,
                 serving, other, crashes>>

\* switchModel uses boot.Build: the replacement has an owner and a gate of its own,
\* on which it is published, and the old one goes on admitting work on its own.
SwitchBuilds(c) ==
  /\ reload = "checked" /\ Open(c)
  /\ reload' = "published" /\ other' = c
  /\ published' = published \cup {c}
  /\ UNCHANGED <<serving, crashes>>

\* The build fails, the migration, the snapshot or the session lease: a
\* replacement that exists is closed and the old controller stays.
ReloadFails ==
  /\ reload \in {"checked", "built", "published"} /\ reload' = "no"
  /\ IF other = None THEN UNCHANGED <<tempVars, turnVars>> ELSE CloseBegins(other)
  /\ other' = None
  /\ UNCHANGED <<serving, crashes>>

ReloadSwaps ==
  /\ reload = "published" /\ reload' = "swapped"
  /\ serving' = other /\ other' = serving
  /\ UNCHANGED <<tempVars, turnVars, crashes>>

\* The outgoing controller is closed; close does not wait for its turn.
ReloadEnds ==
  /\ reload = "swapped" /\ reload' = "no" /\ other' = None
  /\ IF life[other] = "open" THEN CloseBegins(other) ELSE UNCHANGED <<tempVars, turnVars>>
  /\ UNCHANGED <<serving, crashes>>

\* The server shuts down and closes the controller it has.
Shutdown ==
  /\ serving # None /\ CloseBegins(serving)
  /\ UNCHANGED reloadVars

\* The process dies, and its inputs with it; the next one boots anew.
Crash ==
  /\ crashes < MaxCrashes /\ crashes' = crashes + 1
  /\ TempCrash
  /\ life' = [c \in Controllers |-> IF life[c] = "none" THEN "none" ELSE "gone"]
  /\ running' = [c \in Controllers |-> FALSE] /\ finishing' = [c \in Controllers |-> FALSE]
  /\ rotating' = [c \in Controllers |-> FALSE] /\ parked' = [c \in Controllers |-> <<>>]
  /\ stage' = [i \in Inputs |-> IF stage[i] = "idle" THEN "idle" ELSE "over"]
  /\ on' = [i \in Inputs |-> None]
  /\ published' = {} /\ serving' = None /\ reload' = "no" /\ other' = None

\* Nobody has a replacement before the swap; a caller may have the outgoing one after.
Reachable == {c \in Controllers : c # other \/ reload = "swapped"}

Reloading ==
  \/ \E c \in Controllers : ReloadBuilds(c) \/ SwitchBuilds(c)
  \/ ReloadPublishes \/ ReloadFails \/ ReloadSwaps \/ ReloadEnds

Frontend ==
  \/ \E c \in Controllers : Boot(c)
  \/ ReloadBegins \/ Shutdown \/ Crash
  \/ \E d \in Dirs : (SweepFinds(d) \/ SweepRemoves(d)) /\ UNCHANGED <<turnVars, reloadVars>>

Next ==
  \/ (Admission(Reachable) \/ Progress) /\ UNCHANGED reloadVars
  \/ Reloading \/ Frontend

Spec == Init /\ [][Next]_vars

\* Every variable has its type.
TypeOK ==
  /\ TempTypeOK /\ TurnTypeOK
  /\ serving \in Controllers \cup {None} /\ other \in Controllers \cup {None}
  /\ reload \in {"no", "checked", "built", "published", "swapped"}
  /\ crashes \in 0..MaxCrashes

\* The owners are the controllers that have not finished closing, and a sealed
\* Manager has none: a reload keeps the session's directory, because control.New
\* retains it before the outgoing controller's close releases it, and the last
\* controller to go takes it along.
OwnersCounted ==
  IF sealed THEN owners = 0 /\ gen = None
  ELSE owners = Cardinality({c \in Controllers : life[c] \in {"open", "closing"}})

\* Nothing takes a directory from under a command or keeps one without need,
\* whatever reloads, rotations, sweeps, closes and crashes come together.
DirectoryShared == DirectoriesInUse /\ OwnersCounted

\* A reload that fails leaves the old controller live: with no reload under way
\* the serving controller admits work unless it is closed.
ReloadIsFailAtomic ==
  reload = "no" /\ serving # None /\ life[serving] = "open" => Admits(serving)
=============================================================================
