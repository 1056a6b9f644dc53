------------------------------- MODULE Launch -------------------------------
(***************************************************************************)
(* The installation check of main.py, before anything else of the program  *)
(* is imported: what the snapshot requires is looked for; in a Git         *)
(* checkout and with somebody at a terminal, a pull and a restore of what  *)
(* is missing are offered, and the program is started again.               *)
(***************************************************************************)
EXTENDS Naturals, FiniteSets

CONSTANTS
    Files,          \* the files of the checkout
    Manifest,       \* the snapshot, one of them
    MaxLosses       \* files taken away while this runs

ASSUME LaunchAssumption == Manifest \in Files /\ MaxLosses \in Nat

VARIABLES
    place,          \* "packaged", "unattended" (headless, no terminal), "terminal"
    disk,           \* file -> "there", "absent", "directory", "dangling" (a link to nothing)
    index,          \* the files Git has staged
    required,       \* what the snapshot lists
    losses,
    again,          \* this is the process that was started again
    launching,
    attempt, missing, looked,
    returned,
    asked, pulls, wrote, harmed     \* what was done so far, to be judged

diskVars == <<disk, index, required, losses>>
doneVars == <<asked, pulls, wrote, harmed>>
launchVars == <<place, diskVars, again, launching, attempt, missing, looked, returned, doneVars>>

LaunchInit ==
    /\ place \in {"packaged", "unattended", "terminal"}
    /\ \E f \in Files \ {Manifest} : required \in {Files, Files \ {f}}
    /\ losses = 0 /\ disk \in [Files -> {"there", "absent", "directory", "dangling"}]
    /\ \E f \in Files \ {Manifest} : index \in {required, required \ {f}}
    /\ again = FALSE /\ launching = "check" /\ attempt = 0 /\ missing = {} /\ looked = {} /\ returned = 0
    /\ asked = 0 /\ pulls = 0 /\ wrote = {} /\ harmed = FALSE

\* What is missing: the snapshot itself, or all that it lists. A snapshot
\* that cannot be read is an error.
InstallationStatus ==
    IF disk[Manifest] # "there" THEN {Manifest} ELSE {f \in required : disk[f] # "there"}

ExitLaunch(c) == launching' = "over" /\ returned' = c
Repairing == UNCHANGED <<place, losses, again>>

\* Mutation: the process that was started again does not know that it was.
Attempted_Forgotten == FALSE

(***************************************************************************)
(* The check: the mark of the first process is taken from the environment, *)
(* so that a second repair is never offered.                               *)
(***************************************************************************)
Attempted == again

Check ==
    /\ launching = "check" /\ UNCHANGED <<place, diskVars, again, attempt, missing, looked, doneVars>>
    /\ \/ InstallationStatus = {} /\ launching' = "running" /\ UNCHANGED returned
       \/ ExitLaunch(2)                       \* the snapshot is unreadable
       \/ InstallationStatus # {} /\ (place # "terminal" \/ Attempted) /\ ExitLaunch(2)
       \/ InstallationStatus # {} /\ place = "terminal" /\ ~Attempted /\ launching' = "prompt" /\ UNCHANGED returned

\* Enter repairs; Q and the end of input do not, nor does Ctrl+C.
Answer ==
    /\ launching = "prompt" /\ UNCHANGED <<place, diskVars, again, attempt, missing, looked, pulls, wrote, harmed>>
    /\ asked' = asked + 1
    /\ \/ launching' = "pull" /\ UNCHANGED returned
       \/ \E c \in {2, 130} : ExitLaunch(c)

\* A pull that is no fast forward, would write over a file, or is not of
\* this checkout fails; it may bring files, and a snapshot that lists them.
Pull ==
    /\ launching = "pull" /\ Repairing /\ pulls' = pulls + 1
    /\ UNCHANGED <<attempt, missing, looked, asked, wrote, harmed>>
    /\ LET brought == Files \ required
       IN  \/ (\E c \in {2, 130} : ExitLaunch(c)) /\ UNCHANGED <<disk, index, required>>
           \/ launching' = "verify" /\ UNCHANGED <<returned, disk, index, required>>
           \/ /\ brought # {} /\ \A f \in brought : disk[f] = "absent"
              /\ launching' = "verify" /\ UNCHANGED returned
              /\ disk' = [f \in Files |-> IF f \in brought THEN "there" ELSE disk[f]]
              /\ required' = Files /\ index' = index \cup brought

(***************************************************************************)
(* Up to three looks at the folder: the first restore may only bring the   *)
(* snapshot, from which the second knows the rest.                         *)
(***************************************************************************)
Verify ==
    /\ launching = "verify" /\ Repairing /\ UNCHANGED <<disk, index, required, doneVars>>
    /\ missing' = InstallationStatus /\ looked' = {}
    /\ \/ ExitLaunch(2) /\ UNCHANGED attempt
       \/ InstallationStatus = {} /\ launching' = "restart" /\ UNCHANGED <<attempt, returned>>
       \/ InstallationStatus # {} /\ attempt < 2 /\ launching' = "inspect" /\ UNCHANGED <<attempt, returned>>

\* Mutation: what does not exist is taken as absent, a link to nothing too.
MayRestore_LinksToo(f) == disk[f] # "directory" /\ f \in index

\* Nothing may be at the path, not even a link, and its deletion not staged.
MayRestore(f) == disk[f] \notin {"there", "directory", "dangling"} /\ f \in index

LookAt(f) ==
    /\ launching = "inspect" /\ f \in missing \ looked
    /\ Repairing /\ UNCHANGED <<disk, index, required, attempt, missing, doneVars>>
    /\ \/ MayRestore(f) /\ looked' = looked \cup {f} /\ UNCHANGED <<launching, returned>>
       \/ ~MayRestore(f) /\ ExitLaunch(2) /\ UNCHANGED looked

\* git restore: all of them, or what it did before it failed or was stopped.
Restore ==
    /\ launching = "inspect" /\ looked = missing
    /\ Repairing /\ UNCHANGED <<index, required, missing, looked, asked, pulls>>
    /\ \E written \in SUBSET missing :
           /\ disk' = [f \in Files |-> IF f \in written THEN "there" ELSE disk[f]]
           /\ wrote' = wrote \cup written
           /\ harmed' = (harmed \/ \E f \in written : disk[f] # "absent")
           /\ \/ written = missing /\ launching' = "verify" /\ attempt' = attempt + 1 /\ UNCHANGED returned
              \/ (\E c \in {2, 130} : ExitLaunch(c)) /\ UNCHANGED attempt

\* The program again, in this console: its code is the one returned.
Restart ==
    /\ launching = "restart"
    /\ UNCHANGED <<place, diskVars, missing, looked, doneVars>>
    /\ \/ again' = TRUE /\ launching' = "check" /\ attempt' = 0 /\ UNCHANGED returned
       \/ ExitLaunch(2) /\ UNCHANGED <<again, attempt>>

\* Something else takes a file away.
Lost ==
    /\ losses < MaxLosses /\ losses' = losses + 1 /\ launching \notin {"running", "over"}
    /\ \E f \in Files : disk[f] = "there" /\ disk' = [disk EXCEPT ![f] = "absent"]
    /\ UNCHANGED <<place, index, required, again, launching, attempt, missing, looked, returned, doneVars>>

Program == Check \/ Pull \/ Verify \/ (\E f \in Files : LookAt(f)) \/ Restore \/ Restart
LaunchNext == Program \/ Answer \/ Lost

LaunchSpec == LaunchInit /\ [][LaunchNext]_launchVars /\ WF_launchVars(Program)

-----------------------------------------------------------------------------
(***************************************************************************)
(* A repair is asked for and pulled once, however often files disappear    *)
(* again; nothing that was at a path is replaced, a staged deletion stays, *)
(* and where nobody can be asked nothing is touched.  (Files only          *)
(* disappear from outside here: nobody else puts one back.)                *)
(***************************************************************************)
RepairIsCareful ==
    /\ asked <= 1 /\ pulls <= asked
    /\ ~harmed /\ wrote \subseteq index
    /\ place # "terminal" => asked = 0 /\ wrote = {}
    /\ again => wrote # {} \/ pulls = 1
=============================================================================
