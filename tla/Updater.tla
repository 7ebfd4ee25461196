------------------------------ MODULE Updater ------------------------------
(***************************************************************************)
(* The self-update of the packaged program: run.py (single instance, check *)
(* at start), app/updater.py (check and stage, health marker) and the      *)
(* PowerShell script it writes, which outlives the program: it waits for   *)
(* the program to exit, moves Pawgram.exe and _internal to a backup,       *)
(* copies the new ones, starts the new program, waits for its health       *)
(* marker, and rolls back whatever goes wrong.                             *)
(*                                                                         *)
(* Each file operation of the script is a step, retries included, and the  *)
(* power may fail in any of them.  The world is quiet while the script is  *)
(* at work: nobody publishes or starts the program by hand, and no second  *)
(* script is begun beside the first.                                       *)
(***************************************************************************)
EXTENDS Integers, FiniteSets

CONSTANTS Procs,       \* process slots of Pawgram.exe
          NoProc,
          MaxVersion,  \* bound: releases 1 .. MaxVersion, the first is installed
          MaxFaults    \* bound: failed file operations, deaths, timeouts, power cuts

ASSUME NoProcAssumption == NoProc \notin Procs
ASSUME BoundsAssumption == MaxVersion \in Nat \ {0} /\ MaxFaults \in Nat

Versions == 1 .. MaxVersion
Missing == 0     \* no such file or folder
Torn == -1       \* half copied or half deleted
Contents == Versions \cup {Missing, Torn}
Targets == {"exe", "internal"}
Nothing == [t \in Targets |-> Missing]

VARIABLES
    published,  \* the newest release the manifest names
    sound,      \* the releases that come up when they are started whole
    file,       \* Pawgram.exe and _internal in the installation folder
    pc,         \* where each process of the program is
    code,       \* the files it was started from
    proves,     \* its environment names the health file of the script
    lock,       \* holder of data/pawgram.lock
    step,       \* where the script is; "none": there is no script
    waits,      \* RunningProcessId
    version,    \* the release in StagedDir
    fresh,      \* $newProcess
    moved,      \* $movedTargets
    backup,     \* contents of the script's backup folder
    marker,     \* startup-health.json is there
    left,       \* contents of the backup folders that scripts have left behind
    good,       \* history: the last release that has proved itself
    mishaps,    \* history: what the script, or the program, does not recover from
    faults

progVars   == <<pc, code, proves, lock>>
staged     == <<waits, version>>
scriptVars == <<step, staged, fresh, moved, backup, marker, left>>
world      == <<published, sound>>
vars == <<world, file, progVars, scriptVars, good, mishaps, faults>>

Places == {"dead", "starting", "message", "checking", "booting", "failed", "serving", "closing"}
Steps == {"none", "waiting", "save exe", "save internal", "copy exe", "copy internal",
          "launch", "watch", "settle", "clean", "stop", "restore exe", "restore internal",
          "restart"}
Mishaps == {"gave up", "death", "torn copy", "half cleaned", "no restore", "power"}

Init ==
    /\ published = 1 /\ sound \in {S \in SUBSET Versions : 1 \in S}
    /\ file = [t \in Targets |-> 1]
    /\ pc = [p \in Procs |-> "dead"]
    /\ code = [p \in Procs |-> Nothing]
    /\ proves = [p \in Procs |-> FALSE]
    /\ lock = NoProc
    /\ step = "none" /\ waits = NoProc /\ version = 1 /\ fresh = NoProc
    /\ moved = {} /\ backup = Nothing /\ marker = FALSE /\ left = {}
    /\ good = 1 /\ mishaps = {} /\ faults = 0

Fault == faults < MaxFaults /\ faults' = faults + 1
Idle == step = "none"
Goto(place) == step' = place
Enter(p, place) == pc' = [pc EXCEPT ![p] = place]

\* The script ends; what is in its backup folder stays there for good.
Over ==
    /\ step' = "none" /\ waits' = NoProc /\ version' = 1 /\ fresh' = NoProc
    /\ moved' = {} /\ backup' = Nothing /\ marker' = FALSE
OverLeaving ==
    /\ Over
    /\ left' = left \cup {<<t, backup[t]>> : t \in {u \in Targets : backup[u] # Missing}}

-----------------------------------------------------------------------------
(* The program.                                                            *)

\* Start-Process, or a double click: the process loads what lies there now.
Start(p, proof) ==
    /\ pc[p] = "dead" /\ file["exe"] \in Versions
    /\ Enter(p, "starting")
    /\ code' = [code EXCEPT ![p] = file]
    /\ proves' = [proves EXCEPT ![p] = proof]

\* The process ends; the system frees the lock it holds.
Ends(p) ==
    /\ Enter(p, "dead")
    /\ code' = [code EXCEPT ![p] = Nothing]
    /\ proves' = [proves EXCEPT ![p] = FALSE]
    /\ lock' = IF lock = p THEN NoProc ELSE lock

\* Files of one sound release come up; a torn or a mixed set may.
Healthy(files) == files["exe"] = files["internal"] /\ files["exe"] \in sound
MayRun(files) == Healthy(files) \/ files["internal"] \notin {files["exe"], Missing}

UserStarts(p) ==
    /\ Idle /\ Start(p, FALSE)
    /\ UNCHANGED <<world, file, lock, scriptVars, good, mishaps, faults>>

\* main: the single-instance lock; a second instance shows a message box.
TakeLock(p) ==
    /\ pc[p] = "starting" /\ code[p]["internal"] # Missing
    /\ \/ lock = NoProc /\ lock' = p /\ Enter(p, "checking")
       \/ lock # NoProc /\ Enter(p, "message") /\ UNCHANGED lock
    /\ UNCHANGED <<world, file, code, proves, scriptVars, good, mishaps, faults>>

\* The user closes the message box, that of a failed start included.
Dismiss(p) ==
    /\ pc[p] \in {"message", "failed"}
    /\ Ends(p)
    /\ UNCHANGED <<world, file, scriptVars, good, mishaps, faults>>

\* check_and_stage_update: the package is downloaded, verified and unpacked,
\* and the script started with the identity of this process.
Stage(p) ==
    /\ Idle                             \* bound: no second script beside the first
    /\ published > file["internal"]     \* current_version reads _internal/VERSION
    /\ Goto("waiting") /\ waits' = p /\ version' = published
    /\ UNCHANGED <<fresh, moved, backup, marker, left>>

\* The check at start: no update, or one that could not be had.
CheckPasses(p) ==
    /\ pc[p] = "checking"
    /\ Enter(p, "booting")
    /\ UNCHANGED <<world, file, code, proves, lock, scriptVars, good, mishaps, faults>>

CheckStages(p) ==
    /\ pc[p] = "checking" /\ Stage(p)
    /\ Enter(p, "closing")
    /\ UNCHANGED <<world, file, code, proves, lock, good, mishaps, faults>>

\* lifespan has started everything: mark_update_healthy writes the marker,
\* or only logs that it could not.
Serve(p) ==
    /\ pc[p] = "booting" /\ MayRun(code[p])
    /\ Enter(p, "serving")
    /\ proves' = [proves EXCEPT ![p] = FALSE]
    /\ \/ marker' = (marker \/ proves[p]) /\ UNCHANGED faults
       \/ proves[p] /\ Fault /\ UNCHANGED marker
    /\ UNCHANGED <<world, file, code, lock, step, staged, fresh, moved, backup, left, good,
                   mishaps>>

\* The release does not come up: the process ends, or an error message box
\* keeps it, its files and the lock until somebody closes it.
Fails(p) ==
    /\ pc[p] \in {"starting", "booting"} /\ ~Healthy(code[p])
    /\ \/ Ends(p)
       \/ pc[p] = "booting" /\ Enter(p, "failed") /\ UNCHANGED <<code, proves, lock>>
    /\ UNCHANGED <<world, file, scriptVars, good, mishaps, faults>>

\* POST /api/settings/update-install: APP_VERSION was read at start.
InstallRequest(p) ==
    /\ pc[p] = "serving" /\ published > code[p]["internal"] /\ Stage(p)
    /\ Enter(p, "closing")
    /\ UNCHANGED <<world, file, code, proves, lock, good, mishaps, faults>>

\* POST /api/system/shutdown.
ShutdownRequest(p) ==
    /\ pc[p] = "serving"
    /\ Enter(p, "closing")
    /\ UNCHANGED <<world, file, code, proves, lock, scriptVars, good, mishaps, faults>>

Exit(p) ==
    /\ pc[p] = "closing"
    /\ Ends(p)
    /\ UNCHANGED <<world, file, scriptVars, good, mishaps, faults>>

\* The process is killed, or finds no port.
Die(p) ==
    /\ pc[p] # "dead" /\ Fault
    /\ Ends(p)
    /\ mishaps' = IF ~Idle /\ p \in {fresh, waits} THEN mishaps ELSE mishaps \cup {"death"}
    /\ UNCHANGED <<world, file, scriptVars, good>>

-----------------------------------------------------------------------------
(* The script: forward.                                                    *)

\* Wait-ForProcessExit; after 90 seconds the script gives up for good.
OldExits ==
    /\ step = "waiting" /\ pc[waits] = "dead"
    /\ Goto("save exe")
    /\ UNCHANGED <<world, file, progVars, staged, fresh, moved, backup, marker, left, good,
                   mishaps, faults>>

GiveUp ==
    /\ step = "waiting" /\ pc[waits] # "dead" /\ Fault
    /\ Over
    /\ mishaps' = mishaps \cup {"gave up"}
    /\ UNCHANGED <<world, file, progVars, left, good>>

SaveForgetting(t) ==
    /\ file' = [file EXCEPT ![t] = Missing]
    /\ backup' = [backup EXCEPT ![t] = file[t]]
    /\ UNCHANGED moved
MoveToBackup(t) ==
    /\ file' = [file EXCEPT ![t] = Missing]
    /\ backup' = [backup EXCEPT ![t] = file[t]]
    /\ moved' = moved \cup {t}

\* Windows does not move a folder whose files a process has loaded.  A server
\* or a message box outlasts the retries, any other process need not.
InUse == \E p \in Procs : pc[p] # "dead"
Occupied == \E p \in Procs : pc[p] \in {"message", "failed", "serving"}

\* Move-Item with retries.
Save(t, next) ==
    /\ \/ file[t] = Missing /\ Goto(next) /\ UNCHANGED <<file, backup, moved, faults>>
       \/ /\ file[t] # Missing /\ (t = "internal" => ~InUse)
          /\ MoveToBackup(t) /\ Goto(next) /\ UNCHANGED faults
       \/ /\ file[t] # Missing /\ Goto("stop") /\ UNCHANGED <<file, backup, moved>>
          /\ IF t = "internal" /\ Occupied THEN UNCHANGED faults ELSE Fault
    /\ UNCHANGED <<world, progVars, staged, fresh, marker, left, good, mishaps>>

SaveExe == step = "save exe" /\ Save("exe", "save internal")
SaveInternal == step = "save internal" /\ Save("internal", "copy exe")

CopyExe ==
    /\ step = "copy exe"
    /\ \/ file' = [file EXCEPT !["exe"] = version] /\ Goto("copy internal")
          /\ UNCHANGED faults
       \/ \E rest \in {Missing, Torn} : file' = [file EXCEPT !["exe"] = rest]
          /\ Fault /\ Goto("stop")
    /\ UNCHANGED <<world, progVars, staged, fresh, moved, backup, marker, left, good, mishaps>>

\* Copy-Item of a folder.  A retry after a copy that broke off half-way finds
\* the folder there and copies the new one into it: the half stays what it is.
CopyInternal ==
    /\ step = "copy internal"
    /\ \/ /\ file' = [file EXCEPT !["internal"] = version] /\ Goto("launch")
          /\ UNCHANGED <<faults, mishaps>>
       \/ /\ file' = [file EXCEPT !["internal"] = Torn] /\ Fault
          /\ \/ Goto("stop") /\ UNCHANGED mishaps
             \/ Goto("launch") /\ mishaps' = mishaps \cup {"torn copy"}
    /\ UNCHANGED <<world, progVars, staged, fresh, moved, backup, marker, left, good>>

Launch ==
    /\ step = "launch"
    /\ \/ /\ \E p \in Procs : Start(p, TRUE) /\ fresh' = p
          /\ marker' = FALSE /\ Goto("watch") /\ UNCHANGED faults
       \/ /\ IF version \in sound THEN Fault ELSE UNCHANGED faults
          /\ Goto("stop") /\ UNCHANGED <<pc, code, proves, fresh, marker>>
    /\ UNCHANGED <<world, file, lock, staged, moved, backup, left, good, mishaps>>

\* This process writes no marker any more, or may take longer than that.
Stuck(p) == pc[p] \in {"message", "serving", "closing"} \/ ~Healthy(code[p])

WatchPatiently ==
    /\ step = "watch"
    /\ \/ marker /\ Goto("settle") /\ UNCHANGED faults
       \/ ~marker /\ pc[fresh] = "dead" /\ Goto("stop") /\ UNCHANGED faults
    /\ UNCHANGED <<world, file, progVars, staged, fresh, moved, backup, marker, left, good,
                   mishaps>>
WatchUnproven ==
    /\ step = "watch"
    /\ \/ marker /\ Goto("settle") /\ UNCHANGED faults
       \/ ~marker /\ pc[fresh] = "dead" /\ Goto("stop") /\ UNCHANGED faults
       \/ /\ ~marker /\ pc[fresh] # "dead" /\ Goto("clean")
          /\ IF Stuck(fresh) THEN UNCHANGED faults ELSE Fault
    /\ UNCHANGED <<world, file, progVars, staged, fresh, moved, backup, marker, left, good,
                   mishaps>>
\* The marker, the end of the process, or 45 seconds.
Watch ==
    /\ step = "watch"
    /\ \/ marker /\ Goto("settle") /\ UNCHANGED faults
       \/ ~marker /\ pc[fresh] = "dead" /\ Goto("stop") /\ UNCHANGED faults
       \/ /\ ~marker /\ pc[fresh] # "dead" /\ Goto("stop")
          /\ IF Stuck(fresh) THEN UNCHANGED faults ELSE Fault
    /\ UNCHANGED <<world, file, progVars, staged, fresh, moved, backup, marker, left, good,
                   mishaps>>

\* Two seconds later the new process must still be there.
Settle ==
    /\ step = "settle"
    /\ IF pc[fresh] = "dead" THEN Goto("stop") /\ UNCHANGED good
                             ELSE Goto("clean") /\ good' = version
    /\ UNCHANGED <<world, file, progVars, staged, fresh, moved, backup, marker, left, mishaps,
                   faults>>

\* The backup is deleted.  This is still inside the try: a deletion that fails
\* half-way rolls the installation back to what is left of the backup.
Clean ==
    /\ step = "clean"
    /\ \/ Over /\ UNCHANGED <<mishaps, faults>>
       \/ /\ \E rest \in {Missing, Torn} : backup' = [backup EXCEPT !["internal"] = rest]
          /\ Goto("stop") /\ Fault /\ mishaps' = mishaps \cup {"half cleaned"}
          /\ UNCHANGED <<staged, fresh, moved, marker>>
    /\ UNCHANGED <<world, file, progVars, left, good>>

-----------------------------------------------------------------------------
(* The script: back.                                                       *)

\* The new process, if there is one, is stopped; that this fails is ignored.
Survives == fresh # NoProc /\ pc[fresh] # "dead"
Stop ==
    /\ step = "stop"
    /\ \/ fresh = NoProc /\ UNCHANGED <<progVars, faults>>
       \/ fresh # NoProc /\ Ends(fresh) /\ UNCHANGED faults
       \/ Survives /\ Fault /\ UNCHANGED progVars
    /\ Goto("restore exe")
    /\ UNCHANGED <<world, file, staged, fresh, moved, backup, marker, left, good, mishaps>>

\* What was moved is moved back in place of what is there, which a new process
\* that was not stopped does not let go.  A failure here is in the catch block:
\* the script ends with what it has done so far.
Restore(t, next) ==
    \/ /\ t \notin moved \/ backup[t] = Missing
       /\ Goto(next)
       /\ UNCHANGED <<file, staged, fresh, moved, backup, marker, left, mishaps, faults>>
    \/ /\ t \in moved /\ backup[t] # Missing
       /\ Survives => file[t] = Missing
       /\ file' = [file EXCEPT ![t] = backup[t]]
       /\ backup' = [backup EXCEPT ![t] = Missing]
       /\ Goto(next)
       /\ UNCHANGED <<staged, fresh, moved, marker, left, mishaps, faults>>
    \/ /\ t \in moved /\ backup[t] # Missing
       /\ IF Survives /\ file[t] # Missing THEN UNCHANGED faults ELSE Fault
       /\ \E rest \in {file[t], Missing, Torn} : file' = [file EXCEPT ![t] = rest]
       /\ OverLeaving
       /\ mishaps' = mishaps \cup {"no restore"}

RestoreExe ==
    /\ step = "restore exe" /\ Restore("exe", "restore internal")
    /\ UNCHANGED <<world, progVars, good>>

RestoreInternal ==
    /\ step = "restore internal" /\ Restore("internal", "restart")
    /\ UNCHANGED <<world, progVars, good>>

RestartNothing ==
    /\ step = "restart" /\ OverLeaving
    /\ UNCHANGED <<world, file, progVars, good, mishaps, faults>>
\* The old program is started again.
Restart ==
    /\ step = "restart" /\ OverLeaving
    /\ \/ \E p \in Procs : Start(p, FALSE)
       \/ file["exe"] \notin Versions /\ UNCHANGED <<pc, code, proves>>
    /\ UNCHANGED <<world, file, lock, good, mishaps, faults>>

-----------------------------------------------------------------------------
\* What the script's step writes, and therefore may leave half done.
Writes ==
    CASE step = "copy exe" -> {"exe"}
      [] step = "copy internal" -> {"internal"}
      [] step = "restore exe" -> {"exe"} \cap moved
      [] step = "restore internal" -> {"internal"} \cap moved
      [] OTHER -> {}

\* The power fails; whatever was under way is over, and nothing resumes it.
PowerCut ==
    /\ Fault
    /\ \E rest \in {Missing, Torn} :
          file' = [t \in Targets |-> IF t \in Writes THEN rest ELSE file[t]]
    /\ pc' = [p \in Procs |-> "dead"] /\ code' = [p \in Procs |-> Nothing]
    /\ proves' = [p \in Procs |-> FALSE] /\ lock' = NoProc
    /\ OverLeaving
    /\ mishaps' = mishaps \cup {IF Idle THEN "death" ELSE "power"}
    /\ UNCHANGED <<world, good>>

Publish ==
    /\ Idle /\ published < MaxVersion
    /\ published' = published + 1
    /\ UNCHANGED <<sound, file, progVars, scriptVars, good, mishaps, faults>>

Program(p) == TakeLock(p) \/ CheckPasses(p) \/ CheckStages(p) \/ Serve(p) \/ Fails(p) \/ Exit(p)
User(p) == UserStarts(p) \/ Dismiss(p) \/ InstallRequest(p) \/ ShutdownRequest(p)
Script ==
    \/ OldExits \/ GiveUp \/ SaveExe \/ SaveInternal \/ CopyExe \/ CopyInternal \/ Launch
    \/ Watch \/ Settle \/ Clean \/ Stop \/ RestoreExe \/ RestoreInternal \/ Restart

Next ==
    \/ \E p \in Procs : Program(p) \/ User(p) \/ Die(p)
    \/ Script \/ PowerCut \/ Publish

Spec == Init /\ [][Next]_vars

\* Processes run and every wait of the script is bounded; nobody has to press
\* a button, close a message box or publish anything.
FairSpec ==
    /\ Spec
    /\ \A p \in Procs : WF_vars(Program(p))
    /\ WF_vars(Script)

-----------------------------------------------------------------------------
TypeOK ==
    /\ published \in Versions /\ sound \subseteq Versions
    /\ file \in [Targets -> Contents]
    /\ pc \in [Procs -> Places] /\ code \in [Procs -> [Targets -> Contents]]
    /\ proves \in [Procs -> BOOLEAN] /\ lock \in Procs \cup {NoProc}
    /\ step \in Steps /\ waits \in Procs \cup {NoProc} /\ version \in Versions
    /\ fresh \in Procs \cup {NoProc} /\ moved \subseteq Targets
    /\ backup \in [Targets -> Contents] /\ marker \in BOOLEAN
    /\ left \subseteq Targets \X Contents
    /\ good \in Versions /\ mishaps \subseteq Mishaps /\ faults \in 0 .. MaxFaults

\* QA_REPORT: the updater "waits for a health-marker handshake and process
\* liveness before deleting the rollback backup".  At every moment, power cuts
\* and failed roll-backs included, both parts of the last release that has
\* proved itself are whole on the disk, in place or in a backup folder, unless
\* a copy was torn or the deletion of a backup failed half-way.
Restorable ==
    mishaps \cap {"torn copy", "half cleaned"} = {} =>
        \A t \in Targets : good \in {file[t], backup[t]} \/ <<t, good>> \in left

\* README: "Başlangıç başarısızsa eski EXE ve runtime geri yüklenip": when no
\* script is at work, the installation is the last release that has proved
\* itself, all of it and never a mixture or an older one, whichever move, copy,
\* start or health check of the update failed.  Left out are the failures the
\* script does not recover from: a power cut or a failing roll-back, also one
\* that fails because the new program could not be stopped; a folder copied a
\* second time onto the half of the first copy; and a backup that could be
\* deleted only in part, to which a proved installation is rolled back.
AllOrNothing ==
    Idle /\ mishaps \subseteq {"gave up", "death"} => \A t \in Targets : file[t] = good

\* Every script comes to an end: no wait of it is unbounded.
ScriptEnds == ~Idle ~> Idle

\* After an update that was begun a program serves again, the new one or the
\* old one, also when the new one dies, hangs or cannot write its marker.  Not
\* so when the published release is itself broken, or while the message box of
\* a second instance keeps _internal in use: the old program then installs the
\* update again at every start.  Runs with a mishap of any kind are left out
\* altogether: after a death of another process, a wait given up, a power cut, a
\* torn copy, a half-deleted backup or a failing roll-back it may take a user to
\* start the program again.
ServesAgain ==
    step = "waiting" ~> \/ \E p \in Procs : pc[p] \in {"serving", "message"}
                        \/ published \notin sound
                        \/ mishaps # {}
=============================================================================
