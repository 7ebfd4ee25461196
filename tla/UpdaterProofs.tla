--------------------------- MODULE UpdaterProofs ---------------------------
(***************************************************************************)
(* Proofs about Updater for any number of releases, processes and faults.  *)
(*                                                                         *)
(* Neither property is inductive.  That the last good release is not lost  *)
(* when the script overwrites a file depends on what that file can hold at *)
(* that step, and, on the way back, on the release being installed not     *)
(* being the good one: a release is installed only over an older one.      *)
(* What the processes do is of no consequence for either property, as only *)
(* the script touches the files.                                           *)
(***************************************************************************)
EXTENDS Updater, TLAPS

-----------------------------------------------------------------------------
(* The inductive invariant.                                                *)

Undamaged == mishaps \cap {"torn copy", "half cleaned"} = {}
Uncut == mishaps \subseteq {"gave up", "death"}

\* What lies where at each step of the script.
Layout ==
    /\ step \in {"none", "waiting", "save exe"} => moved = {} /\ backup = Nothing
    /\ step = "save internal" =>
          file["exe"] = Missing /\ "internal" \notin moved /\ backup["internal"] = Missing
    /\ step = "copy exe" => \A t \in Targets : file[t] = Missing
    /\ step = "copy internal" => file["exe"] = version /\ file["internal"] = Missing

\* What the script has moved away has been replaced by the new release, or by
\* what is left of an attempt to.
New(t) == file[t] \in {Missing, Torn, version}
Replaced ==
    /\ step \notin {"none", "waiting", "save exe", "restore internal", "restart"} =>
          \A t \in moved : New(t)
    /\ step = "restore internal" /\ "internal" \in moved => New("internal")

\* A release that has proved itself is never installed again.
Upgrade ==
    /\ good <= published
    /\ step # "none" => version = published
    /\ step \notin {"none", "clean"} => good < version
    /\ step = "clean" => good = version
    /\ step = "none" /\ good = published => file["internal"] = published
    /\ step \in {"launch", "watch", "settle", "clean"} => \A t \in Targets : file[t] = version

Kept(t) == good \in {file[t], backup[t]} \/ <<t, good>> \in left

\* The good release is in place, or in the backup if it has been moved.
Intact(t) == IF t \in moved THEN backup[t] = good ELSE file[t] = good
Whole ==
    /\ step \in {"none", "restart"} => \A t \in Targets : file[t] = good
    /\ step \notin {"none", "clean", "restore internal", "restart"} =>
          \A t \in Targets : Intact(t)
    /\ step = "restore internal" => file["exe"] = good /\ Intact("internal")
    /\ step \in {"copy exe", "copy internal", "launch", "watch", "settle", "clean"} =>
          moved = Targets

IInv ==
    /\ TypeOK /\ Layout /\ Replaced
    /\ Undamaged => Upgrade /\ \A t \in Targets : Kept(t)
    /\ Uncut => Whole

LEMMA InitInv == Init => IInv
<1> SUFFICES ASSUME Init PROVE IInv
  OBVIOUS
<1>1. TypeOK
  <2>1. 1 \in Versions /\ 1 \in Contents /\ Missing \in Contents
    BY BoundsAssumption DEF Versions, Contents
  <2>2. Nothing \in [Targets -> Contents] /\ file \in [Targets -> Contents]
    BY <2>1 DEF Init, Nothing
  <2>3. 0 \in 0 .. MaxFaults
    BY BoundsAssumption
  <2> QED BY <2>1, <2>2, <2>3 DEF Init, TypeOK, Places, Steps
<1>2. \A t \in Targets : file[t] = 1
  BY DEF Init
<1>3. Layout /\ Replaced
  BY DEF Init, Layout, Replaced
<1>4. Upgrade /\ \A t \in Targets : Kept(t)
  BY <1>2 DEF Init, Upgrade, Kept, Targets
<1>5. Whole
  BY <1>2 DEF Init, Whole, Intact
<1> QED BY <1>1, <1>3, <1>4, <1>5 DEF IInv

-----------------------------------------------------------------------------
(* Types.                                                                  *)

LEMMA Numbers ==
    /\ \A v \in Versions : v \in Int /\ v # Missing /\ v # Torn
    /\ 1 \in Versions /\ Versions \subseteq Contents
    /\ Missing \in Contents /\ Torn \in Contents /\ Missing # Torn
    /\ Nothing \in [Targets -> Contents] /\ \A t \in Targets : Nothing[t] = Missing
BY BoundsAssumption DEF Versions, Contents, Missing, Torn, Nothing, Targets

LEMMA Releases ==
    ASSUME TypeOK
    PROVE  good \in Int /\ published \in Int /\ version \in Int /\ good # Missing
BY Numbers DEF TypeOK

LEMMA FaultTypes == ASSUME TypeOK, Fault PROVE faults' \in 0 .. MaxFaults
<1>1. faults \in 0 .. MaxFaults /\ faults < MaxFaults /\ faults' = faults + 1
  BY DEF TypeOK, Fault
<1> QED BY <1>1, BoundsAssumption

LEMMA Rewritten ==
    ASSUME NEW f \in [Targets -> Contents], NEW t \in Targets, NEW c \in Contents
    PROVE  [f EXCEPT ![t] = c] \in [Targets -> Contents]
OBVIOUS

LEMMA MishapTypes ==
    ASSUME TypeOK, NEW m \in Mishaps
    PROVE  mishaps \cup {m} \subseteq Mishaps
BY DEF TypeOK

LEMMA MishapNames ==
    {"gave up", "death", "torn copy", "half cleaned", "no restore", "power"} \subseteq Mishaps
BY DEF Mishaps

\* What the script does to itself when it ends.
LEMMA OverTypes ==
    ASSUME TypeOK, Over
    PROVE  /\ step' = "none" /\ step' \in Steps /\ waits' \in Procs \cup {NoProc}
           /\ version' \in Versions /\ fresh' \in Procs \cup {NoProc} /\ moved' \subseteq Targets
           /\ backup' \in [Targets -> Contents] /\ marker' \in BOOLEAN
BY Numbers DEF TypeOK, Over, Steps

LEMMA OverLeavingTypes ==
    ASSUME TypeOK, OverLeaving
    PROVE  left' \subseteq Targets \X Contents
BY DEF TypeOK, OverLeaving

LEMMA StartTypes ==
    ASSUME TypeOK, NEW p \in Procs, NEW b \in BOOLEAN, Start(p, b)
    PROVE  /\ pc' \in [Procs -> Places] /\ proves' \in [Procs -> BOOLEAN]
           /\ code' \in [Procs -> [Targets -> Contents]]
BY DEF TypeOK, Start, Enter, Places

LEMMA EndsTypes ==
    ASSUME TypeOK, NEW p \in Procs, Ends(p)
    PROVE  /\ pc' \in [Procs -> Places] /\ proves' \in [Procs -> BOOLEAN]
           /\ code' \in [Procs -> [Targets -> Contents]] /\ lock' \in Procs \cup {NoProc}
BY Numbers DEF TypeOK, Ends, Enter, Places

LEMMA StageTypes ==
    ASSUME TypeOK, NEW p \in Procs, Stage(p)
    PROVE  step' \in Steps /\ waits' \in Procs \cup {NoProc} /\ version' \in Versions
BY DEF TypeOK, Stage, Goto, Steps

\* Steps of a process.
LEMMA ProgramTypes ==
    ASSUME TypeOK, NEW p \in Procs, Program(p) \/ User(p) \/ Die(p)
    PROVE  TypeOK'
<1>1. CASE TakeLock(p)
  BY <1>1 DEF TakeLock, TypeOK, Enter, Places, world, scriptVars, staged
<1>2. CASE CheckPasses(p)
  BY <1>2 DEF CheckPasses, TypeOK, Enter, Places, world, scriptVars, staged
<1>3. CASE CheckStages(p)
  <2>1. pc' \in [Procs -> Places]
    BY <1>3 DEF CheckStages, TypeOK, Enter, Places
  <2> QED BY <1>3, <2>1, StageTypes DEF CheckStages, Stage, TypeOK, world
<1>4. CASE Serve(p)
  <2>1. pc' \in [Procs -> Places] /\ proves' \in [Procs -> BOOLEAN]
    BY <1>4 DEF Serve, TypeOK, Enter, Places
  <2>2. marker' \in BOOLEAN
    BY <1>4 DEF Serve, TypeOK
  <2>3. faults' \in 0 .. MaxFaults
    BY <1>4, FaultTypes DEF Serve, TypeOK
  <2> QED BY <1>4, <2>1, <2>2, <2>3 DEF Serve, TypeOK, world, staged
<1>5. CASE Fails(p)
  <2>1. CASE Ends(p)
    BY <1>5, <2>1, EndsTypes DEF Fails, TypeOK, world, scriptVars, staged
  <2>2. CASE Enter(p, "failed") /\ UNCHANGED <<code, proves, lock>>
    <3>1. pc' \in [Procs -> Places]
      BY <2>2 DEF TypeOK, Enter, Places
    <3> QED BY <1>5, <2>2, <3>1 DEF Fails, TypeOK, world, scriptVars, staged
  <2> QED BY <1>5, <2>1, <2>2 DEF Fails
<1>6. CASE Exit(p)
  BY <1>6, EndsTypes DEF Exit, TypeOK, world, scriptVars, staged
<1>7. CASE UserStarts(p)
  BY <1>7, StartTypes DEF UserStarts, TypeOK, world, scriptVars, staged
<1>8. CASE Dismiss(p)
  BY <1>8, EndsTypes DEF Dismiss, TypeOK, world, scriptVars, staged
<1>9. CASE InstallRequest(p)
  <2>1. pc' \in [Procs -> Places]
    BY <1>9 DEF InstallRequest, TypeOK, Enter, Places
  <2> QED BY <1>9, <2>1, StageTypes DEF InstallRequest, Stage, TypeOK, world
<1>10. CASE ShutdownRequest(p)
  BY <1>10 DEF ShutdownRequest, TypeOK, Enter, Places, world, scriptVars, staged
<1>11. CASE Die(p)
  <2>1. mishaps' \subseteq Mishaps
    BY <1>11, MishapTypes, MishapNames DEF Die, TypeOK
  <2>2. faults' \in 0 .. MaxFaults
    BY <1>11, FaultTypes DEF Die
  <2> QED BY <1>11, <2>1, <2>2, EndsTypes DEF Die, TypeOK, world, scriptVars, staged
<1> QED BY <1>1, <1>2, <1>3, <1>4, <1>5, <1>6, <1>7, <1>8, <1>9, <1>10, <1>11
        DEF Program, User

LEMMA SaveTypes ==
    ASSUME TypeOK, NEW t \in Targets, NEW next \in Steps, Save(t, next)
    PROVE  TypeOK'
<1>1. /\ file' \in [Targets -> Contents] /\ backup' \in [Targets -> Contents]
      /\ moved' \subseteq Targets
  BY Numbers DEF Save, MoveToBackup, TypeOK
<1>2. step' \in Steps
  BY DEF Save, Goto, Steps
<1>3. faults' \in 0 .. MaxFaults
  BY FaultTypes DEF Save, TypeOK
<1> QED BY <1>1, <1>2, <1>3 DEF Save, TypeOK, world, progVars, staged

LEMMA RestoreTypes ==
    ASSUME TypeOK, NEW t \in Targets, NEW next \in Steps, Restore(t, next),
           UNCHANGED <<world, progVars, good>>
    PROVE  TypeOK'
<1>1. file' \in [Targets -> Contents]
  <2>1. /\ file \in [Targets -> Contents] /\ backup[t] \in Contents
        /\ {file[t], Missing, Torn} \subseteq Contents
    BY Numbers DEF TypeOK
  <2> QED BY <2>1, Rewritten DEF Restore
<1>2. mishaps' \subseteq Mishaps /\ faults' \in 0 .. MaxFaults
  <2>1. mishaps' \subseteq Mishaps
    BY MishapTypes, MishapNames DEF Restore, TypeOK
  <2>2. faults' \in 0 .. MaxFaults
    BY FaultTypes DEF Restore, TypeOK
  <2> QED BY <2>1, <2>2
<1>3. CASE OverLeaving
  BY <1>1, <1>2, <1>3, OverTypes, OverLeavingTypes DEF OverLeaving, TypeOK, world, progVars
<1>4. CASE ~OverLeaving
  <2>1. backup' \in [Targets -> Contents] /\ step' \in Steps
    BY <1>4, Numbers DEF Restore, TypeOK, Goto
  <2> QED BY <1>1, <1>2, <1>4, <2>1 DEF Restore, TypeOK, world, progVars, staged
<1> QED BY <1>3, <1>4

\* Steps of the script.
LEMMA ScriptTypes == ASSUME TypeOK, Script PROVE TypeOK'
<1>1. CASE OldExits
  BY <1>1 DEF OldExits, TypeOK, Goto, Steps, world, progVars, staged
<1>2. CASE GiveUp
  <2>1. mishaps' \subseteq Mishaps
    BY <1>2, MishapTypes, MishapNames DEF GiveUp
  <2>2. faults' \in 0 .. MaxFaults
    BY <1>2, FaultTypes DEF GiveUp
  <2> QED BY <1>2, <2>1, <2>2, OverTypes DEF GiveUp, TypeOK, world, progVars
<1>3. CASE SaveExe \/ SaveInternal
  <2>1. {"save internal", "copy exe"} \subseteq Steps /\ {"exe", "internal"} \subseteq Targets
    BY DEF Steps, Targets
  <2> QED BY <1>3, <2>1, SaveTypes DEF SaveExe, SaveInternal
<1>4. CASE CopyExe
  <2>1. file' \in [Targets -> Contents]
    <3>1. /\ file \in [Targets -> Contents] /\ "exe" \in Targets
          /\ {version, Missing, Torn} \subseteq Contents
      BY Numbers DEF TypeOK, Targets
    <3> QED BY <1>4, <3>1, Rewritten DEF CopyExe
  <2>2. step' \in Steps
    BY <1>4 DEF CopyExe, Goto, Steps
  <2>3. faults' \in 0 .. MaxFaults
    BY <1>4, FaultTypes DEF CopyExe, TypeOK
  <2> QED BY <1>4, <2>1, <2>2, <2>3 DEF CopyExe, TypeOK, world, progVars, staged
<1>5. CASE CopyInternal
  <2>1. file' \in [Targets -> Contents]
    BY <1>5, Numbers DEF CopyInternal, TypeOK
  <2>2. step' \in Steps
    BY <1>5 DEF CopyInternal, Goto, Steps
  <2>3. faults' \in 0 .. MaxFaults
    BY <1>5, FaultTypes DEF CopyInternal, TypeOK
  <2>4. mishaps' \subseteq Mishaps
    BY <1>5, MishapTypes, MishapNames DEF CopyInternal, TypeOK
  <2> QED BY <1>5, <2>1, <2>2, <2>3, <2>4 DEF CopyInternal, TypeOK, world, progVars, staged
<1>6. CASE Launch
  <2>1. step' \in Steps /\ faults' \in 0 .. MaxFaults
    <3>1. step' \in Steps
      BY <1>6 DEF Launch, Goto, Steps
    <3>2. faults' \in 0 .. MaxFaults
      BY <1>6, FaultTypes DEF Launch, TypeOK
    <3> QED BY <3>1, <3>2
  <2>2. CASE UNCHANGED <<pc, code, proves, fresh, marker>>
    BY <1>6, <2>1, <2>2 DEF Launch, TypeOK, world, staged
  <2>3. CASE ~UNCHANGED <<pc, code, proves, fresh, marker>>
    <3>1. PICK p \in Procs : Start(p, TRUE) /\ fresh' = p /\ marker' = FALSE
      BY <1>6, <2>3 DEF Launch
    <3>2. /\ pc' \in [Procs -> Places] /\ proves' \in [Procs -> BOOLEAN]
          /\ code' \in [Procs -> [Targets -> Contents]]
      BY <3>1, StartTypes
    <3> QED BY <1>6, <2>1, <3>1, <3>2 DEF Launch, TypeOK, world, staged
  <2> QED BY <2>2, <2>3
<1>7. CASE Watch
  <2>1. step' \in Steps /\ faults' \in 0 .. MaxFaults
    <3>1. step' \in Steps
      BY <1>7 DEF Watch, Goto, Steps
    <3>2. faults' \in 0 .. MaxFaults
      BY <1>7, FaultTypes DEF Watch, TypeOK
    <3> QED BY <3>1, <3>2
  <2> QED BY <1>7, <2>1 DEF Watch, TypeOK, world, progVars, staged
<1>8. CASE Settle
  BY <1>8 DEF Settle, TypeOK, Goto, Steps, world, progVars, staged
<1>9. CASE Clean
  <2>1. mishaps' \subseteq Mishaps /\ faults' \in 0 .. MaxFaults
    <3>1. mishaps' \subseteq Mishaps
      BY <1>9, MishapTypes, MishapNames DEF Clean, TypeOK
    <3>2. faults' \in 0 .. MaxFaults
      BY <1>9, FaultTypes DEF Clean, TypeOK
    <3> QED BY <3>1, <3>2
  <2>2. CASE Over
    BY <1>9, <2>1, <2>2, OverTypes DEF Clean, TypeOK, world, progVars
  <2>3. CASE ~Over
    <3>1. PICK rest \in {Missing, Torn} : backup' = [backup EXCEPT !["internal"] = rest]
      BY <1>9, <2>3 DEF Clean
    <3>2. backup' \in [Targets -> Contents]
      BY <3>1, Numbers DEF TypeOK
    <3>3. step' \in Steps
      BY <1>9, <2>3 DEF Clean, Goto, Steps
    <3> QED BY <1>9, <2>1, <2>3, <3>2, <3>3 DEF Clean, TypeOK, world, progVars, staged
  <2> QED BY <2>2, <2>3
<1>10. CASE Stop
  <2>1. step' \in Steps
    BY <1>10 DEF Stop, Goto, Steps
  <2>2. faults' \in 0 .. MaxFaults
    BY <1>10, FaultTypes DEF Stop, TypeOK
  <2>3. CASE UNCHANGED progVars
    BY <1>10, <2>1, <2>2, <2>3 DEF Stop, TypeOK, world, progVars, staged
  <2>4. CASE fresh \in Procs /\ Ends(fresh)
    BY <1>10, <2>1, <2>2, <2>4, EndsTypes DEF Stop, TypeOK, world, staged
  <2> QED BY <1>10, <2>3, <2>4 DEF Stop, TypeOK
<1>11. CASE RestoreExe \/ RestoreInternal
  <2>1. {"restore internal", "restart"} \subseteq Steps /\ {"exe", "internal"} \subseteq Targets
    BY DEF Steps, Targets
  <2> QED BY <1>11, <2>1, RestoreTypes DEF RestoreExe, RestoreInternal
<1>12. CASE Restart
  <2>1. /\ pc' \in [Procs -> Places] /\ proves' \in [Procs -> BOOLEAN]
        /\ code' \in [Procs -> [Targets -> Contents]]
    BY <1>12, StartTypes DEF Restart, TypeOK
  <2> QED BY <1>12, <2>1, OverTypes, OverLeavingTypes DEF Restart, OverLeaving, TypeOK, world
<1> QED BY <1>1, <1>2, <1>3, <1>4, <1>5, <1>6, <1>7, <1>8, <1>9, <1>10, <1>11, <1>12
        DEF Script

LEMMA WorldTypes == ASSUME TypeOK, PowerCut \/ Publish PROVE TypeOK'
<1>1. CASE PowerCut
  <2>1. file' \in [Targets -> Contents]
    BY <1>1, Numbers DEF PowerCut, TypeOK
  <2>2. /\ pc' \in [Procs -> Places] /\ proves' \in [Procs -> BOOLEAN]
        /\ code' \in [Procs -> [Targets -> Contents]] /\ lock' \in Procs \cup {NoProc}
    BY <1>1, Numbers DEF PowerCut, Places
  <2>3. mishaps' \subseteq Mishaps /\ faults' \in 0 .. MaxFaults
    <3>1. mishaps' \subseteq Mishaps
      BY <1>1, MishapTypes, MishapNames DEF PowerCut
    <3>2. faults' \in 0 .. MaxFaults
      BY <1>1, FaultTypes DEF PowerCut
    <3> QED BY <3>1, <3>2
  <2> QED BY <1>1, <2>1, <2>2, <2>3, OverTypes, OverLeavingTypes
          DEF PowerCut, OverLeaving, TypeOK, world
<1>2. CASE Publish
  BY <1>2, BoundsAssumption DEF Publish, TypeOK, Versions, progVars, scriptVars, staged
<1> QED BY <1>1, <1>2

LEMMA Types == ASSUME TypeOK, [Next]_vars PROVE TypeOK'
<1>1. CASE UNCHANGED vars
  BY <1>1 DEF vars, TypeOK, world, progVars, scriptVars, staged
<1> QED BY <1>1, ProgramTypes, ScriptTypes, WorldTypes DEF Next

-----------------------------------------------------------------------------
(* Steps that move no file of the installation.                            *)

\* The program, its user and the processes that die: the files, the script and
\* what it has moved stay as they are.
LEMMA QuietStep ==
    ASSUME IInv, TypeOK', UNCHANGED <<published, file, step, version, moved, backup, left, good>>,
           mishaps' \in {mishaps, mishaps \cup {"death"}}
    PROVE  IInv'
<1>1. Layout' /\ Replaced'
  BY DEF IInv, Layout, Replaced, New
<1>2. ASSUME Undamaged' PROVE Upgrade' /\ \A t \in Targets : Kept(t)'
  BY <1>2 DEF IInv, Undamaged, Upgrade, Kept
<1>3. ASSUME Uncut' PROVE Whole'
  BY <1>3 DEF IInv, Uncut, Whole, Intact
<1> QED BY <1>1, <1>2, <1>3 DEF IInv

\* An update is staged over an older release only.
LEMMA StageStep ==
    ASSUME IInv, TypeOK', NEW p \in Procs, Stage(p), UNCHANGED <<world, file, good, mishaps>>
    PROVE  IInv'
<1>1. /\ step = "none" /\ step' = "waiting" /\ version' = published
      /\ published > file["internal"]
      /\ UNCHANGED <<published, file, moved, backup, left, good, mishaps>>
  BY DEF Stage, Idle, Goto, world
<1>2. Layout' /\ Replaced'
  BY <1>1 DEF IInv, Layout, Replaced
<1>3. ASSUME Undamaged' PROVE Upgrade' /\ \A t \in Targets : Kept(t)'
  <2>1. Upgrade /\ (\A t \in Targets : Kept(t)) /\ good \in Int /\ published \in Int
    BY <1>1, <1>3, Releases DEF IInv, Undamaged
  <2>2. good < published
    BY <1>1, <2>1 DEF Upgrade
  <2> QED BY <1>1, <2>1, <2>2 DEF Upgrade, Kept
<1>4. ASSUME Uncut' PROVE Whole'
  BY <1>1, <1>4 DEF IInv, Uncut, Whole, Intact, Layout
<1> QED BY <1>2, <1>3, <1>4 DEF IInv

LEMMA ProcessStep ==
    ASSUME IInv, TypeOK', NEW p \in Procs, Program(p) \/ User(p) \/ Die(p)
    PROVE  IInv'
<1>1. CASE CheckStages(p) \/ InstallRequest(p)
  BY <1>1, StageStep DEF CheckStages, InstallRequest
<1>2. CASE ~(CheckStages(p) \/ InstallRequest(p))
  <2>1. UNCHANGED <<published, file, step, version, moved, backup, left, good>>
    BY <1>2 DEF Program, User, TakeLock, CheckPasses, Serve, Fails, Exit, UserStarts, Dismiss,
                ShutdownRequest, Die, world, scriptVars, staged
  <2>2. mishaps' \in {mishaps, mishaps \cup {"death"}}
    BY <1>2 DEF Program, User, TakeLock, CheckPasses, Serve, Fails, Exit, UserStarts, Dismiss,
                ShutdownRequest, Die
  <2> QED BY <2>1, <2>2, QuietStep
<1> QED BY <1>1, <1>2

LEMMA PublishStep == ASSUME IInv, TypeOK', Publish PROVE IInv'
<1>1. /\ step = "none" /\ published' = published + 1
      /\ UNCHANGED <<file, step, version, moved, backup, left, good, mishaps>>
  BY DEF Publish, Idle, scriptVars, staged
<1>2. Layout' /\ Replaced'
  BY <1>1 DEF IInv, Layout, Replaced
<1>3. ASSUME Undamaged' PROVE Upgrade' /\ \A t \in Targets : Kept(t)'
  <2>1. Upgrade /\ (\A t \in Targets : Kept(t)) /\ good \in Int /\ published \in Int
    BY <1>1, <1>3, Releases DEF IInv, Undamaged
  <2> QED BY <1>1, <2>1 DEF Upgrade, Kept
<1>4. ASSUME Uncut' PROVE Whole'
  BY <1>1, <1>4 DEF IInv, Uncut, Whole
<1> QED BY <1>2, <1>3, <1>4 DEF IInv

-----------------------------------------------------------------------------
(* The script: forward.                                                    *)

\* Steps that only go on, or turn back to the roll-back.
LEMMA GoStep ==
    ASSUME IInv, TypeOK', UNCHANGED <<published, file, version, moved, backup, left, good, mishaps>>,
           \/ step = "waiting" /\ step' = "save exe"
           \/ step = "save exe" /\ step' = "stop"
           \/ step = "save internal" /\ step' = "stop"
           \/ step = "launch" /\ step' \in {"watch", "stop"}
           \/ step = "watch" /\ step' \in {"settle", "stop"}
           \/ step = "settle" /\ step' = "stop"
           \/ step = "stop" /\ step' = "restore exe"
    PROVE  IInv'
<1>1. Layout'
  BY DEF IInv, Layout
<1>2. Replaced'
  BY DEF IInv, Layout, Replaced, New
<1>3. ASSUME Undamaged' PROVE Upgrade' /\ \A t \in Targets : Kept(t)'
  BY <1>3 DEF IInv, Undamaged, Upgrade, Kept
<1>4. ASSUME Uncut' PROVE Whole'
  BY <1>4 DEF IInv, Uncut, Whole, Intact
<1> QED BY <1>1, <1>2, <1>3, <1>4 DEF IInv

\* Moving Pawgram.exe, or finding that it is not there.
LEMMA SaveExeStep == ASSUME IInv, TypeOK', SaveExe PROVE IInv'
<1>1. /\ step = "save exe" /\ moved = {} /\ backup = Nothing
      /\ UNCHANGED <<published, version, left, good, mishaps>>
  BY DEF SaveExe, Save, IInv, Layout, world, staged
<1>2. CASE step' = "stop"
  <2>1. UNCHANGED <<file, moved, backup>>
    BY <1>2 DEF SaveExe, Save, Goto
  <2> QED BY <1>1, <1>2, <2>1, GoStep
<1>3. CASE step' # "stop"
  <2>1. /\ step' = "save internal" /\ moved' \subseteq {"exe"}
        /\ "exe" \in moved' => file' = [file EXCEPT !["exe"] = Missing]
                               /\ backup' = [backup EXCEPT !["exe"] = file["exe"]]
        /\ "exe" \notin moved' => UNCHANGED <<file, backup>> /\ file["exe"] = Missing
    BY <1>1, <1>3 DEF SaveExe, Save, Goto, MoveToBackup
  <2>2. /\ file'["exe"] = Missing /\ file'["internal"] = file["internal"]
        /\ backup'["internal"] = Missing
        /\ "exe" \in moved' => backup'["exe"] = file["exe"]
        /\ "exe" \notin moved' => backup'["exe"] = Missing
    BY <1>1, <2>1, Numbers DEF IInv, TypeOK, Targets
  <2>3. Layout' /\ Replaced'
    BY <2>1, <2>2 DEF Layout, Replaced, New
  <2>4. ASSUME Undamaged' PROVE Upgrade' /\ \A t \in Targets : Kept(t)'
    <3>1. good # Missing
      BY Numbers DEF IInv, TypeOK
    <3>2. Upgrade /\ Kept("exe") /\ Kept("internal")
      BY <1>1, <2>4 DEF IInv, Undamaged, Targets
    <3>3. backup["exe"] = Missing /\ backup["internal"] = Missing
      BY <1>1, Numbers DEF Targets
    <3>4. Kept("exe")' /\ Kept("internal")'
      BY <1>1, <2>1, <2>2, <3>1, <3>2, <3>3 DEF Kept
    <3>5. Upgrade'
      BY <1>1, <2>1, <3>2 DEF Upgrade
    <3> QED BY <3>4, <3>5 DEF Targets
  <2>5. ASSUME Uncut' PROVE Whole'
    <3>1. file["exe"] = good /\ file["internal"] = good /\ good # Missing
      BY <1>1, <2>5, Numbers DEF IInv, TypeOK, Uncut, Whole, Intact, Targets
    <3>2. "exe" \in moved' /\ "internal" \notin moved'
      BY <2>1, <3>1
    <3> QED BY <1>1, <2>1, <2>2, <3>1, <3>2 DEF Whole, Intact, Targets
  <2> QED BY <2>3, <2>4, <2>5 DEF IInv
<1> QED BY <1>2, <1>3

\* Moving _internal.
LEMMA SaveInternalStep == ASSUME IInv, TypeOK', SaveInternal PROVE IInv'
<1>1. /\ step = "save internal" /\ "internal" \notin moved /\ backup["internal"] = Missing
      /\ UNCHANGED <<published, version, left, good, mishaps>>
  BY DEF SaveInternal, Save, IInv, Layout, world, staged
<1>2. CASE step' = "stop"
  <2>1. UNCHANGED <<file, moved, backup>>
    BY <1>2 DEF SaveInternal, Save, Goto
  <2> QED BY <1>1, <1>2, <2>1, GoStep
<1>3. CASE step' # "stop"
  <2>1. /\ step' = "copy exe"
        /\ \/ /\ moved' = moved \cup {"internal"} /\ file' = [file EXCEPT !["internal"] = Missing]
              /\ backup' = [backup EXCEPT !["internal"] = file["internal"]]
           \/ UNCHANGED <<file, backup, moved>> /\ file["internal"] = Missing
    BY <1>1, <1>3 DEF SaveInternal, Save, Goto, MoveToBackup
  <2>2. /\ file'["internal"] = Missing /\ file'["exe"] = file["exe"]
        /\ backup'["exe"] = backup["exe"] /\ ("exe" \in moved' <=> "exe" \in moved)
        /\ backup'["internal"] = file["internal"]
        /\ "internal" \in moved' \/ file["internal"] = Missing
    <3>1. /\ file \in [Targets -> Contents] /\ backup \in [Targets -> Contents]
          /\ Targets = {"exe", "internal"} /\ "exe" # "internal"
      BY DEF IInv, TypeOK, Targets
    <3>2. backup["internal"] = Missing
      BY <1>1 DEF IInv, Layout
    <3> QED BY <2>1, <3>1, <3>2
  <2>3. file["exe"] = Missing
    BY <1>1 DEF IInv, Layout
  <2>4. Layout' /\ Replaced'
    <3>1. \A t \in Targets : file'[t] = Missing
      BY <2>2, <2>3 DEF Targets
    <3>2. moved' \subseteq Targets
      BY DEF TypeOK
    <3> QED BY <2>1, <3>1, <3>2 DEF Layout, Replaced, New
  <2>5. ASSUME Undamaged' PROVE Upgrade' /\ \A t \in Targets : Kept(t)'
    <3>1. Upgrade /\ Kept("exe") /\ Kept("internal") /\ good # Missing
      BY <1>1, <2>5, Releases DEF IInv, Undamaged, Targets
    <3>2. Kept("exe")' /\ Kept("internal")'
      BY <1>1, <2>2, <3>1 DEF Kept
    <3>3. Upgrade'
      BY <1>1, <2>1, <3>1 DEF Upgrade
    <3> QED BY <3>2, <3>3 DEF Targets
  <2>6. ASSUME Uncut' PROVE Whole'
    <3>1. Intact("exe") /\ Intact("internal") /\ good # Missing
      BY <1>1, <2>6, Releases DEF IInv, Uncut, Whole, Targets
    <3>2. "exe" \in moved /\ backup["exe"] = good /\ file["internal"] = good
      BY <1>1, <2>3, <3>1 DEF Intact
    <3>3. moved' = Targets
      BY <2>2, <3>1, <3>2 DEF TypeOK, Targets
    <3> QED BY <1>1, <2>1, <2>2, <3>2, <3>3 DEF Whole, Intact, Targets
  <2> QED BY <2>4, <2>5, <2>6 DEF IInv
<1> QED BY <1>2, <1>3

\* Copying over what is not there any more.
LEMMA CopyStep ==
    ASSUME IInv, TypeOK', NEW t \in Targets, NEW x \in {Missing, Torn, version},
           file' = [file EXCEPT ![t] = x], file[t] = Missing,
           UNCHANGED <<published, version, moved, backup, left, good>>,
           \/ step = "copy exe" /\ step' \in {"copy internal", "stop"}
           \/ step = "copy internal" /\ step' \in {"launch", "stop"},
           step' = "copy internal" => t = "exe" /\ x = version,
           step' = "launch" /\ Undamaged' => t = "internal" /\ x = version,
           mishaps \subseteq mishaps', Uncut' => Undamaged'
    PROVE  IInv'
<1>1. /\ file'[t] = x
      /\ \A u \in Targets : u # t => file'[u] = file[u]
  BY DEF IInv, TypeOK
<1>2. Layout'
  BY <1>1 DEF IInv, Layout, Targets
<1>3. Replaced'
  BY <1>1 DEF IInv, Replaced, New, TypeOK
<1>4. ASSUME Undamaged' PROVE Upgrade' /\ \A u \in Targets : Kept(u)'
  <2>1. Upgrade /\ (\A u \in Targets : Kept(u)) /\ good # Missing
    BY <1>4, Releases DEF IInv, Undamaged
  <2>2. \A u \in Targets : Kept(u)'
    BY <1>1, <2>1 DEF Kept
  <2>3. step' = "launch" => \A u \in Targets : file'[u] = version
    BY <1>1, <1>4 DEF IInv, Layout, Targets
  <2> QED BY <2>1, <2>2, <2>3 DEF Upgrade
<1>5. ASSUME Uncut' PROVE Whole'
  <2>1. Whole
    BY <1>5 DEF IInv, Uncut
  <2> QED BY <2>1 DEF Whole, Intact
<1> QED BY <1>2, <1>3, <1>4, <1>5 DEF IInv

LEMMA CopyExeStep == ASSUME IInv, TypeOK', CopyExe PROVE IInv'
<1>1. /\ step = "copy exe" /\ step' \in {"copy internal", "stop"}
      /\ UNCHANGED <<published, version, moved, backup, left, good, mishaps>>
      /\ file["exe"] = Missing /\ "exe" \in Targets
  BY DEF CopyExe, Goto, world, staged, IInv, Layout, Targets
<1>2. PICK x \in {Missing, Torn, version} :
          file' = [file EXCEPT !["exe"] = x] /\ (step' = "copy internal" => x = version)
  BY DEF CopyExe, Goto
<1>3. Uncut' => Undamaged'
  BY DEF Uncut, Undamaged
<1> QED BY <1>1, <1>2, <1>3, CopyStep

LEMMA CopyInternalStep == ASSUME IInv, TypeOK', CopyInternal PROVE IInv'
<1>1. /\ step = "copy internal" /\ step' \in {"launch", "stop"} /\ mishaps \subseteq mishaps'
      /\ UNCHANGED <<published, version, moved, backup, left, good>>
      /\ file["internal"] = Missing /\ "internal" \in Targets
  BY DEF CopyInternal, Goto, world, staged, IInv, Layout, Targets
<1>2. PICK x \in {Missing, Torn, version} :
          /\ file' = [file EXCEPT !["internal"] = x]
          /\ step' = "launch" /\ Undamaged' => x = version
  BY DEF CopyInternal, Goto, Undamaged
<1>3. Uncut' => Undamaged'
  BY DEF Uncut, Undamaged
<1> QED BY <1>1, <1>2, <1>3, CopyStep

\* The new release has proved itself.
LEMMA SettleStep == ASSUME IInv, TypeOK', Settle PROVE IInv'
<1>1. /\ step = "settle"
      /\ UNCHANGED <<published, file, version, moved, backup, left, mishaps>>
  BY DEF Settle, world, staged
<1>2. CASE step' = "stop"
  <2>1. good' = good
    BY <1>2 DEF Settle, Goto
  <2> QED BY <1>1, <1>2, <2>1, GoStep
<1>3. CASE step' # "stop"
  <2>1. step' = "clean" /\ good' = version
    BY <1>3 DEF Settle, Goto
  <2>2. Layout' /\ Replaced'
    BY <1>1, <2>1 DEF IInv, Layout, Replaced, New
  <2>3. ASSUME Undamaged' PROVE Upgrade' /\ \A t \in Targets : Kept(t)'
    <3>1. Upgrade /\ published \in Int
      BY <1>1, <2>3, Releases DEF IInv, Undamaged
    <3> QED BY <1>1, <2>1, <3>1 DEF Upgrade, Kept
  <2>4. ASSUME Uncut' PROVE Whole'
    <3>1. Whole
      BY <1>1, <2>4 DEF IInv, Uncut
    <3> QED BY <1>1, <2>1, <3>1 DEF Whole
  <2> QED BY <2>2, <2>3, <2>4 DEF IInv
<1> QED BY <1>2, <1>3

\* The backup of the old release goes when the new one is the good one.
LEMMA CleanStep == ASSUME IInv, TypeOK', Clean PROVE IInv'
<1>1. step = "clean" /\ UNCHANGED <<published, file, left, good>>
  BY DEF Clean, world
<1>2. CASE Over
  <2>1. /\ step' = "none" /\ moved' = {} /\ backup' = Nothing /\ mishaps' = mishaps
    BY <1>1, <1>2 DEF Over, Clean, Goto
  <2>2. Layout' /\ Replaced'
    BY <2>1 DEF Layout, Replaced
  <2>3. ASSUME Undamaged PROVE Upgrade /\ \A t \in Targets : file[t] = good
    BY <1>1, <2>3 DEF IInv, Upgrade
  <2>4. ASSUME Undamaged' PROVE Upgrade' /\ \A t \in Targets : Kept(t)'
    <3>1. Upgrade /\ \A t \in Targets : file[t] = good
      BY <2>1, <2>3, <2>4 DEF Undamaged
    <3> QED BY <1>1, <2>1, <3>1 DEF Upgrade, Kept, Targets
  <2>5. ASSUME Uncut' PROVE Whole'
    <3>1. Undamaged
      BY <2>1, <2>5 DEF Uncut, Undamaged
    <3> QED BY <1>1, <2>1, <2>3, <3>1 DEF Whole
  <2> QED BY <2>2, <2>4, <2>5 DEF IInv
<1>3. CASE ~Over
  <2>1. /\ step' = "stop" /\ "half cleaned" \in mishaps' /\ UNCHANGED <<moved, version>>
    BY <1>3 DEF Clean, Goto, staged
  <2>2. Layout' /\ Replaced'
    BY <1>1, <2>1 DEF IInv, Layout, Replaced, New
  <2> QED BY <2>1, <2>2 DEF IInv, Undamaged, Uncut
<1> QED BY <1>2, <1>3

\* 90 seconds are over before anything has been touched.
LEMMA GiveUpStep == ASSUME IInv, TypeOK', GiveUp PROVE IInv'
<1>1. /\ step = "waiting" /\ step' = "none" /\ moved = {} /\ moved' = {}
      /\ backup = Nothing /\ backup' = Nothing
      /\ mishaps' = mishaps \cup {"gave up"} /\ UNCHANGED <<published, file, left, good>>
  BY DEF GiveUp, Over, IInv, Layout, world
<1>2. Layout' /\ Replaced'
  BY <1>1 DEF Layout, Replaced
<1>3. ASSUME Undamaged' PROVE Upgrade' /\ \A t \in Targets : Kept(t)'
  <2>1. Upgrade /\ (\A t \in Targets : Kept(t)) /\ good \in Int /\ published \in Int
    BY <1>1, <1>3, Releases DEF IInv, Undamaged
  <2>2. good < published
    BY <1>1, <2>1 DEF Upgrade
  <2>3. \A t \in Targets : Kept(t)'
    BY <1>1, <2>1 DEF Kept
  <2>4. good' = good /\ published' = published /\ step' = "none"
    BY <1>1
  <2>5. good <= published /\ good # published
    BY <2>1, <2>2
  <2> QED BY <2>3, <2>4, <2>5 DEF Upgrade
<1>4. ASSUME Uncut' PROVE Whole'
  <2>1. Whole
    BY <1>1, <1>4 DEF IInv, Uncut
  <2> QED BY <1>1, <2>1 DEF Whole, Intact
<1> QED BY <1>2, <1>3, <1>4 DEF IInv

-----------------------------------------------------------------------------
(* The script: back, and cut short.                                        *)

\* What is replaced is not the good release.
LEMMA NewIsNotGood ==
    ASSUME IInv, Undamaged, NEW t \in Targets, New(t), step \notin {"none", "clean"}
    PROVE  file[t] # good
<1>1. good \in Versions /\ good \in Int /\ version \in Int
  BY Releases DEF IInv, TypeOK
<1>2. good < version
  BY DEF IInv, Upgrade
<1> QED BY <1>1, <1>2, Numbers DEF New

\* A script that ends leaves what it has in its backup.
LEMMA LeavingKeeps ==
    ASSUME IInv, OverLeaving, good' = good, NEW t \in Targets,
           good = backup[t] \/ <<t, good>> \in left
    PROVE  <<t, good>> \in left'
<1>1. good # Missing
  BY Releases DEF IInv
<1> QED BY <1>1 DEF OverLeaving

\* A script that ends on the way back, or is cut short.
LEMMA LeavingStep ==
    ASSUME IInv, TypeOK', OverLeaving, UNCHANGED <<published, good>>,
           mishaps \subseteq mishaps',
           Undamaged => \A t \in Targets : file'[t] = file[t] \/ file[t] # good,
           step \in {"none", "clean"} => file' = file,
           Uncut' => Uncut /\ step \in {"none", "restart"} /\ file' = file
    PROVE  IInv'
<1>1. step' = "none" /\ moved' = {} /\ backup' = Nothing
  BY DEF OverLeaving, Over
<1>2. Layout' /\ Replaced'
  BY <1>1 DEF Layout, Replaced
<1>3. ASSUME Undamaged' PROVE Upgrade' /\ \A t \in Targets : Kept(t)'
  <2>1. Undamaged
    BY <1>3 DEF Undamaged
  <2>2. Upgrade /\ (\A t \in Targets : Kept(t)) /\ good \in Int /\ published \in Int
    BY <2>1, Releases DEF IInv
  <2>3. ASSUME NEW t \in Targets PROVE Kept(t)'
    <3>1. file'[t] = good \/ good = backup[t] \/ <<t, good>> \in left
      BY <2>1, <2>2 DEF Kept
    <3> QED BY <3>1, LeavingKeeps DEF Kept
  <2>4. CASE step = "none"
    BY <1>1, <2>2, <2>3, <2>4 DEF Upgrade
  <2>5. CASE step = "clean"
    <3>1. /\ good <= published /\ published = version /\ file["internal"] = version
          /\ file' = file
      BY <2>2, <2>5 DEF Upgrade, Targets
    <3> QED BY <1>1, <2>3, <3>1 DEF Upgrade
  <2>6. CASE step \notin {"none", "clean"}
    <3>1. good < published
      BY <2>2, <2>6 DEF Upgrade
    <3>2. good <= published /\ good # published
      BY <2>2, <3>1
    <3> QED BY <1>1, <2>3, <3>2 DEF Upgrade
  <2> QED BY <2>4, <2>5, <2>6
<1>4. ASSUME Uncut' PROVE Whole'
  <2>1. \A t \in Targets : file[t] = good
    BY <1>4 DEF IInv, Whole
  <2> QED BY <1>1, <1>4, <2>1 DEF Whole
<1> QED BY <1>2, <1>3, <1>4 DEF IInv

LEMMA RestoreStep ==
    ASSUME IInv, TypeOK', NEW t \in Targets, NEW next, Restore(t, next),
           UNCHANGED <<world, progVars, good>>,
           \/ step = "restore exe" /\ t = "exe" /\ next = "restore internal"
           \/ step = "restore internal" /\ t = "internal" /\ next = "restart"
    PROVE  IInv'
<1>1. published' = published /\ good' = good
  BY DEF world
<1>2. t \in moved => New(t)
  BY DEF IInv, Replaced
<1>3. Undamaged => Upgrade /\ (\A u \in Targets : Kept(u)) /\ good # Missing
  BY Releases DEF IInv
<1>4. CASE /\ t \notin moved \/ backup[t] = Missing
           /\ step' = next /\ UNCHANGED <<file, version, moved, backup, left, mishaps>>
  <2>1. Layout' /\ Replaced'
    BY <1>4 DEF IInv, Layout, Replaced, New
  <2>2. ASSUME Undamaged' PROVE Upgrade' /\ \A u \in Targets : Kept(u)'
    <3>1. Undamaged
      BY <1>4, <2>2 DEF Undamaged
    <3> QED BY <1>1, <1>3, <1>4, <3>1 DEF Upgrade, Kept
  <2>3. ASSUME Uncut' PROVE Whole'
    <3>1. Uncut /\ good # Missing
      BY <1>4, <2>3, Releases DEF IInv, Uncut
    <3>2. Intact(t) /\ Whole
      BY <3>1 DEF IInv, Whole
    <3>3. file[t] = good
      BY <1>4, <3>1, <3>2 DEF Intact
    <3> QED BY <1>1, <1>4, <3>2, <3>3 DEF Whole, Intact, Targets
  <2> QED BY <2>1, <2>2, <2>3 DEF IInv
<1>5. CASE /\ t \in moved /\ backup[t] # Missing /\ step' = next
           /\ file' = [file EXCEPT ![t] = backup[t]]
           /\ backup' = [backup EXCEPT ![t] = Missing]
           /\ UNCHANGED <<version, moved, left, mishaps>>
  <2>1. /\ file'[t] = backup[t]
        /\ \A u \in Targets : u # t => file'[u] = file[u] /\ backup'[u] = backup[u]
    BY <1>5 DEF IInv, TypeOK
  <2>2. Layout' /\ Replaced'
    <3>1. step' = "restore internal" => t = "exe" /\ New("internal")' = New("internal")
      BY <1>5, <2>1 DEF New, Targets
    <3> QED BY <1>5, <3>1 DEF IInv, Layout, Replaced
  <2>3. ASSUME Undamaged' PROVE Upgrade' /\ \A u \in Targets : Kept(u)'
    <3>1. Undamaged
      BY <1>5, <2>3 DEF Undamaged
    <3>2. Kept(t)'
      <4>1. file[t] # good
        BY <1>2, <1>5, <3>1, NewIsNotGood
      <4> QED BY <1>1, <1>3, <1>5, <2>1, <3>1, <4>1 DEF Kept
    <3>3. \A u \in Targets : u # t => Kept(u)'
      BY <1>1, <1>3, <1>5, <2>1, <3>1 DEF Kept
    <3>4. Upgrade'
      BY <1>1, <1>3, <1>5, <3>1 DEF Upgrade
    <3> QED BY <3>2, <3>3, <3>4
  <2>4. ASSUME Uncut' PROVE Whole'
    <3>1. Intact(t) /\ Whole
      BY <1>5, <2>4 DEF IInv, Whole, Uncut
    <3>2. file'[t] = good
      BY <1>5, <2>1, <3>1 DEF Intact
    <3> QED BY <1>1, <1>5, <2>1, <3>1, <3>2 DEF Whole, Intact, Targets
  <2> QED BY <2>2, <2>3, <2>4 DEF IInv
<1>6. CASE /\ t \in moved /\ OverLeaving /\ mishaps' = mishaps \cup {"no restore"}
           /\ \E rest \in {file[t], Missing, Torn} : file' = [file EXCEPT ![t] = rest]
  <2>1. \A u \in Targets : u # t => file'[u] = file[u]
    BY <1>6 DEF IInv, TypeOK
  <2>2. Undamaged => \A u \in Targets : file'[u] = file[u] \/ file[u] # good
    BY <1>2, <1>6, <2>1, NewIsNotGood
  <2>3. ~Uncut'
    BY <1>6 DEF Uncut
  <2> QED BY <1>1, <1>6, <2>2, <2>3, LeavingStep
<1>7. \/ /\ t \notin moved \/ backup[t] = Missing
         /\ step' = next /\ UNCHANGED <<file, version, moved, backup, left, mishaps>>
      \/ /\ t \in moved /\ backup[t] # Missing /\ step' = next
         /\ file' = [file EXCEPT ![t] = backup[t]]
         /\ backup' = [backup EXCEPT ![t] = Missing]
         /\ UNCHANGED <<version, moved, left, mishaps>>
      \/ /\ t \in moved /\ OverLeaving /\ mishaps' = mishaps \cup {"no restore"}
         /\ \E rest \in {file[t], Missing, Torn} : file' = [file EXCEPT ![t] = rest]
  BY DEF Restore, Goto, staged
<1> QED BY <1>4, <1>5, <1>6, <1>7

LEMMA RestartStep == ASSUME IInv, TypeOK', Restart PROVE IInv'
BY LeavingStep DEF Restart, world, Uncut

LEMMA PowerCutStep == ASSUME IInv, TypeOK', PowerCut PROVE IInv'
<1>1. /\ OverLeaving /\ UNCHANGED <<published, good>>
      /\ mishaps' = mishaps \cup {IF Idle THEN "death" ELSE "power"}
      /\ \A t \in Targets : t \notin Writes => file'[t] = file[t]
  BY DEF PowerCut, world
<1>2. \A t \in Writes : New(t) /\ step \notin {"none", "clean"}
  <2>1. CASE step = "copy exe"
    <3>1. Writes = {"exe"}
      BY <2>1 DEF Writes
    <3>2. New("exe")
      BY <2>1 DEF IInv, Layout, New, Targets
    <3> QED BY <2>1, <3>1, <3>2
  <2>2. CASE step = "copy internal"
    <3>1. Writes = {"internal"}
      BY <2>2 DEF Writes
    <3>2. New("internal")
      BY <2>2 DEF IInv, Layout, New, Targets
    <3> QED BY <2>2, <3>1, <3>2
  <2>3. CASE step = "restore exe"
    <3>1. Writes = {"exe"} \cap moved
      BY <2>3 DEF Writes
    <3>2. \A t \in moved : New(t)
      BY <2>3 DEF IInv, Replaced
    <3> QED BY <2>3, <3>1, <3>2
  <2>4. CASE step = "restore internal"
    <3>1. Writes = {"internal"} \cap moved
      BY <2>4 DEF Writes
    <3>2. "internal" \in moved => New("internal")
      BY <2>4 DEF IInv, Replaced
    <3> QED BY <2>4, <3>1, <3>2
  <2>5. CASE step \notin {"copy exe", "copy internal", "restore exe", "restore internal"}
    <3>1. Writes = {}
      BY <2>5 DEF Writes
    <3> QED BY <3>1
  <2> QED BY <2>1, <2>2, <2>3, <2>4, <2>5
<1>3. Undamaged => \A t \in Targets : file'[t] = file[t] \/ file[t] # good
  BY <1>1, <1>2, NewIsNotGood
<1>4. step \in {"none", "clean"} => file' = file
  <2>1. step \in {"none", "clean"} => Writes = {}
    BY <1>2
  <2> QED BY <2>1 DEF PowerCut, IInv, TypeOK
<1>5. Uncut' => Uncut /\ step = "none"
  BY <1>1 DEF Uncut, Idle
<1> QED BY <1>1, <1>3, <1>4, <1>5, LeavingStep

-----------------------------------------------------------------------------
(* The theorems.                                                           *)

LEMMA ScriptStep == ASSUME IInv, TypeOK', Script PROVE IInv'
<1>1. CASE OldExits \/ Launch \/ Watch \/ Stop
  <2>1. UNCHANGED <<published, file, version, moved, backup, left, good, mishaps>>
    BY <1>1 DEF OldExits, Launch, Watch, Stop, world, staged
  <2>2. \/ step = "waiting" /\ step' = "save exe"
        \/ step = "launch" /\ step' \in {"watch", "stop"}
        \/ step = "watch" /\ step' \in {"settle", "stop"}
        \/ step = "stop" /\ step' = "restore exe"
    BY <1>1 DEF OldExits, Launch, Watch, Stop, Goto
  <2> QED BY <2>1, <2>2, GoStep
<1>2. CASE RestoreExe
  BY <1>2, RestoreStep DEF RestoreExe, Targets
<1>3. CASE RestoreInternal
  BY <1>3, RestoreStep DEF RestoreInternal, Targets
<1> QED BY <1>1, <1>2, <1>3, GiveUpStep, SaveExeStep, SaveInternalStep, CopyExeStep,
           CopyInternalStep, SettleStep, CleanStep, RestartStep DEF Script

LEMMA NextInv == ASSUME IInv, [Next]_vars PROVE IInv'
<1>1. TypeOK'
  BY Types DEF IInv
<1>2. CASE UNCHANGED vars
  BY <1>1, <1>2, QuietStep DEF vars, world, scriptVars, staged
<1> QED BY <1>1, <1>2, ProcessStep, ScriptStep, PowerCutStep, PublishStep DEF Next

\* The invariant holds in every reachable state.
THEOREM Invariance == Spec => []IInv
<1>1. IInv /\ [Next]_vars => IInv'
  BY NextInv
<1> QED BY <1>1, InitInv, PTL DEF Spec

\* Every variable keeps its type, the contents of the backups included.
THEOREM TypeCorrect == Spec => []TypeOK
<1>1. IInv => TypeOK
  BY DEF IInv
<1> QED BY <1>1, Invariance, PTL

\* However many operations fail and however often the power is cut: the last
\* release that has proved itself is on the disk.
THEOREM NothingLost == Spec => []Restorable
<1>1. IInv => Restorable
  BY DEF IInv, Undamaged, Kept, Restorable
<1> QED BY <1>1, Invariance, PTL

\* An update is there as a whole or not at all, unless the power was cut, the
\* roll-back failed, a copy was torn or the backup half deleted.
THEOREM Atomic == Spec => []AllOrNothing
<1>1. IInv => AllOrNothing
  BY DEF IInv, Uncut, Whole, AllOrNothing, Idle
<1> QED BY <1>1, Invariance, PTL
=============================================================================
