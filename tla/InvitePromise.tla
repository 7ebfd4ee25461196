--------------------------- MODULE InvitePromise ---------------------------
(***************************************************************************)
(* What execute_invite_job promises to whoever approved a job: every       *)
(* selected candidate is decided once and for good, a user is added to the *)
(* group with the decision about him and never beside it, but for the one  *)
(* request a crash may cut off from its answer, and a job is 'completed'   *)
(* when everybody is decided, not before, and then for good.  Which        *)
(* session asks, and how often it waits, fails or is replaced, is left to  *)
(* the executor.                                                           *)
(***************************************************************************)
CONSTANTS Jobs,        \* ids of transfer_jobs rows
          Candidates   \* ids of the selected job_candidates rows of each job

VARIABLES verdict,     \* the status of each candidate of each job
          added,       \* whom Telegram has added for each job
          lost,        \* whom it has added without anybody hearing of it
          finished     \* the jobs that are 'completed'

Verdicts == {"invited", "existing", "skipped", "failed"}
Undecided(j) == {c \in Candidates : verdict[j][c] = "eligible"}

Init ==
    /\ verdict \in [Jobs -> [Candidates -> Verdicts \cup {"eligible"}]]
    /\ added = [j \in Jobs |-> {}]
    /\ lost = [j \in Jobs |-> {}]
    /\ finished = {}

\* The answer to a request is recorded; a request that timed out is 'failed'
\* and may have added the user.
Decide(j, c, v) ==
    /\ c \in Undecided(j)
    /\ verdict' = [verdict EXCEPT ![j][c] = v]
    /\ \/ v \in {"invited", "failed"} /\ added' = [added EXCEPT ![j] = @ \cup {c}]
       \/ v # "invited" /\ UNCHANGED added
    /\ UNCHANGED <<lost, finished>>

Complete(j) ==
    /\ Undecided(j) = {}
    /\ finished' = finished \cup {j}
    /\ UNCHANGED <<verdict, added, lost>>

\* The process dies; of each job at most one request had reached Telegram.
Die ==
    /\ \E cut \in [Jobs -> SUBSET Candidates] :
          /\ \A j \in Jobs : cut[j] = {} \/ \E c \in Undecided(j) : cut[j] = {c}
          /\ added' = [j \in Jobs |-> added[j] \cup cut[j]]
          /\ lost' = [j \in Jobs |-> lost[j] \cup cut[j]]
    /\ UNCHANGED <<verdict, finished>>

Next ==
    \/ \E j \in Jobs, c \in Candidates, v \in Verdicts : Decide(j, c, v)
    \/ \E j \in Jobs : Complete(j)
    \/ Die

Spec == Init /\ [][Next]_<<verdict, added, lost, finished>>
=============================================================================
