----------------------------- MODULE MCInviteJob -----------------------------
(***************************************************************************)
(* The executor over two shared sessions, and the selector it calls over   *)
(* every combination of a representative set of session rows.  A behaviour *)
(* is one of the two: the other part starts where it has nothing to do.    *)
(*                                                                         *)
(* The executor runs one job with all its candidates or two jobs with one  *)
(* candidate each, one fault less and neither restart, midnight nor        *)
(* refusal; at most one other operation is busy with a session.  With a    *)
(* quota of one a session is used up by its first invitation of the day,   *)
(* and with a batch of two it rests after the first one of the next day.   *)
(***************************************************************************)
EXTENDS InviteJob

CONSTANTS Ids,       \* ids of the rows the selector is shown
          MaxTime,   \* bound: the last instant of the selector's clock
          Midnight,  \* the instant the usage date changes
          Limit      \* daily_limit in the selector's part

ASSUME IdsAssumption == Ids \subseteq Nat /\ IsFiniteSet(Ids) /\ NoSession \notin Ids
ASSUME ClockAssumption == MaxTime \in Nat /\ Midnight \in Nat \ {0} /\ Limit \in Nat

VARIABLES rows, now, rotated, excluded

clockVars == <<rows, now, rotated, excluded>>

Selector == INSTANCE MCInviteSelection WITH Sessions <- Ids, last <- rotated

\* No row is left that waiting or selecting could change.
SelectorIdle ==
    /\ rows = [s \in Ids |-> [Selector!Healthy EXCEPT !.data = FALSE]]
    /\ now = MaxTime /\ rotated = NoSession /\ excluded = {}

\* The selected candidates of each job; the others were never eligible.
InitWith(chosen, spent) ==
    /\ InitRest
    /\ cand = [j \in Jobs |-> [c \in Candidates |->
                 IF c \in chosen[j] THEN "eligible" ELSE "skipped"]]
    /\ faults = spent

First == CHOOSE j \in Jobs : TRUE
One == [j \in Jobs |-> IF j = First THEN Candidates ELSE {}]
Both == [j \in Jobs |-> {Min(Candidates)}]
None == [j \in Jobs |-> {}]

\* With two jobs only what concerns sessions and leases goes wrong.
Alone == \A j \in Jobs \ {First} : \A c \in Candidates : cand[j][c] = "skipped"

MCInit ==
    \/ SelectorIdle /\ (InitWith(One, 0) \/ InitWith(Both, 1))
    \/ Selector!Init /\ InitWith(None, MaxFaults)


MCNext ==
    \/ /\ Next /\ UNCHANGED clockVars
       /\ \A s \in Sessions : owner[s] = Other => ~OtherJoins(s)
       /\ Alone \/ ~(NewDay \/ Restart \/ \E s \in Sessions : TestProxy(s))
       /\ Alone \/ ~\E j \in Jobs : NotInvited(j)
    \/ Selector!Next /\ UNCHANGED vars

MCSpec ==
    /\ MCInit /\ [][MCNext]_<<vars, clockVars>>
    /\ \A j \in Jobs : SF_vars(Run(j))
    /\ \A s \in Sessions : SF_vars(Operate(s))

-----------------------------------------------------------------------------
\* The time a job without a session is put off to is the first instant at
\* which the selector returns one: no waking in vain, no oversleeping.
ResumeIsExact == Selector!ResumeIsExact

\* The selector returns a session exactly if one is usable, and call after call
\* it returns each of the usable sessions once before it repeats one.
EveryoneGetsATurn == Selector!EveryoneGetsATurn
=============================================================================
