-------------------------- MODULE SingleUseApproval --------------------------
(***************************************************************************)
(* What a single-use approval promises, whatever the processes, files and  *)
(* services that keep the promise do.  An approval is held by at most one  *)
(* run, for ever; only the holder of an approval gets a job for it, and    *)
(* one job; the verdict on an approval starts open, may become consumed    *)
(* once the holder's job exists, and may become uncertain, for good.       *)
(***************************************************************************)
CONSTANTS Approvals, Submissions, None

VARIABLES
  holder,   \* the run that holds an approval, or None
  jobs,     \* pairs <<approval, run>>: the jobs that exist
  verdict   \* "open", "consumed" or "uncertain"

absVars == <<holder, jobs, verdict>>

Init ==
  /\ holder = [a \in Approvals |-> None]
  /\ jobs = {}
  /\ verdict = [a \in Approvals |-> "open"]

Claim(a, s) ==
  /\ holder[a] = None
  /\ holder' = [holder EXCEPT ![a] = s]
  /\ UNCHANGED <<jobs, verdict>>

Accept(a, s) ==
  /\ holder[a] = s
  /\ <<a, s>> \notin jobs
  /\ jobs' = jobs \cup {<<a, s>>}
  /\ UNCHANGED <<holder, verdict>>

Consume(a) ==
  /\ verdict[a] = "open"
  /\ <<a, holder[a]>> \in jobs
  /\ verdict' = [verdict EXCEPT ![a] = "consumed"]
  /\ UNCHANGED <<holder, jobs>>

(* The holder lost track of its job, even after it was consumed.           *)
Doubt(a) ==
  /\ holder[a] # None
  /\ verdict[a] # "uncertain"
  /\ verdict' = [verdict EXCEPT ![a] = "uncertain"]
  /\ UNCHANGED <<holder, jobs>>

Next ==
  \E a \in Approvals :
    \/ \E s \in Submissions : Claim(a, s) \/ Accept(a, s)
    \/ Consume(a) \/ Doubt(a)

Spec == Init /\ [][Next]_absVars
=============================================================================
