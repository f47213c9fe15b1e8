---------------------------- MODULE EvidenceLedger ----------------------------
(***************************************************************************)
(* What the whole of quantumd promises, whatever the commands, files and   *)
(* services that keep the promise do: a ledger of who vouches for what.    *)
(* Every entry is written once, stays, and stands on the entry below it:   *)
(* a signed verification grants a source, only a granted source runs on    *)
(* the simulator, only what ran is planned, only a plan is approved, only  *)
(* an approval gets a job on hardware and only one, only a job inside its  *)
(* approval's window is attested, and only that verifies.                  *)
(***************************************************************************)
EXTENDS Naturals

CONSTANTS Verifications, Executions, Plans, Approvals, Submissions,
          Reconcilers, Verifiers, Sources, Circuits, TranspilesTo,
          None

VARIABLES
  granted,   \* verification -> the source it grants
  simulated, \* execution    -> the verification it ran under, and what ran
  planned,   \* plan         -> its execution and circuit; undisturbed or not
  approved,  \* approval     -> plan, circuit and window
  ran,       \* submission   -> its job: approval, circuit and time
  attested,  \* receipt      -> submission, outcome and what it binds
  proven     \* run of verify-chain -> the receipt it accepted

ledger == <<granted, simulated, planned, approved, ran, attested, proven>>

Outcomes == {"DONE", "ERROR", "CANCELLED"}

Init ==
  /\ granted   = [v \in Verifications |-> None]
  /\ simulated = [x \in Executions |-> None]
  /\ planned   = [p \in Plans |-> None]
  /\ approved  = [a \in Approvals |-> None]
  /\ ran       = [s \in Submissions |-> None]
  /\ attested  = [q \in Reconcilers |-> None]
  /\ proven    = [v \in Verifiers |-> None]

(* An entry is added to a page of the ledger, which had none under its key.*)
Enter(page, next, key, entry) ==
  /\ page[key] = None
  /\ next = [page EXCEPT ![key] = entry]

Grant(v, source) ==
  /\ Enter(granted, granted', v, source)
  /\ UNCHANGED <<simulated, planned, approved, ran, attested, proven>>

Simulate(x, v) ==
  /\ granted[v] # None
  /\ Enter(simulated, simulated', x, [run |-> v, source |-> granted[v]])
  /\ UNCHANGED <<granted, planned, approved, ran, attested, proven>>

(* An undisturbed plan is of a circuit that the source transpiles to.      *)
Plan(p, x, isa, undisturbed) ==
  /\ simulated[x] # None
  /\ undisturbed => isa \in TranspilesTo[simulated[x].source]
  /\ Enter(planned, planned', p, [execution |-> x, isa |-> isa,
                                  undisturbed |-> undisturbed])
  /\ UNCHANGED <<granted, simulated, approved, ran, attested, proven>>

(* Any window, but the circuit of the plan.                                *)
Approve(a, p) ==
  /\ planned[p] # None
  /\ approved'[a] # None
  /\ approved'[a].plan = p
  /\ approved'[a].isa = planned[p].isa
  /\ Enter(approved, approved', a, approved'[a])
  /\ UNCHANGED <<granted, simulated, planned, ran, attested, proven>>

(* At any time, but the approval's circuit, and once.                      *)
RunJob(s, a) ==
  /\ approved[a] # None
  /\ \A t \in Submissions : ran[t] # None => ran[t].approval # a
  /\ ran'[s] # None
  /\ ran'[s].approval = a
  /\ ran'[s].isa = approved[a].isa
  /\ Enter(ran, ran', s, ran'[s])
  /\ UNCHANGED <<granted, simulated, planned, approved, attested, proven>>

InWindow(payload, time) == payload.notBefore <= time /\ time < payload.expiresAt

(* Perhaps again, but then with the same outcome; a job that is done, with *)
(* what it ran.                                                            *)
Attest(q, s, outcome) ==
  /\ ran[s] # None
  /\ InWindow(approved[ran[s].approval], ran[s].at)
  /\ \A r \in Reconcilers :
       attested[r] # None /\ attested[r].submission = s
         => attested[r].outcome = outcome
  /\ attested'[q] # None
  /\ attested'[q].submission = s
  /\ attested'[q].outcome = outcome
  /\ outcome = "DONE" =>
       /\ attested'[q].binds.approval = ran[s].approval
       /\ attested'[q].binds.isa = ran[s].isa
  /\ Enter(attested, attested', q, attested'[q])
  /\ UNCHANGED <<granted, simulated, planned, approved, ran, proven>>

Prove(v, q) ==
  /\ attested[q] # None
  /\ attested[q].outcome = "DONE"
  /\ Enter(proven, proven', v, q)
  /\ UNCHANGED <<granted, simulated, planned, approved, ran, attested>>

Next ==
  \/ \E v \in Verifications, source \in Sources : Grant(v, source)
  \/ \E x \in Executions, v \in Verifications : Simulate(x, v)
  \/ \E p \in Plans, x \in Executions, isa \in Circuits, u \in BOOLEAN :
       Plan(p, x, isa, u)
  \/ \E a \in Approvals, p \in Plans : Approve(a, p)
  \/ \E s \in Submissions, a \in Approvals : RunJob(s, a)
  \/ \E q \in Reconcilers, s \in Submissions, outcome \in Outcomes :
       Attest(q, s, outcome)
  \/ \E v \in Verifiers, q \in Reconcilers : Prove(v, q)

Spec == Init /\ [][Next]_ledger
=============================================================================
