-------------------------- MODULE MigrationControl --------------------------
(***************************************************************************)
(* The control plane of one migration: the Migration resource and the      *)
(* token secret (app/store/migrations.py), the endpoints that launch,      *)
(* cancel and re-authenticate it (app/api/migrations.py), the runs they    *)
(* schedule (app/engine/runner.py) and the POD's crash and restart         *)
(* (app/main.py).  All of them write the same resource: set_phase and      *)
(* checkpoint each read the whole status and later write it back, so one   *)
(* such write is two actions here, with anything in between.               *)
(*                                                                         *)
(* Simplified: MigrationEngine has the cloud calls and their failures;     *)
(* here the work of a phase is a few steps that succeed or raise.  No call *)
(* to the Kubernetes API fails here.                                       *)
(***************************************************************************)
EXTENDS Naturals, Sequences, FiniteSets

CONSTANTS
  Cancels,     \* the cancel requests
  Reauths,     \* the reauth requests
  Raises,      \* what a step may raise
  MaxCrashes   \* how often the POD may crash (a bound)

Phases == {"Pending", "Preflight", "Staging", "Cutover", "Verifying",
           "Completed", "Failed", "Cancelled", "RolledBack",
           "NeedsAttention", "NeedsReauth"}
Terminal == {"Completed", "Failed", "Cancelled", "RolledBack",
             "NeedsAttention"}
Steps == {"S1", "C2c", "C5", "V1"}
CutoverSteps == {"C2c", "C5"}

ASSUME ControlAssumption ==
  /\ Raises \subseteq {"error", "reauth"} /\ MaxCrashes \in Nat
  /\ Cancels \cap Reauths = {} /\ "launch" \notin Cancels \cup Reauths

VARIABLES
  cr,       \* status of the Migration resource
  token,    \* whose token the secret holds: "none", "launch" or "reauth"
  run,      \* the runs: one for the launch, one per reauth
  req,      \* the requests being handled
  crashes,  \* how often the POD has crashed
  did,      \* steps ever carried out
  saved,    \* steps whose checkpoint was ever written
  timely,   \* did a cancel land on the launched run before staging began?
  crossed   \* did a reauth come that no run was waiting for?

vars == <<cr, token, run, req, crashes, did, saved, timely, crossed>>
ghosts == <<did, saved, timely, crossed>>

Status == [phase : Phases, steps : SUBSET Steps]
None == [phase |-> "none", steps |-> {}]   \* no snapshot is held
Launch == "launch"
Runs == {Launch} \cup Reauths
Requests == {Launch} \cup Cancels \cup Reauths

\* What a run does in its try block, with the two looks at a cancel.
Main == << [op |-> "phase", arg |-> "Preflight"],
           [op |-> "preflight", arg |-> "Failed"],
           [op |-> "check", arg |-> "finally"],
           [op |-> "phase", arg |-> "Staging"],
           [op |-> "do",    arg |-> "S1"],
           [op |-> "save",  arg |-> "S1"],
           [op |-> "check", arg |-> "cancelled"],
           [op |-> "phase", arg |-> "Cutover"],
           [op |-> "do",    arg |-> "C2c"],
           [op |-> "save",  arg |-> "C2c"],
           [op |-> "do",    arg |-> "C5"],
           [op |-> "save",  arg |-> "C5"],
           [op |-> "phase", arg |-> "Verifying"],
           [op |-> "do",    arg |-> "V1"],
           [op |-> "save",  arg |-> "V1"],
           [op |-> "phase", arg |-> "Completed"] >>

\* run[r].at   where the run is: not scheduled, waiting for its thread, in
\*             the try block, in the rollback of a cancelled run, in the one
\*             of the except block, setting a last phase, in the finally
\*             block, clearing the token, ended
\* run[r].ip   the operation of Main it is at
\* run[r].goal the last phase it sets
\* run[r].seen the status it read and has not yet written back
RunState == [at : {"idle", "queued", "main", "cancelled", "undo", "report",
                   "finally", "clear", "over"},
             ip : 1..Len(Main), goal : Phases, seen : Status \cup {None}]

\* A request is new, between its calls, or answered.
ReqState == [at : {"new", "stored", "write", "schedule", "done"},
             seen : Status \cup {None}]

Idle == [at |-> "idle", ip |-> 1, goal |-> "Pending", seen |-> None]

\* The resource exists: launch created it and has not stored the token yet.
Init ==
  /\ cr = [phase |-> "Pending", steps |-> {}]
  /\ token = "none"
  /\ run = [r \in Runs |-> Idle]
  /\ req = [q \in Requests |-> [at |-> "new", seen |-> None]]
  /\ crashes = 0 /\ did = {} /\ saved = {} /\ timely = FALSE
  /\ crossed = FALSE

-----------------------------------------------------------------------------
(* A run.                                                                  *)

Op(r) == Main[run[r].ip]
At(r, at) == run[r].at = at
Move(r, at) == run' = [run EXCEPT ![r].at = at]
LastPhase(r, p) == run' = [run EXCEPT ![r].at = "report", ![r].goal = p]
Hold(r, s) == run' = [run EXCEPT ![r].seen = s]

\* The run after the operation it is at, or in the finally block.
Advance(r) ==
  run' = [run EXCEPT ![r].seen = None,
                     ![r].at = IF run[r].ip = Len(Main) THEN "finally" ELSE "main",
                     ![r].ip = IF run[r].ip = Len(Main) THEN @ ELSE @ + 1]

\* The token is read and the clients are built; no token, or any failure on
\* the way, ends the thread before run() and its finally block.
Assemble(r) ==
  /\ At(r, "queued")
  /\ (token # "none" /\ Move(r, "main")) \/ Move(r, "over")
  /\ UNCHANGED <<cr, token, req, crashes, ghosts>>

\* Read half of set_phase and checkpoint.
ReadStatus(r) ==
  /\ At(r, "report") \/ (At(r, "main") /\ Op(r).op \in {"phase", "save"})
  /\ run[r].seen = None
  /\ Hold(r, cr)
  /\ UNCHANGED <<cr, token, req, crashes, ghosts>>

\* Mutants: the name of the checkpoint written as the phase; a write that is
\* given up when another came in between.
WriteAsPhase(r) ==
  /\ At(r, "main") /\ run[r].seen # None
  /\ cr' = [run[r].seen EXCEPT !.phase = Op(r).arg]
  /\ Advance(r)
  /\ UNCHANGED <<token, req, crashes, ghosts>>
WriteIfFresh(r) ==
  /\ At(r, "main") /\ run[r].seen # None /\ run[r].seen = cr
  /\ IF Op(r).op = "phase"
       THEN /\ cr' = [run[r].seen EXCEPT !.phase = Op(r).arg]
            /\ UNCHANGED saved
       ELSE /\ cr' = [run[r].seen EXCEPT !.steps = @ \cup {Op(r).arg}]
            /\ saved' = saved \cup {Op(r).arg}
  /\ Advance(r)
  /\ UNCHANGED <<token, req, crashes, did, timely, crossed>>

\* Write half, in the try block.
WriteStatus(r) ==
  /\ At(r, "main") /\ run[r].seen # None
  /\ IF Op(r).op = "phase"
       THEN /\ cr' = [run[r].seen EXCEPT !.phase = Op(r).arg]
            /\ UNCHANGED saved
       ELSE /\ cr' = [run[r].seen EXCEPT !.steps = @ \cup {Op(r).arg}]
            /\ saved' = saved \cup {Op(r).arg}
  /\ Advance(r)
  /\ UNCHANGED <<token, req, crashes, did, timely, crossed>>

\* The verdict of the preflight.
Preflight(r) ==
  /\ At(r, "main") /\ Op(r).op = "preflight"
  /\ Advance(r) \/ LastPhase(r, Op(r).arg)
  /\ UNCHANGED <<cr, token, req, crashes, ghosts>>

\* _cancelled: the first look ends the run, the second undoes the staging.
Check(r) ==
  /\ At(r, "main") /\ Op(r).op = "check"
  /\ IF cr.phase = "Cancelled" THEN Move(r, Op(r).arg) ELSE Advance(r)
  /\ UNCHANGED <<cr, token, req, crashes, ghosts>>

\* Mutants: every step honours a cancel; a step's failure is ignored.
DoUnlessCancelled(r) ==
  /\ At(r, "main") /\ Op(r).op = "do"
  /\ IF cr.phase = "Cancelled" THEN Move(r, "undo") /\ UNCHANGED did
     ELSE did' = did \cup {Op(r).arg} /\ Advance(r)
  /\ UNCHANGED <<cr, token, req, crashes, saved, timely, crossed>>
DoSwallows(r) ==
  /\ At(r, "main") /\ Op(r).op = "do"
  /\ Advance(r)
  /\ did' = did \cup {Op(r).arg} \/ ("error" \in Raises /\ UNCHANGED did)
  /\ UNCHANGED <<cr, token, req, crashes, saved, timely, crossed>>

\* Mutant: what raises is tried again from the operation before.
DoRetries(r) ==
  /\ At(r, "main") /\ Op(r).op = "do"
  /\ \/ did' = did \cup {Op(r).arg} /\ Advance(r)
     \/ Raises # {} /\ run' = [run EXCEPT ![r].ip = @ - 1] /\ UNCHANGED did
  /\ UNCHANGED <<cr, token, req, crashes, saved, timely, crossed>>

\* A step of the engine: done, or it raises.
Do(r) ==
  /\ At(r, "main") /\ Op(r).op = "do"
  /\ \/ did' = did \cup {Op(r).arg} /\ Advance(r)
     \/ "error" \in Raises /\ Move(r, "undo") /\ UNCHANGED did
     \/ "reauth" \in Raises /\ LastPhase(r, "NeedsReauth") /\ UNCHANGED did
  /\ UNCHANGED <<cr, token, req, crashes, saved, timely, crossed>>

\* The rollback goes by the checkpoints in the resource: a reverse migration
\* can always go wrong, and says so; what fails in place goes by Raises.
ReverseOnRecord == "C2c" \in cr.steps

\* In the try block: what the rollback raises is caught like any exception.
UndoCancelled(r) ==
  /\ At(r, "cancelled")
  /\ \/ LastPhase(r, "RolledBack")
     \/ (ReverseOnRecord \/ "error" \in Raises) /\ Move(r, "undo")
     \/ ~ReverseOnRecord /\ "reauth" \in Raises /\ LastPhase(r, "NeedsReauth")
  /\ UNCHANGED <<cr, token, req, crashes, ghosts>>

\* In the except block: only a failed reverse migration is caught.
Undo(r) ==
  /\ At(r, "undo")
  /\ \/ LastPhase(r, "RolledBack")
     \/ ReverseOnRecord /\ LastPhase(r, "NeedsAttention")
     \/ ~ReverseOnRecord /\ Raises # {} /\ Move(r, "finally")
  /\ UNCHANGED <<cr, token, req, crashes, ghosts>>

\* Mutant: a run that asked for a token goes on by itself.
ReportAndGoOn(r) ==
  /\ At(r, "report") /\ run[r].seen # None
  /\ cr' = [run[r].seen EXCEPT !.phase = run[r].goal]
  /\ run' = [run EXCEPT ![r].seen = None,
       ![r].at = IF run[r].goal = "NeedsReauth" THEN "main" ELSE "finally"]
  /\ UNCHANGED <<token, req, crashes, ghosts>>

\* Write half of the last set_phase.
Report(r) ==
  /\ At(r, "report") /\ run[r].seen # None
  /\ cr' = [run[r].seen EXCEPT !.phase = run[r].goal]
  /\ run' = [run EXCEPT ![r].at = "finally", ![r].seen = None]
  /\ UNCHANGED <<token, req, crashes, ghosts>>

\* Mutant: the token is kept after a cancel.
FinallyKeeps(r) ==
  /\ At(r, "finally")
  /\ Move(r, IF cr.phase \in {"NeedsReauth", "Cancelled"} THEN "over" ELSE "clear")
  /\ UNCHANGED <<cr, token, req, crashes, ghosts>>

\* The finally block looks at the phase, then clears the token.
Finally(r) ==
  /\ At(r, "finally")
  /\ Move(r, IF cr.phase = "NeedsReauth" THEN "over" ELSE "clear")
  /\ UNCHANGED <<cr, token, req, crashes, ghosts>>

ClearToken(r) ==
  /\ At(r, "clear")
  /\ token' = "none" /\ Move(r, "over")
  /\ UNCHANGED <<cr, req, crashes, ghosts>>

RunStep(r) ==
  \/ Assemble(r) \/ ReadStatus(r) \/ WriteStatus(r) \/ Preflight(r)
  \/ Check(r) \/ Do(r) \/ UndoCancelled(r) \/ Undo(r) \/ Report(r) \/ Finally(r) \/ ClearToken(r)

-----------------------------------------------------------------------------
(* The endpoints.                                                          *)

Reach(q, at) == req' = [req EXCEPT ![q].at = at]

\* A run has asked for a token, and no other reauth is being handled.
Awaited == /\ cr.phase = "NeedsReauth"
           /\ \A p \in Reauths : req[p].at \in {"new", "done"}

\* launch and reauth store the token they were sent; nothing looks at the phase.
StoreToken(q) ==
  /\ q \notin Cancels /\ req[q].at = "new"
  /\ token' = IF q = Launch THEN "launch" ELSE "reauth"
  /\ crossed' = (crossed \/ (q \in Reauths /\ ~Awaited))
  /\ Reach(q, IF q = Launch THEN "schedule" ELSE "stored")
  /\ UNCHANGED <<cr, run, crashes, did, saved, timely>>

\* ... and schedule a run when they have answered.
Schedule(q) ==
  /\ req[q].at = "schedule"
  /\ Reach(q, "done") /\ Move(q, "queued")
  /\ UNCHANGED <<cr, token, crashes, ghosts>>

\* cancel and reauth set a phase, whatever the phase is.
ReadForRequest(q) ==
  /\ req[q].at = IF q \in Cancels THEN "new" ELSE "stored"
  /\ req' = [req EXCEPT ![q].at = "write", ![q].seen = cr]
  /\ UNCHANGED <<cr, token, run, crashes, ghosts>>

WriteForRequest(q) ==
  /\ req[q].at = "write"
  /\ IF q \in Cancels
       THEN /\ cr' = [req[q].seen EXCEPT !.phase = "Cancelled"]
            /\ timely' = (timely \/ /\ cr.phase \in {"Pending", "Preflight"}
                                    /\ run[Launch].at \in {"queued", "main"})
       ELSE /\ cr' = [req[q].seen EXCEPT !.phase = "Pending"]
            /\ UNCHANGED timely
  /\ req' = [req EXCEPT ![q].at = IF q \in Cancels THEN "done" ELSE "schedule",
                        ![q].seen = None]
  /\ UNCHANGED <<token, run, crashes, did, saved, crossed>>

RequestStep(q) ==
  StoreToken(q) \/ Schedule(q) \/ ReadForRequest(q) \/ WriteForRequest(q)

-----------------------------------------------------------------------------
\* The POD dies with its threads and requests.  It starts again at once: the
\* startup hook wires the clients and resumes nothing (main.py:23-27).
Crash ==
  /\ crashes < MaxCrashes /\ crashes' = crashes + 1
  /\ run' = [r \in Runs |-> IF run[r].at = "idle" THEN run[r]
                            ELSE [run[r] EXCEPT !.at = "over", !.seen = None]]
  /\ req' = [q \in Requests |->
               IF q \in Cancels \cup Reauths /\ req[q].at = "new" THEN req[q]
               ELSE [at |-> "done", seen |-> None]]
  /\ UNCHANGED <<cr, token, ghosts>>

Next == \/ \E r \in Runs : RunStep(r)
        \/ \E q \in Requests : RequestStep(q)
        \/ Crash

Spec == Init /\ [][Next]_vars

\* Threads of the POD run; a client need not ever send a cancel or a reauth,
\* but a request that has begun is carried through.
FairSpec ==
  /\ Spec
  /\ \A r \in Runs : WF_vars(RunStep(r))
  /\ \A q \in Requests :
       WF_vars((q = Launch \/ req[q].at # "new") /\ RequestStep(q))

-----------------------------------------------------------------------------
(* Properties.                                                             *)

\* Every variable keeps its type.
TypeOK ==
  /\ cr \in Status /\ token \in {"none", "launch", "reauth"}
  /\ run \in [Runs -> RunState] /\ req \in [Requests -> ReqState]
  /\ crashes \in 0..MaxCrashes
  /\ did \in SUBSET Steps /\ saved \in SUBSET Steps
  /\ timely \in BOOLEAN /\ crossed \in BOOLEAN

\* All that can put two runs on one migration is a reauth posted when the phase
\* was not NeedsReauth, or while another was being handled, for nothing refuses it
\* (api/migrations.py:83-90).  One that was asked for starts its run when the run
\* that asked is past its last cloud call (runner.py:47-48), whatever cancels and
\* crashes come between.
Driving(r) == run[r].at \in {"main", "cancelled", "undo", "report"}
OneDriver == (\E r, s \in Runs : r # s /\ Driving(r) /\ Driving(s)) => crossed

\* However many runs, cancels and reauths write the resource, no stale write brings
\* in a checkpoint that was not written, or one of a step not carried out; and all
\* that can take one away is a cancel, or a reauth that no run waited for, before
\* and after a crash (migrations.py:48-58).
CheckpointsExact ==
  /\ cr.steps \subseteq saved /\ saved \subseteq did
  /\ cr.steps # saved => crossed \/ \E c \in Cancels : req[c].at # "new"

\* The run that got past its assembly takes the token it was launched with along,
\* cancelled at any moment or not, unless it ends to ask for a new one or in a
\* crash, or a reauth that it did not wait for got in its way (runner.py:62-66).
TokenGoesWithRun ==
  run[Launch].at = "over" /\ run[Launch].ip > 1
  /\ run[Launch].goal # "NeedsReauth" /\ crashes = 0
    => token # "launch" \/ crossed

\* How far each part of a run is along it.
Rank == [idle |-> 1, queued |-> 2, main |-> 3, cancelled |-> 4, undo |-> 5,
         report |-> 6, finally |-> 7, clear |-> 8, over |-> 9]

\* The run is in a later part, or further in the same one: at a later operation,
\* or at the same with the status read.
FurtherOn(r) ==
  \/ Rank[run[r].at] < Rank[run'[r].at]
  \/ /\ run'[r].at = run[r].at
     /\ \/ run[r].ip < run'[r].ip
        \/ run'[r].ip = run[r].ip /\ run[r].seen = None /\ run'[r].seen # None

\* Nothing ever takes a run back, neither a cancel, nor a reauth, nor a crash: no
\* step of the engine and no write is done twice in a run, one that has ended
\* stays ended, and what is tried again is tried by a run of its own
\* (runner.py:22-66, api/migrations.py:91).  So a run has boundedly many steps.
RunsGoOn == [][\A r \in Runs : run'[r] # run[r] => FurtherOn(r)]_vars

\* Once the cutover's point of no return is passed, no cancel keeps the run
\* from finishing it (runner.py:35, README.md:47-48).
CutoverNeverAborted == ("C2c" \in did) ~> ("V1" \in did)

\* Whenever the cancels arrive, and whatever stale status they write back,
\* the runs end and the phase stays at a terminal one, or at Pending when
\* the clients could not be built.
EventuallySettled ==
  <>[](/\ \A r \in Runs : run[r].at \in {"idle", "over"}
       /\ cr.phase \in Terminal \cup {"Pending"})
=============================================================================
