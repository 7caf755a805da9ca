--------------------------- MODULE MigrationEngine ---------------------------
(***************************************************************************)
(* One migration, from the background task that launch schedules to the    *)
(* end of MigrationRunner.run (app/engine/runner.py): assembly, preflight, *)
(* staging, cutover, verification, and the two rollback regimes.           *)
(*                                                                         *)
(* One action is one call to a cloud or to the Migration resource.  Such a *)
(* call succeeds, is refused (the constant Faults has "refused"), or takes *)
(* effect while the caller sees an exception (Faults has "timeout").  A    *)
(* call the cloud cannot carry out is refused whatever Faults says.        *)
(* set_phase and checkpoint are two calls each, a get of the whole status  *)
(* and a patch of it, in the run and in the cancels that overlap with it.  *)
(*                                                                         *)
(* Simplified: a loop over volumes or NICs takes them in any order; a      *)
(* bounded poll is one step with the outcomes the whole poll can have;     *)
(* ReauthRequired is never raised by the production clients;               *)
(* set_image_metadata does nothing since plan.image_meta is {}.            *)
(***************************************************************************)
EXTENDS Clouds, Naturals

CONSTANTS
  mid,      \* the id of the migration
  Faults,   \* what may go wrong with a call
  Cancels   \* the cancel requests

ASSUME EngineAssumption ==
  mid \in Mids /\ Faults \subseteq {"refused", "timeout"}

VARIABLES
  cr,        \* the status of the Migration resource: its phase ("Cancelled" is
             \* Failed with the cancel message) and its checkpoints' names
  saved,     \* the checkpoints that were ever written
  seen,      \* the status the run has read and not yet written back
  req,       \* the cancel requests, with the checkpoints they have read
  pc,        \* what the runner does next
  todo,      \* what the loop the runner is in has left
  plan,      \* plan.volume_ids
  readDot,   \* dot_original, read in C2b
  given,     \* the checkpoints the rollback was given
  handling   \* is the runner in its except block?

record == <<cr, saved, seen, req>>
memory == <<plan, readDot, given, handling>>
vars == <<cloudVars, record, pc, todo, memory>>

Steps == {"S1", "C1", "C2", "C2b", "C2c", "C3", "C4", "C5", "V1", "V2"}
Phases == {"Pending", "Preflight", "Staging", "Cutover", "Verifying",
           "Completed", "Failed", "Cancelled", "RolledBack", "NeedsAttention"}
Status == [phase : Phases, steps : SUBSET Steps]
None == [phase |-> "none", steps |-> {}]   \* no status is held

\* A cancel puts its own phase in the place of the one it read.
Request == [at : {"new", "write", "done"}, steps : SUBSET Steps]

\* The labels: where they name a step of the code, the call the step makes,
\* with a "k" the write of its checkpoint.
InPlace == {"Adot", "Aattach", "Astart", "Aports"}
Reverse == {"Bdelete", "Bunmanage", "Bmanage", "Bport", "Bcreate", "Bdports"}
Ended == {"Completed", "Failed", "RolledBack", "NeedsAttention", "Stopped",
          "Escaped"}
Undoing == InPlace \cup Reverse \cup Ended
             \cup {"except", "rolled", "attention"}
Labels == {"assemble", "start", "preflight", "reject", "enterS", "S1",
           "S1undo", "S1k", "staged", "honour", "enterC", "C1", "C1k", "C2",
           "C2k", "C2b", "C2bset", "C2bk", "C2c", "C2wait", "C2ck", "C3", "C3k",
           "C4", "C4wait", "C4k", "C5", "C5k", "enterV", "verify", "V1k",
           "V2k", "complete"} \cup Undoing

Init ==
  /\ CloudInit
  /\ cr = [phase |-> "Pending", steps |-> {}]
  /\ saved = {} /\ seen = None
  /\ req = [c \in Cancels |-> [at |-> "new", steps |-> {}]]
  /\ pc = "assemble" /\ todo = {}
  /\ plan = {} /\ readDot = FALSE /\ given = {} /\ handling = FALSE

-----------------------------------------------------------------------------
(* Control flow.                                                           *)

\* What the loops of the staging and the cutover run over: the NICs, the data
\* volumes, all volumes.
Loop(l) ==
  CASE l = "S1" -> Nics
    [] l = "C2" -> plan \ {Root}
    [] l \in {"C2wait", "C3", "C4"} -> plan
    [] OTHER -> {}

\* Those of the rollbacks ask the checkpoints they were given.
UndoLoop(l) ==
  CASE l = "Aattach" /\ "C2" \in given -> plan \ {Root}
    [] l \in {"Aports", "Bdports"} /\ "S1" \in given -> Nics
    [] l = "Bunmanage" /\ "C4" \in given -> plan
    [] l = "Bmanage" /\ "C3" \in given -> plan
    [] l = "Bport" -> Nics
    [] OTHER -> {}

Work(l) == IF l \in InPlace \cup Reverse THEN UndoLoop(l) ELSE Loop(l)

\* The kind of thing it runs over.
Items(l) ==
  IF l \in {"C2", "C2wait", "C3", "C4", "C4wait", "Aattach", "Bunmanage",
            "Bmanage"} THEN Volumes ELSE Nics

Goto(l) == pc' = l /\ todo' = Work(l)
\* Mutant: a return inside the loop, which ends it after its first item.
AgainOnce(l, x) == pc' = l /\ todo' = {}
\* Mutant: a loop that does not cross off what it has done.
AgainStuck(l, x) == pc' = l /\ UNCHANGED todo
Again(l, x) == pc' = l /\ todo' = todo \ {x}
Await(l) == pc' = l /\ UNCHANGED todo

\* Mutants: a port that cannot be made is passed over; a failed reverse
\* migration reported as a rollback; an except block that catches what it
\* raises itself.
HandlerPassesOver ==
  IF pc = "S1" THEN "S1k"
  ELSE IF pc \in Reverse THEN "attention"
  ELSE IF pc \in {"assemble", "except"} \/ handling THEN "Escaped"
  ELSE "except"
HandlerRollsBack ==
  IF pc = "S1" THEN "S1undo"
  ELSE IF pc \in Reverse THEN "rolled"
  ELSE IF pc \in {"assemble", "except"} \/ handling THEN "Escaped"
  ELSE "except"
HandlerRetries ==
  IF pc = "S1" THEN "S1undo"
  ELSE IF pc \in Reverse THEN "attention" ELSE "except"

\* Where an exception takes the runner.  Staging first undoes the ports it
\* made; a failing reverse migration is a ReverseMigrateError; what the
\* except block itself raises, and what is raised before run, escapes.
Handler ==
  IF pc = "S1" THEN "S1undo"
  ELSE IF pc \in Reverse THEN "attention"
  ELSE IF pc \in {"assemble", "except"} \/ handling THEN "Escaped"
  ELSE "except"

Raise ==
  /\ pc' = Handler
  /\ todo' = IF pc = "S1" THEN Nics \ todo ELSE {}

\* A call that the cloud can carry out iff can, with effect s and d, after
\* which the run goes on as onward says.
Call(can, s, d, onward) ==
  /\ \/ /\ can
        /\ src' = s /\ dst' = d
        /\ onward \/ ("timeout" \in Faults /\ Raise)
     \/ /\ ~can \/ "refused" \in Faults
        /\ Raise
        /\ UNCHANGED <<src, dst>>
  /\ UNCHANGED <<lost, record, memory>>

\* Mutant: a poll that falls through when its attempts are spent.
PollFallsThrough(found, onward) ==
  onward /\ UNCHANGED <<cloudVars, record, memory>>

\* A poll of a cloud: it finds what it waits for or gives up.
Poll(found, onward) ==
  /\ (found /\ onward) \/ ((~found \/ Faults # {}) /\ Raise)
  /\ UNCHANGED <<cloudVars, record, memory>>

\* A read of a cloud or of the resource; onward sets readDot.
Read(onward) ==
  /\ onward \/ ("refused" \in Faults /\ Raise /\ UNCHANGED readDot)
  /\ UNCHANGED <<cloudVars, record, plan, given, handling>>

\* set_phase and checkpoint get the status ...
GetStatus(at) ==
  /\ pc = at /\ seen = None
  /\ \/ seen' = cr /\ UNCHANGED <<pc, todo>>
     \/ "refused" \in Faults /\ Raise /\ UNCHANGED seen
  /\ UNCHANGED <<cloudVars, cr, saved, req, memory>>

\* ... and patch all of it: s is made of what was read, new the checkpoints it
\* adds, and whatever has been written in between is lost.
PatchStatus(at, s, new, onward) ==
  /\ pc = at /\ seen # None /\ seen' = None
  /\ \/ /\ cr' = s /\ saved' = saved \cup new
        /\ onward \/ ("timeout" \in Faults /\ Raise)
     \/ /\ "refused" \in Faults /\ Raise
        /\ UNCHANGED <<cr, saved>>
  /\ UNCHANGED <<cloudVars, req, memory>>

\* Mutant: the name of the checkpoint written as the phase.
CheckpointAsPhase(at, name, onward) ==
  \/ GetStatus(at)
  \/ PatchStatus(at, [seen EXCEPT !.phase = name], {}, onward)

\* repo.checkpoint(mid, name, ...) and repo.set_phase(mid, p).
Checkpoint(at, name, onward) ==
  \/ GetStatus(at)
  \/ PatchStatus(at, [seen EXCEPT !.steps = @ \cup {name}], {name}, onward)
SetPhase(at, p, onward) ==
  \/ GetStatus(at)
  \/ PatchStatus(at, [seen EXCEPT !.phase = p], {}, onward)

\* Mutant: a loop left with items to do.
EndLoopEarly(at, next) ==
  /\ pc = at
  /\ Goto(next)
  /\ UNCHANGED <<cloudVars, record, memory>>

EndLoop(at, next) ==
  /\ pc = at /\ todo = {}
  /\ Goto(next)
  /\ UNCHANGED <<cloudVars, record, memory>>

-----------------------------------------------------------------------------
(* Before the cutover.                                                     *)

\* _LazyRunner.run builds the plan from what the source says is attached to
\* the server now; its exceptions never reach run().
Assemble ==
  /\ pc = "assemble"
  /\ \/ /\ src.vm # "gone"
        /\ \E P \in SUBSET Volumes : Listed(P) /\ plan' = P
        /\ Goto("start")
     \/ /\ src.vm = "gone" \/ "refused" \in Faults
        /\ Raise /\ UNCHANGED plan
  /\ UNCHANGED <<cloudVars, record, readDot, given, handling>>

Start == SetPhase("start", "Preflight", Goto("preflight"))

\* The checks pass or fail; a cancel is seen by the _cancelled that follows.
Preflight ==
  /\ pc = "preflight"
  /\ Read(/\ UNCHANGED readDot
          /\ \/ Goto("reject")
             \/ cr.phase = "Cancelled" /\ Goto("Stopped")
             \/ cr.phase # "Cancelled" /\ Goto("enterS"))

Reject == SetPhase("reject", "Failed", Goto("Failed"))

Stage ==
  \/ SetPhase("enterS", "Staging", Goto("S1"))
  \/ /\ pc = "S1"
     /\ \E n \in todo : Call(dst.ports[n] = "free", src, Staged(dst, n, mid),
                             Again("S1", n))
  \/ EndLoop("S1", "S1k")
  \/ /\ pc = "S1undo"
     /\ \E n \in todo : Call(TRUE, src, Unstaged(dst, n, mid),
                             Again("S1undo", n))
  \/ EndLoop("S1undo", "except")
  \/ Checkpoint("S1k", "S1", Goto("staged"))

\* Mutant: the reverse migration taken one checkpoint too early.
RegimeFromC2b == IF "C2b" \in cr.steps THEN "Bdelete" ELSE "Adot"

\* The rollback regime, by the checkpoints now in the resource: a reverse
\* migration once C2c is recorded.
Regime == IF "C2c" \in cr.steps THEN "Bdelete" ELSE "Adot"

\* Mutant: a cancel that just ends the run.
HonourCancelAtOnce ==
  /\ pc = "staged"
  /\ Read(/\ UNCHANGED readDot
          /\ Goto(IF cr.phase = "Cancelled" THEN "Stopped" ELSE "enterC"))

\* The last look at a cancel: it is honoured by reading the checkpoints back
\* and rolling the staging back.
HonourCancel ==
  \/ /\ pc = "staged"
     /\ Read(/\ UNCHANGED readDot
             /\ Goto(IF cr.phase = "Cancelled" THEN "honour" ELSE "enterC"))
  \/ /\ pc = "honour"
     /\ \/ Goto(Regime) /\ given' = cr.steps
        \/ "refused" \in Faults /\ Raise /\ UNCHANGED given
     /\ UNCHANGED <<cloudVars, record, plan, readDot, handling>>

-----------------------------------------------------------------------------
(* Cutover.                                                                *)

EnterCutover == SetPhase("enterC", "Cutover", Goto("C1"))

\* Mutant: the stop is not recorded.
C1Unrecorded ==
  pc = "C1" /\ Call(src.vm # "gone", Stopped(src), dst, Goto("C2"))

C1 == \/ /\ pc = "C1"
         /\ Call(src.vm # "gone", Stopped(src), dst, Goto("C1k"))
      \/ Checkpoint("C1k", "C1", Goto("C2"))

C2 == \/ /\ pc = "C2"
         /\ \E v \in todo : Call(src.vol[v] = "in-use", Detached(src, v), dst,
                                 Again("C2", v))
      \/ EndLoop("C2", "C2k")
      \/ Checkpoint("C2k", "C2", Goto("C2b"))

C2b == \/ /\ pc = "C2b"
          /\ Read(/\ readDot' = src.dot
                  /\ Goto(IF src.dot THEN "C2bset" ELSE "C2bk"))
       \/ /\ pc = "C2bset"
          /\ Call(src.vm # "gone", WithDot(src, FALSE), dst, Goto("C2bk"))
       \/ Checkpoint("C2bk", "C2b", Goto("C2c"))

\* The source server is deleted, then every volume is awaited, and only then
\* is the checkpoint that selects the rollback regime written.
C2c == \/ /\ pc = "C2c"
          /\ Call(src.vm # "gone", Deleted(src), dst, Goto("C2wait"))
       \/ /\ pc = "C2wait"
          /\ \E v \in todo : Poll(src.vol[v] = "available", Again("C2wait", v))
       \/ EndLoop("C2wait", "C2ck")
       \/ Checkpoint("C2ck", "C2c", Goto("C3"))

C3 == \/ /\ pc = "C3"
         /\ \E v \in todo, left \in {"gone", "unmanaging"} :
              Call(src.vol[v] = "available", Unmanaged(src, v, left), dst,
                   Again("C3", v))
      \/ EndLoop("C3", "C3k")
      \/ Checkpoint("C3k", "C3", Goto("C4"))

\* manage answers at once; the wait that follows is for the volume just given.
C4 == \/ /\ pc = "C4"
         /\ \E v \in todo : Call(TRUE, src, Managing(dst, v),
                                 Await("C4wait"))
      \/ /\ pc = "C4wait"
         /\ \E v \in todo : /\ dst.vol[v] # "absent"
                            /\ Poll(dst.vol[v] = "available", Again("C4", v))
      \/ EndLoop("C4", "C4k")
      \/ Checkpoint("C4k", "C4", Goto("C5"))

\* The new server gets the delete_on_termination that C2b read.
C5 == \/ /\ pc = "C5"
         /\ Call(DestBootable(plan), src, Created(dst, readDot, plan), Goto("C5k"))
      \/ Checkpoint("C5k", "C5", Goto("enterV"))

\* The poll of V1 gives up on ERROR or when its attempts are spent.
Verify ==
  \/ SetPhase("enterV", "Verifying", Goto("verify"))
  \/ /\ pc = "verify"
     /\ Poll(dst.vm = "active", Goto("V1k"))
  \/ Checkpoint("V1k", "V1", Goto("V2k"))
  \/ Checkpoint("V2k", "V2", Goto("complete"))

Complete == SetPhase("complete", "Completed", Goto("Completed"))

-----------------------------------------------------------------------------
(* Rollback.                                                               *)

\* The except block reads the checkpoints back; they choose the regime.
Except ==
  /\ pc = "except"
  /\ \/ /\ Goto(Regime)
        /\ handling' = TRUE /\ given' = cr.steps
     \/ "refused" \in Faults /\ Raise /\ UNCHANGED <<handling, given>>
  /\ UNCHANGED <<cloudVars, record, plan, readDot>>

Skip(at, next) ==
  /\ pc = at /\ Goto(next)
  /\ UNCHANGED <<cloudVars, record, memory>>

\* Regime A.  The C2b checkpoint has flipped = dotOriginal = readDot.
RollbackInPlace ==
  \/ IF "C2b" \in given /\ readDot
       THEN /\ pc = "Adot"
            /\ Call(src.vm # "gone", WithDot(src, TRUE), dst, Goto("Aattach"))
       ELSE Skip("Adot", "Aattach")
  \/ /\ pc = "Aattach"
     /\ \E v \in todo :
          Call(src.vm # "gone" /\ src.vol[v] = "available", Attached(src, v),
               dst, Again("Aattach", v))
  \/ EndLoop("Aattach", "Astart")
  \/ IF "C1" \in given
       THEN /\ pc = "Astart"
            /\ Call(src.vm = "stopped", Started(src), dst, Goto("Aports"))
       ELSE Skip("Astart", "Aports")
  \/ /\ pc = "Aports"
     /\ \E n \in todo : Call(TRUE, src, Unstaged(dst, n, mid),
                             Again("Aports", n))
  \/ EndLoop("Aports", "rolled")

\* Regime B, the destination half.
UndoDestination ==
  \/ IF "C5" \in given
       THEN /\ pc = "Bdelete"
            /\ Call(TRUE, src, Deleting(dst), Goto("Bunmanage"))
       ELSE Skip("Bdelete", "Bunmanage")
  \/ /\ pc = "Bunmanage"
     /\ \E v \in todo : Call(Releasable(v), src, Releasing(dst, v),
                             Again("Bunmanage", v))
  \/ EndLoop("Bunmanage", "Bmanage")

\* Regime B, the source half.  The files are managed under the name the
\* checkpoints imply; if it is wrong the manage is refused or fails later.
\* The server is booted from plan.volume_ids, the ORIGINAL ids.
RebuildSource ==
  \/ /\ pc = "Bmanage"
     /\ \E v \in todo :
          LET renamed == "C4" \in given
          IN  \/ Call(Findable(v, renamed), Remanaged(src, v), dst,
                      Again("Bmanage", v))
              \/ /\ ~Findable(v, renamed)
                 /\ Call(TRUE, src, dst, Again("Bmanage", v))
  \/ EndLoop("Bmanage", "Bport")
  \/ /\ pc = "Bport"
     /\ \E n \in todo : Call(TRUE, SourcePort(src, n), dst, Again("Bport", n))
  \/ EndLoop("Bport", "Bcreate")
  \/ /\ pc = "Bcreate"
     /\ Call(Bootable(plan), Recreated(src, plan), dst, Goto("Bdports"))
  \/ /\ pc = "Bdports"
     /\ \E n \in todo : Call(TRUE, src, Unstaged(dst, n, mid),
                             Again("Bdports", n))
  \/ EndLoop("Bdports", "rolled")

Report ==
  \/ SetPhase("rolled", "RolledBack", Goto("RolledBack"))
  \/ SetPhase("attention", "NeedsAttention", Goto("NeedsAttention"))

-----------------------------------------------------------------------------
\* POST /{mid}/cancel, at any moment: set_phase, in a request of its own.  What
\* it puts back are the checkpoints it read, whatever was written meanwhile.
ReadForCancel(c) ==
  /\ req[c].at = "new"
  /\ req' = [req EXCEPT ![c] = [at |-> "write", steps |-> cr.steps]]
  /\ UNCHANGED cr

WriteForCancel(c) ==
  /\ req[c].at = "write"
  /\ cr' = [phase |-> "Cancelled", steps |-> req[c].steps]
  /\ req' = [req EXCEPT ![c] = [at |-> "done", steps |-> {}]]

Cancel ==
  /\ \E c \in Cancels : ReadForCancel(c) \/ WriteForCancel(c)
  /\ UNCHANGED <<cloudVars, saved, seen, pc, todo, memory>>

Runner ==
  \/ Assemble \/ Start \/ Preflight \/ Reject \/ Stage \/ HonourCancel
  \/ EnterCutover \/ C1 \/ C2 \/ C2b \/ C2c \/ C3 \/ C4 \/ C5 \/ Verify
  \/ Complete \/ Except \/ RollbackInPlace \/ UndoDestination
  \/ RebuildSource \/ Report

Clouds == CloudStep /\ UNCHANGED <<record, pc, todo, memory>>

Next == Runner \/ Clouds \/ Cancel

Spec == Init /\ [][Next]_vars

\* The background task is a thread of the server that nothing stops.
FairSpec == Spec /\ WF_vars(Runner)

-----------------------------------------------------------------------------
(* Properties.                                                             *)

\* Every variable keeps its type: in particular the runner is always at one
\* of the labels and only known checkpoints and phases are ever written.
TypeOK ==
  /\ CloudTypeOK
  /\ cr \in Status /\ saved \in SUBSET Steps /\ seen \in Status \cup {None}
  /\ req \in [Cancels -> Request] /\ given \in SUBSET Steps
  /\ pc \in Labels /\ todo \in SUBSET Items(pc) /\ plan \in SUBSET Volumes
  /\ readDot \in BOOLEAN /\ handling \in BOOLEAN

\* There is never more than one server of the VM: while the source server
\* exists none has been created on the destination or again on the source,
\* and a VM that was created on the destination is never rebuilt on the
\* source, whatever becomes of it (cutover.py:28 before 62; rollback.py:75).
SingleHost ==
  /\ src.vm # "gone" => dst.vm = "none" /\ ~src.rebuilt
  /\ src.rebuilt => dst.vm = "none"

\* The destination touches a volume only after the source server is gone and
\* the source was asked to let go of EVERY volume (cutover.py:28-36 before 39).
HandoverOrder ==
  (\E v \in Volumes : dst.vol[v] # "absent")
    => /\ src.vm = "gone"
       /\ \A v \in Volumes : src.vol[v] \in {"unmanaging", "gone"}

\* The checkpoints in the resource, and those somebody is about to put there.
Recorded == cr.steps \cup seen.steps \cup UNION {req[c].steps : c \in Cancels}

\* A checkpoint is never ahead of the clouds, whoever writes it back and however
\* late: what a rollback undoes because of it did happen (runner.py:72,
\* rollback.py:12-86, migrations.py:48-58).
CheckpointsHappened ==
  /\ "S1" \in Recorded /\ pc \notin Undoing => \A n \in Nics : dst.ports[n] = mid
  /\ "C1" \in Recorded /\ pc \notin Undoing => src.vm # "running"
  /\ "C2c" \in Recorded => src.vm = "gone"
  /\ "C3" \in Recorded => \A v \in Volumes : src.vol[v] \in {"unmanaging", "gone"}
  /\ "C4" \in Recorded
       => \A v \in Volumes : dst.vol[v] \notin {"absent", "managing"}
  /\ "C5" \in Recorded => dst.vm # "none"

\* No data is deleted except the root volume's, by a reverse migration that
\* removes a destination server, created with the delete_on_termination the
\* source's root volume had (cutover.py:64, rollback.py:43).  The source never
\* deletes any: when its server goes, the flag is off (cutover.py:23 before 28).
LossOnlyInReverse ==
  lost # {} => /\ lost = {Root} /\ RootDot /\ dst.vm = "gone"
               /\ "C5" \in saved /\ ~src.rebuilt

\* The reverse migration runs only when the source server is gone and no
\* volume is attached to it any more (production.py:88).
ReverseOnlyWithoutSource ==
  pc \in Reverse
    => /\ src.vm = "gone"
       /\ src.rebuilt \/ \A v \in Volumes : src.vol[v] \notin {"in-use", "detaching"}

\* Completed is the truth: the destination server runs on all the volumes and
\* all the staged ports, and keeps the root volume's flag; the source has no
\* server (runner.py:46, verify.py:21).
CompletedMeansMoved ==
  pc = "Completed"
    => /\ dst.vm = "active" /\ dst.dot = RootDot
       /\ \A n \in Nics : dst.ports[n] = mid
       /\ \A v \in Volumes : dst.vol[v] = "in-use"
       /\ src.vm = "gone" /\ ~src.rebuilt /\ lost = {}

\* Was the rollback shown that the source server had been stopped?  A cancel that
\* read the resource before C1 and writes it back later takes that away.
StopShown == "C1" \in saved => "C1" \in given

\* RolledBack is the truth as far as it goes, unless a cancel took the record of
\* C1 away: there is a server on the source with its root volume, the destination
\* never had one, no data was lost (runner.py:39 and 59).  Any other checkpoint
\* may be missing: the start of the server, which C1 calls for, is refused when
\* there is none.
RolledBackHasSource ==
  cr.phase = "RolledBack" /\ StopShown
    => /\ src.vm # "gone" \/ src.rebuilt
       /\ src.vol[Root] = "in-use" /\ dst.vm = "none" /\ lost = {}

\* A rollback gives the staged ports back whenever their checkpoint was among
\* those it was given, in both regimes (rollback.py:29-31 and 84-86).
StagedPortsReleased ==
  pc = "RolledBack" /\ "S1" \in given => \A n \in Nics : dst.ports[n] # mid

\* A run that ends because of a cancel left the source server exactly as it found
\* it, however stale the status that the cancel wrote; and no port on the
\* destination, unless its rollback was given a status that lacked the checkpoint
\* of the staging (runner.py:30-40).
CancelLeavesSourceAlone ==
  pc = "Stopped" \/ (pc = "RolledBack" /\ ~handling)
    => /\ src.vm = "running" /\ src.dot = RootDot
       /\ \A v \in Volumes : src.vol[v] = "in-use"
       /\ pc = "Stopped" \/ saved \subseteq given
            => \A n \in Nics : dst.ports[n] # mid

Follows == {<<"S1", "C1">>, <<"C1", "C2">>, <<"C2", "C2b">>, <<"C2b", "C2c">>,
            <<"C2c", "C3">>, <<"C3", "C4">>, <<"C4", "C5">>, <<"C5", "V1">>,
            <<"V1", "V2">>}

\* A cancel is all that can take a checkpoint out of the resource, and none can
\* bring in one that was not written; what the run wrote is a prefix of S1, C1,
\* ..., V2, so the last one names the step that failed until a cancel comes
\* (runner.py:68, migrations.py:48-58).
OnlyCancelsForget ==
  /\ cr.steps \subseteq saved
  /\ (\A c \in Cancels : req[c].at # "done") => cr.steps = saved
  /\ \A p \in Follows : p[2] \in saved => p[1] \in saved

\* The labels in the order a run meets them; the rollback of a failure starts
\* over at Adot or Bdelete.
Place ==
  [assemble |-> 1, start |-> 2, preflight |-> 3, reject |-> 4, enterS |-> 5,
   S1 |-> 6, S1undo |-> 7, S1k |-> 8, staged |-> 9, enterC |-> 10, honour |-> 10, C1 |-> 11,
   C1k |-> 12, C2 |-> 13, C2k |-> 14, C2b |-> 15, C2bset |-> 16, C2bk |-> 17,
   C2c |-> 18, C2wait |-> 19, C2ck |-> 20, C3 |-> 21, C3k |-> 22, C4 |-> 23,
   C4wait |-> 23, C4k |-> 24, C5 |-> 25, C5k |-> 26, enterV |-> 27,
   verify |-> 28, V1k |-> 29, V2k |-> 30, complete |-> 31, Adot |-> 32,
   Aattach |-> 33, Astart |-> 34, Aports |-> 35, Bdelete |-> 36,
   Bunmanage |-> 37, Bmanage |-> 38, Bport |-> 39, Bcreate |-> 40,
   Bdports |-> 41, rolled |-> 42, attention |-> 43, except |-> 44,
   Completed |-> 45, Failed |-> 45, RolledBack |-> 45, NeedsAttention |-> 45,
   Stopped |-> 45, Escaped |-> 45]

\* Fewer things are left of the loop, or the one just given is waited for.
LoopShorter ==
  \/ todo' \subseteq todo /\ todo' # todo
  \/ todo' = todo /\ pc = "C4" /\ pc' = "C4wait"

\* A step that brings the run nearer its end: it starts the rollback of a
\* failure, or goes on to a later label, or has less of a loop to do, or has read
\* what it is to write.
Nearer ==
  \/ ~handling /\ handling'
  \/ /\ handling' = handling
     /\ \/ Place[pc] < Place[pc']
        \/ Place[pc] = Place[pc'] /\ LoopShorter
        \/ pc' = pc /\ todo' = todo /\ seen = None /\ seen' # None

\* Every step of the runner does, so no failure, in a rollback or in the except
\* block itself, sends a run round again, and one that ended takes no further
\* step (runner.py:49-66).
EveryStepNearer == [][Runner => Nearer]_vars

\* Every run ends: each poll is bounded, no rollback is started a second
\* time for ever, and no failure leaves the runner without a next step.
RunEnds == <>(pc \in Ended)

-----------------------------------------------------------------------------
(* The engine implements the contract.                                     *)

Host ==
  IF src.vm # "gone" THEN "source"
  ELSE IF src.rebuilt THEN "rebuilt"
  ELSE CASE dst.vm = "none" -> "nowhere"
         [] dst.vm = "gone" -> "withdrawn"
         [] OTHER -> "dest"

Outcome ==
  CASE pc \in {"Failed", "Stopped"} -> "untouched"
    [] pc = "Completed" -> "moved"
    [] pc = "RolledBack" -> IF StopShown THEN "restored" ELSE "mistaken"
    [] pc = "NeedsAttention" -> "attention"
    [] pc = "Escaped" -> "stranded"
    [] OTHER -> "running"

Contract == INSTANCE MigrationContract WITH host <- Host, outcome <- Outcome

\* Seen from the owner of the VM, the engine's steps are those the contract
\* allows: see MigrationContract.
ContractHolds == Contract!ContractSpec
=============================================================================
