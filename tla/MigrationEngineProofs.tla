------------------------ MODULE MigrationEngineProofs ------------------------
(***************************************************************************)
(* Proofs about MigrationEngine, for any set of volumes with a root volume *)
(* in it, any set of NICs, either value of delete_on_termination, and any  *)
(* combination of refused and lost calls.                                  *)
(***************************************************************************)
EXTENDS MigrationEngine, TLAPS

(***************************************************************************)
(* The inductive invariant.  The properties alone are not inductive: that  *)
(* the destination is touched only after the handover says nothing of why  *)
(* the runner is where it is.  IInv ties the runner's label, and the       *)
(* checkpoints that were ever written, to what has happened to the clouds; *)
(* what the resource holds, what anybody has read of it, and what the      *)
(* rollback was given are among them, though a cancel may have taken away  *)
(* any.                                                                    *)
(***************************************************************************)

\* The labels at which the source server has not been asked to go.
BeforeDelete ==
  {"assemble", "start", "preflight", "reject", "enterS", "S1", "S1undo",
   "S1k", "staged", "honour", "enterC", "C1", "C1k", "C2", "C2k", "C2b",
   "C2bset", "C2bk", "C2c", "Failed", "Stopped"}
BeforeC2b ==
  {"assemble", "start", "preflight", "enterS", "S1", "S1undo", "S1k", "staged",
   "honour", "enterC", "C1", "C1k", "C2", "C2k", "C2b"}
AfterC1 == {"C2", "C2k", "C2b", "C2bset", "C2bk", "C2c"}
DeletePending == {"C2wait", "C2ck"}
AfterC3 == {"C4", "C4wait", "C4k", "C5"}
AfterC5 == {"C5k", "enterV", "verify", "V1k", "V2k", "complete", "Completed"}
Forward == BeforeDelete \cup DeletePending \cup {"C3", "C3k"} \cup AfterC3
             \cup AfterC5

Released(v) == src.vol[v] \in {"unmanaging", "gone"}
Free(v) == src.vol[v] \notin {"in-use", "detaching"}
Settled(v) == dst.vol[v] \notin {"absent", "managing"}

\* Whatever its author has read, no status has a checkpoint that was not written,
\* and until a cancel has been written none lacks one.
RecordInv ==
  /\ cr.steps \subseteq saved /\ seen.steps \subseteq saved
  /\ \A c \in Cancels : req[c].steps \subseteq saved
  /\ given \subseteq saved
  /\ (\A c \in Cancels : req[c].at # "done")
       => cr.steps = saved /\ (seen # None => seen.steps = saved)

\* What the checkpoints and the clouds say of each other, at any label.
StepsInv ==
  /\ "C2c" \in saved => /\ src.vm = "gone"
                        /\ src.rebuilt \/ \A v \in Volumes : Free(v)
  /\ "C3" \in saved => /\ "C2c" \in saved /\ ~src.rebuilt
                       /\ \A v \in Volumes : Released(v)
  /\ "C4" \in saved => "C3" \in saved /\ \A v \in Volumes : Settled(v)
  /\ "C5" \in saved => dst.vm # "none"
  /\ dst.vm # "none" => "C4" \in saved
  /\ \A v \in Volumes : dst.vol[v] # "absent" => "C3" \in saved
  /\ src.vm = "gone" => "C1" \in saved
  /\ src.rebuilt => "C2c" \in saved
  /\ dst.vm \in {"deleting", "gone"} => "C5" \in saved
  /\ src.vm = "gone" => ~src.dot
  /\ dst.vm # "none" => dst.dot = RootDot
  /\ lost # {} => lost = {Root} /\ RootDot /\ dst.vm = "gone"

\* Where the runner can be, given the clouds, before it rolls back.
ForwardInv ==
  /\ pc \in BeforeDelete => src.vm # "gone"
  /\ pc \in BeforeC2b => src.dot = RootDot
  /\ pc \in {"C2bset", "C2bk", "C2c"} \cup DeletePending \cup {"C3", "C3k"}
             \cup AfterC3 => readDot = RootDot
  /\ pc \in {"C2bk", "C2c"} => ~src.dot
  /\ pc \in AfterC1 => "C1" \in saved
  /\ pc \in DeletePending => src.vm = "gone" /\ "C2c" \notin saved
  /\ pc = "C2wait" => \A v \in Volumes \ todo : src.vol[v] = "available"
  /\ pc = "C2ck" => \A v \in Volumes : src.vol[v] = "available"
  /\ pc \in {"C3", "C3k"} => "C2c" \in saved /\ "C3" \notin saved
  /\ pc = "C3" => \A v \in Volumes \ todo : Released(v)
  /\ pc = "C3k" => \A v \in Volumes : Released(v)
  /\ pc \in AfterC3 \cup AfterC5 => "C3" \in saved
  /\ pc \in AfterC3 => dst.vm = "none"
  /\ pc \in {"C4", "C4wait", "C4k"} => "C4" \notin saved
  /\ pc \in {"C4", "C4wait"} => \A v \in Volumes \ todo : Settled(v)
  /\ pc = "C4k" => \A v \in Volumes : Settled(v)
  /\ pc = "C5" => "C4" \in saved
  /\ pc \in AfterC5 => dst.vm \in {"building", "active", "error"}
  /\ pc \in AfterC5 \ {"C5k"} => "C5" \in saved
  /\ handling => pc \notin Forward \cup {"except"}

\* And once it does.
RollbackInv ==
  /\ pc \in Reverse => "C2c" \in given /\ handling
  /\ pc = "Aports" => (StopShown => src.vm # "gone")
  /\ pc = "Bdports" => src.rebuilt
  /\ src.rebuilt => pc \in {"Bdports", "rolled", "attention", "RolledBack",
                            "NeedsAttention", "Escaped"} /\ handling
  /\ pc \in {"rolled", "RolledBack"} /\ StopShown => src.vm # "gone" \/ src.rebuilt
  /\ pc \in {"attention", "NeedsAttention"} => "C2c" \in saved /\ handling
  /\ dst.vm \in {"deleting", "gone"}
       => pc \in (Reverse \ {"Bdports"}) \cup {"attention", "NeedsAttention", "Escaped"}

\* The plan has every volume of the VM: none is detached before it is built.
PlanInv ==
  /\ pc = "assemble" => \A v \in Volumes : src.vol[v] = "in-use"
  /\ pc \notin {"assemble", "Escaped"} => plan = Volumes

IInv == TypeOK /\ RecordInv /\ StepsInv /\ ForwardInv /\ RollbackInv /\ PlanInv

-----------------------------------------------------------------------------
(* What the control-flow operators may do.                                 *)

\* A loop runs over volumes or over NICs.
LEMMA WorkType == TypeOK => \A l : Work(l) \in SUBSET Items(l)
BY DEF Work, Loop, UndoLoop, Items, TypeOK

\* Every label the runner is sent to is one.
LEMMA LabelFacts ==
  /\ {"start", "preflight", "reject", "enterS", "S1", "S1undo", "S1k",
      "staged", "honour", "enterC", "C1", "C1k", "C2", "C2k", "C2b", "C2bset",
      "C2bk", "C2c", "C2wait", "C2ck", "C3", "C3k", "C4", "C4wait", "C4k", "C5",
      "C5k", "enterV", "verify", "V1k", "V2k", "complete", "except",
      "rolled", "attention"} \subseteq Labels
  /\ InPlace \subseteq Labels /\ Reverse \subseteq Labels
  /\ Ended \subseteq Labels
BY DEF Labels, Undoing

\* The handlers an exception can reach.
LEMMA HandlerType ==
  /\ Handler \in {"S1undo", "attention", "Escaped", "except"}
  /\ Handler \in Labels
BY LabelFacts DEF Handler, Ended

-----------------------------------------------------------------------------
(* Typing.                                                                 *)

\* The initial state is well-typed.
LEMMA InitType == Init => TypeOK
<1> SUFFICES ASSUME Init PROVE TypeOK
  OBVIOUS
<1>1. CloudTypeOK
  BY CloudAssumption DEF Init, CloudInit, CloudTypeOK, SrcState, DstState
<1>2. pc \in Labels /\ cr \in Status
  BY DEF Init, Labels, Status, Phases
<1> QED
  BY <1>1, <1>2 DEF Init, TypeOK, Request

\* What the clouds do on their own keeps the types.
LEMMA CloudsType == TypeOK /\ Clouds => TypeOK'
<1> SUFFICES ASSUME TypeOK, Clouds PROVE TypeOK'
  OBVIOUS
<1> USE CloudAssumption DEF TypeOK, CloudTypeOK, SrcState, DstState, Clouds, record, memory
<1>1. CASE SourceDetaches
  BY <1>1 DEF SourceDetaches, DeletedWith
<1>2. CASE SourceUnmanages
  BY <1>2 DEF SourceUnmanages
<1>3. CASE DestManages
  BY <1>3 DEF DestManages
<1>4. CASE DestUnmanages
  BY <1>4 DEF DestUnmanages
<1>5. CASE DestBoots
  BY <1>5 DEF DestBoots
<1>6. CASE DestDeletes
  BY <1>6 DEF DestDeletes, DeletedWith
<1> QED
  BY <1>1, <1>2, <1>3, <1>4, <1>5, <1>6 DEF CloudStep

\* The ways the runner's place changes.
PlaceOK == pc \in Labels /\ todo \in SUBSET Items(pc)

\* An exception takes the runner to a label, with a loop fit for it.
LEMMA RaisePlace == TypeOK /\ Raise => PlaceOK'
<1> SUFFICES ASSUME TypeOK, Raise PROVE PlaceOK'
  OBVIOUS
<1>1. CASE pc = "S1"
  BY <1>1, LabelFacts DEF Raise, Handler, PlaceOK, Items
<1>2. CASE pc # "S1"
  BY <1>2, HandlerType DEF Raise, PlaceOK, Items
<1> QED
  BY <1>1, <1>2

\* So does entering a label afresh ...
LEMMA GotoPlace == ASSUME TypeOK, NEW l \in Labels, Goto(l) PROVE PlaceOK'
BY WorkType DEF Goto, PlaceOK

\* ... and going round the loop the runner is in.
LEMMA AgainPlace ==
  ASSUME TypeOK, NEW l \in Labels, NEW x, Items(l) = Items(pc), Again(l, x)
  PROVE  PlaceOK'
BY DEF Again, PlaceOK, TypeOK

\* The kinds of step, typed once for every use of them.  A call ...
LEMMA CallType ==
  ASSUME TypeOK, NEW s \in SrcState, NEW d \in DstState, NEW can, NEW l \in Labels,
         Call(can, s, d, Goto(l))
  PROVE  TypeOK'
BY GotoPlace, RaisePlace DEF Call, PlaceOK, TypeOK, CloudTypeOK, record, memory

\* The same for a call that is followed by a wait for its item.
LEMMA CallAwaitType ==
  ASSUME TypeOK, NEW s \in SrcState, NEW d \in DstState, NEW can, NEW l \in Labels,
         Items(l) = Items(pc), Call(can, s, d, Await(l))
  PROVE  TypeOK'
BY RaisePlace DEF Call, Await, PlaceOK, TypeOK, CloudTypeOK, record, memory

\* The same for a call inside a loop.
LEMMA CallAgainType ==
  ASSUME TypeOK, NEW s \in SrcState, NEW d \in DstState, NEW can, NEW l \in Labels, NEW x,
         Items(l) = Items(pc), Call(can, s, d, Again(l, x))
  PROVE  TypeOK'
BY AgainPlace, RaisePlace DEF Call, PlaceOK, TypeOK, CloudTypeOK, record, memory

\* A poll keeps the types, in a loop or not.
LEMMA PollType ==
  ASSUME TypeOK, NEW found, NEW l \in Labels, NEW x,
         \/ Poll(found, Goto(l))
         \/ Items(l) = Items(pc) /\ Poll(found, Again(l, x))
  PROVE  TypeOK'
BY GotoPlace, AgainPlace, RaisePlace
   DEF Poll, PlaceOK, TypeOK, CloudTypeOK, record, memory, cloudVars

\* So does a read of the resource before it is written ...
LEMMA GetStatusType == ASSUME TypeOK, NEW at, GetStatus(at) PROVE TypeOK'
BY RaisePlace DEF GetStatus, PlaceOK, TypeOK, CloudTypeOK, memory, cloudVars

\* ... and the write.
LEMMA PatchStatusType ==
  ASSUME TypeOK, NEW at, NEW s \in Status, NEW new \in SUBSET Steps, NEW l \in Labels,
         PatchStatus(at, s, new, Goto(l))
  PROVE  TypeOK'
BY GotoPlace, RaisePlace DEF PatchStatus, PlaceOK, TypeOK, CloudTypeOK, memory, cloudVars

\* So does a step that only moves the runner (and sets what it read).
LEMMA GotoType ==
  ASSUME TypeOK, NEW l \in Labels, Goto(l),
         UNCHANGED <<cloudVars, record, plan>>, readDot' \in BOOLEAN,
         given' \in SUBSET Steps, handling' \in BOOLEAN
  PROVE  TypeOK'
BY GotoPlace DEF PlaceOK, TypeOK, CloudTypeOK, cloudVars, record

\* So does the end of a loop, or a skipped step.
LEMMA LoopType ==
  ASSUME TypeOK, NEW at, NEW next \in Labels, EndLoop(at, next) \/ Skip(at, next)
  PROVE  TypeOK'
BY GotoType DEF EndLoop, Skip, TypeOK, memory

\* So does a checkpoint of a known step.
LEMMA CheckpointType ==
  ASSUME TypeOK, NEW at, NEW name \in Steps, NEW l \in Labels,
         Checkpoint(at, name, Goto(l))
  PROVE  TypeOK'
<1>1. CASE GetStatus(at)
  BY <1>1, GetStatusType
<1>2. CASE PatchStatus(at, [seen EXCEPT !.steps = @ \cup {name}], {name}, Goto(l))
  <2>1. [seen EXCEPT !.steps = @ \cup {name}] \in Status
    BY <1>2 DEF PatchStatus, TypeOK, Status
  <2> QED
    BY <1>2, <2>1, PatchStatusType
<1> QED
  BY <1>1, <1>2 DEF Checkpoint

\* So does setting a known phase.
LEMMA SetPhaseType ==
  ASSUME TypeOK, NEW at, NEW p \in Phases, NEW l \in Labels,
         SetPhase(at, p, Goto(l))
  PROVE  TypeOK'
<1>1. CASE GetStatus(at)
  BY <1>1, GetStatusType
<1>2. CASE PatchStatus(at, [seen EXCEPT !.phase = p], {}, Goto(l))
  <2>1. [seen EXCEPT !.phase = p] \in Status
    BY <1>2 DEF PatchStatus, TypeOK, Status
  <2> QED
    BY <1>2, <2>1, PatchStatusType
<1> QED
  BY <1>1, <1>2 DEF SetPhase

\* The calls keep the records of the two clouds well-typed.
LEMMA SourceCallType ==
  ASSUME NEW s \in SrcState
  PROVE  /\ Stopped(s) \in SrcState /\ Started(s) \in SrcState
         /\ Deleted(s) \in SrcState
         /\ \A P \in SUBSET Volumes : Recreated(s, P) \in SrcState
         /\ \A b \in BOOLEAN : WithDot(s, b) \in SrcState
         /\ \A v \in Volumes : /\ Detached(s, v) \in SrcState
                               /\ Attached(s, v) \in SrcState
                               /\ Remanaged(s, v) \in SrcState
         /\ \A v \in Volumes, left \in {"gone", "unmanaging"} :
              Unmanaged(s, v, left) \in SrcState
         /\ \A n \in Nics : SourcePort(s, n) \in SrcState
<1> USE DEF SrcState
<1>1. Stopped(s) \in SrcState /\ Started(s) \in SrcState
  BY DEF Stopped, Started
<1>2. Deleted(s) \in SrcState
  BY DEF Deleted
<1>3. \A P \in SUBSET Volumes : Recreated(s, P) \in SrcState
  BY DEF Recreated
<1>4. \A b \in BOOLEAN : WithDot(s, b) \in SrcState
  BY DEF WithDot
<1>5. ASSUME NEW v \in Volumes
      PROVE  /\ Detached(s, v) \in SrcState /\ Attached(s, v) \in SrcState
             /\ Remanaged(s, v) \in SrcState
  BY DEF Detached, Attached, Remanaged
<1>6. \A v \in Volumes, left \in {"gone", "unmanaging"} :
        Unmanaged(s, v, left) \in SrcState
  BY DEF Unmanaged
<1>7. \A n \in Nics : SourcePort(s, n) \in SrcState
  BY DEF SourcePort
<1> QED
  BY <1>1, <1>2, <1>3, <1>4, <1>5, <1>6, <1>7

\* The same for the calls to the destination.
LEMMA DestCallType ==
  ASSUME NEW d \in DstState
  PROVE  /\ Deleting(d) \in DstState
         /\ \A b \in BOOLEAN, P \in SUBSET Volumes : Created(d, b, P) \in DstState
         /\ \A v \in Volumes : Managing(d, v) \in DstState /\ Releasing(d, v) \in DstState
         /\ \A n \in Nics : /\ Staged(d, n, mid) \in DstState
                            /\ Unstaged(d, n, mid) \in DstState
<1> USE DEF DstState
<1>1. Deleting(d) \in DstState
  BY DEF Deleting
<1>2. \A b \in BOOLEAN, P \in SUBSET Volumes : Created(d, b, P) \in DstState
  BY DEF Created
<1>3. \A v \in Volumes : Managing(d, v) \in DstState /\ Releasing(d, v) \in DstState
  BY DEF Managing, Releasing
<1>4. \A n \in Nics : Staged(d, n, mid) \in DstState /\ Unstaged(d, n, mid) \in DstState
  BY EngineAssumption DEF Staged, Unstaged
<1> QED
  BY <1>1, <1>2, <1>3, <1>4

\* Staging keeps the types.
LEMMA StageType == TypeOK /\ Stage => TypeOK'
<1> SUFFICES ASSUME TypeOK, Stage PROVE TypeOK'
  OBVIOUS
<1>1. /\ src \in SrcState /\ dst \in DstState
  BY DEF TypeOK, CloudTypeOK
<1>2. pc \in {"S1", "S1undo"} => todo \subseteq Nics
  BY DEF TypeOK, Items
<1>3. Items("S1") = Nics /\ Items("S1undo") = Nics
  BY DEF Items
<1> QED
  BY <1>1, <1>2, <1>3, DestCallType, CallAgainType, CheckpointType,
     SetPhaseType, LoopType, LabelFacts DEF Stage, Steps, Phases

\* The cutover and the verification keep the types.
LEMMA CutoverType ==
  TypeOK /\ (C1 \/ C2 \/ C2b \/ C2c \/ C3 \/ C4 \/ C5 \/ Verify) => TypeOK'
<1> SUFFICES ASSUME TypeOK PROVE (C1 \/ C2 \/ C2b \/ C2c \/ C3 \/ C4 \/ C5 \/ Verify) => TypeOK'
  OBVIOUS
<1>1. /\ src \in SrcState /\ dst \in DstState
  BY DEF TypeOK, CloudTypeOK
<1>2. pc \in {"C2", "C2wait", "C3", "C4", "C4wait"}
        => todo \subseteq Volumes /\ Items(pc) = Volumes
  BY DEF TypeOK, Items
<1>3. /\ Items("C2") = Volumes /\ Items("C2wait") = Volumes
      /\ Items("C3") = Volumes /\ Items("C4") = Volumes
      /\ Items("C4wait") = Volumes
  BY DEF Items
<1> USE <1>1, LabelFacts, SourceCallType, DestCallType, CallType, CheckpointType DEF Steps
<1>4. C1 => TypeOK'
  BY DEF C1
<1>5. C2 => TypeOK'
  BY <1>2, <1>3, CallAgainType, LoopType DEF C2
<1>6. C2b => TypeOK'
  <2>1. ASSUME pc = "C2b", Read(/\ readDot' = src.dot
                                /\ Goto(IF src.dot THEN "C2bset" ELSE "C2bk"))
        PROVE  TypeOK'
    BY <2>1, GotoPlace, RaisePlace
       DEF Read, PlaceOK, TypeOK, CloudTypeOK, cloudVars, record, SrcState
  <2> QED
    BY <2>1 DEF C2b
<1>7. C2c => TypeOK'
  BY <1>2, <1>3, PollType, LoopType DEF C2c
<1>8. C3 => TypeOK'
  BY <1>2, <1>3, CallAgainType, LoopType DEF C3
<1>9. C4 => TypeOK'
  BY <1>2, <1>3, CallAwaitType, PollType, LoopType DEF C4
<1>10. C5 => TypeOK'
  BY DEF C5, TypeOK
<1>11. Verify => TypeOK'
  BY SetPhaseType, PollType DEF Verify, Phases
<1> QED
  BY <1>4, <1>5, <1>6, <1>7, <1>8, <1>9, <1>10, <1>11

\* The rollbacks keep the types.
LEMMA RollbackType ==
  TypeOK /\ (RollbackInPlace \/ UndoDestination \/ RebuildSource \/ Report)
    => TypeOK'
<1> SUFFICES ASSUME TypeOK
             PROVE  (RollbackInPlace \/ UndoDestination \/ RebuildSource \/ Report)
                      => TypeOK'
  OBVIOUS
<1>1. /\ src \in SrcState /\ dst \in DstState /\ plan \in SUBSET Volumes
  BY DEF TypeOK, CloudTypeOK
<1>2. /\ pc \in {"Aattach", "Bunmanage", "Bmanage"}
           => todo \subseteq Volumes /\ Items(pc) = Volumes
      /\ pc \in {"Aports", "Bport", "Bdports"}
           => todo \subseteq Nics /\ Items(pc) = Nics
  BY DEF TypeOK, Items
<1>3. /\ {"Adot", "Aattach", "Astart", "Aports"} \subseteq Labels
      /\ {"Bdelete", "Bunmanage", "Bmanage", "Bport", "Bcreate", "Bdports"} \subseteq Labels
      /\ {"RolledBack", "NeedsAttention"} \subseteq Labels
  BY LabelFacts DEF InPlace, Reverse, Ended
<1> USE <1>1, <1>2, <1>3, LabelFacts, SourceCallType, DestCallType, CallType,
        CallAgainType, LoopType
<1>4. RollbackInPlace => TypeOK'
  BY DEF RollbackInPlace
<1>5. UndoDestination => TypeOK'
  BY DEF UndoDestination
<1>6. RebuildSource => TypeOK'
  BY DEF RebuildSource
<1>7. Report => TypeOK'
  BY SetPhaseType DEF Report, Phases
<1> QED
  BY <1>4, <1>5, <1>6, <1>7

\* So does every other step of the runner, and a cancel.
LEMMA OtherType ==
  TypeOK /\ (Assemble \/ Start \/ Preflight \/ Reject \/ HonourCancel
               \/ EnterCutover \/ Complete \/ Except \/ Cancel)
    => TypeOK'
<1> SUFFICES ASSUME TypeOK
             PROVE  (Assemble \/ Start \/ Preflight \/ Reject \/ HonourCancel
                       \/ EnterCutover \/ Complete \/ Except \/ Cancel) => TypeOK'
  OBVIOUS
<1>1. {"Adot", "Bdelete", "Stopped", "Failed", "Completed"} \subseteq Labels
  BY LabelFacts DEF InPlace, Reverse, Ended
<1>2. Assemble \/ Preflight \/ HonourCancel \/ Except => TypeOK'
  <2>1. cr.steps \in SUBSET Steps
    BY DEF TypeOK, Status
  <2> QED
    BY <1>1, <2>1, LabelFacts, GotoPlace, RaisePlace
       DEF Assemble, Preflight, HonourCancel, Except, Regime, Read, PlaceOK, TypeOK,
           CloudTypeOK, cloudVars, record
<1>3. Start \/ Reject \/ EnterCutover \/ Complete => TypeOK'
  BY <1>1, LabelFacts, SetPhaseType DEF Start, Reject, EnterCutover, Complete, Phases
<1>4. Cancel => TypeOK'
  <2>1. \A r \in Request : r.steps \in SUBSET Steps
    BY DEF Request
  <2>2. \A S \in SUBSET Steps : /\ [phase |-> "Cancelled", steps |-> S] \in Status
                                 /\ \A l \in {"write", "done"} :
                                      [at |-> l, steps |-> S] \in Request
    BY DEF Status, Phases, Request
  <2>3. cr.steps \in SUBSET Steps
    BY DEF TypeOK, Status
  <2> QED
    BY <2>1, <2>2, <2>3 DEF Cancel, ReadForCancel, WriteForCancel, TypeOK, CloudTypeOK,
                            cloudVars, memory
<1> QED
  BY <1>2, <1>3, <1>4

\* TypeOK is inductive on its own.
LEMMA NextType == TypeOK /\ [Next]_vars => TypeOK'
<1> SUFFICES ASSUME TypeOK, [Next]_vars PROVE TypeOK'
  OBVIOUS
<1>1. CASE Runner
  BY <1>1, StageType, CutoverType, RollbackType, OtherType DEF Runner
<1>2. CASE Clouds
  BY <1>2, CloudsType
<1>3. CASE Cancel
  BY <1>3, OtherType
<1>4. CASE UNCHANGED vars
  BY <1>4 DEF vars, cloudVars, record, memory, TypeOK, CloudTypeOK
<1> QED
  BY <1>1, <1>2, <1>3, <1>4 DEF Next

\* Every variable of the engine keeps its type, whatever fails and whenever
\* the cancel arrives.
THEOREM TypeCorrect == Spec => []TypeOK
BY InitType, NextType, PTL DEF Spec

-----------------------------------------------------------------------------
(* The inductive invariant is preserved.                                   *)

\* What the source calls leave as it was.
LEMMA SourceEffects ==
  ASSUME NEW s \in SrcState
  PROVE  /\ /\ Stopped(s).vm = "stopped" /\ Stopped(s).vol = s.vol
            /\ Stopped(s).rebuilt = s.rebuilt /\ Stopped(s).dot = s.dot
         /\ /\ Started(s).vm = "running" /\ Started(s).vol = s.vol
            /\ Started(s).rebuilt = s.rebuilt
         /\ /\ Deleted(s).vm = "gone" /\ Deleted(s).rebuilt = s.rebuilt
            /\ Deleted(s).dot = s.dot
         /\ \A P : /\ Recreated(s, P).vm = s.vm /\ Recreated(s, P).rebuilt
                   /\ Recreated(s, P).dot = s.dot
         /\ \A b : /\ WithDot(s, b).vm = s.vm /\ WithDot(s, b).vol = s.vol
                   /\ WithDot(s, b).rebuilt = s.rebuilt
         /\ \A v \in Volumes :
              /\ Detached(s, v).vm = s.vm /\ Detached(s, v).rebuilt = s.rebuilt
              /\ Attached(s, v).vm = s.vm /\ Attached(s, v).rebuilt = s.rebuilt
              /\ Remanaged(s, v).vm = s.vm /\ Remanaged(s, v).rebuilt = s.rebuilt
              /\ Remanaged(s, v).vol = s.vol /\ Remanaged(s, v).dot = s.dot
         /\ \A v \in Volumes : \A left :
              /\ Unmanaged(s, v, left).vm = s.vm
              /\ Unmanaged(s, v, left).rebuilt = s.rebuilt
              /\ Unmanaged(s, v, left).vol = [s.vol EXCEPT ![v] = left]
         /\ \A n : /\ SourcePort(s, n).vm = s.vm /\ SourcePort(s, n).vol = s.vol
                   /\ SourcePort(s, n).rebuilt = s.rebuilt
                   /\ SourcePort(s, n).dot = s.dot
BY DEF SrcState, Stopped, Started, Deleted, Recreated, WithDot, Detached,
       Attached, Remanaged, Unmanaged, SourcePort

\* What the destination calls leave as it was.
LEMMA DestEffects ==
  ASSUME NEW d \in DstState
  PROVE  /\ Deleting(d).vm \in {"deleting", "gone"}
         /\ d.vm = "gone" => Deleting(d).vm = "gone"
         /\ Deleting(d).vol = d.vol /\ Deleting(d).dot = d.dot
         /\ \A b : /\ Created(d, b, Volumes).vm = "building"
                   /\ Created(d, b, Volumes).dot = b
                   /\ Created(d, b, Volumes).vol = [v \in Volumes |-> "in-use"]
         /\ \A v \in Volumes :
              /\ Managing(d, v).vm = d.vm /\ Managing(d, v).dot = d.dot
              /\ Managing(d, v).vol = [d.vol EXCEPT ![v] = "managing"]
              /\ Releasing(d, v).vm = d.vm /\ Releasing(d, v).dot = d.dot
              /\ Releasing(d, v).vol = [d.vol EXCEPT ![v] = "unmanaging"]
         /\ \A n : /\ Staged(d, n, mid).vm = d.vm /\ Staged(d, n, mid).vol = d.vol
                   /\ Staged(d, n, mid).dot = d.dot
                   /\ Unstaged(d, n, mid).vm = d.vm /\ Unstaged(d, n, mid).vol = d.vol
                   /\ Unstaged(d, n, mid).dot = d.dot
BY DEF DstState, Deleting, Created, Managing, Releasing, Staged, Unstaged

\* The functions in the records, for the goals about one volume.
LEMMA CloudFields ==
  ASSUME TypeOK
  PROVE  /\ src.vol \in [Volumes -> {"in-use", "detaching", "available",
                                     "unmanaging", "gone"}]
         /\ dst.vol \in [Volumes -> {"absent", "managing", "error", "available",
                                     "in-use", "unmanaging", "released",
                                     "deleted"}]
         /\ dst.vm \in {"none", "building", "active", "error", "deleting", "gone"}
BY DEF TypeOK, CloudTypeOK, SrcState, DstState

\* The three loops of the cutover whose progress the invariant follows.
LEMMA LoopsOverVolumes ==
  plan = Volumes
    => Work("C2wait") = Volumes /\ Work("C3") = Volumes /\ Work("C4") = Volumes
BY DEF Work, Loop, InPlace, Reverse

\* From its assembly on, a run that can still act plans for all the volumes.
LEMMA PlanWhole ==
  IInv /\ (\/ C1 \/ C2 \/ C2b \/ C2c \/ C3 \/ C4 \/ C5 \/ Verify \/ Complete
           \/ Except \/ RollbackInPlace \/ UndoDestination \/ RebuildSource
           \/ Report)
    => plan = Volumes
<1> SUFFICES ASSUME IInv PROVE pc \in {"assemble", "Escaped"} =>
                      ~(\/ C1 \/ C2 \/ C2b \/ C2c \/ C3 \/ C4 \/ C5 \/ Verify
                        \/ Complete \/ Except \/ RollbackInPlace
                        \/ UndoDestination \/ RebuildSource \/ Report)
  BY DEF IInv, PlanInv
<1> USE DEF Checkpoint, SetPhase, GetStatus, PatchStatus, EndLoop, Skip
<1>1. pc \in {"assemble", "Escaped"} => ~(C1 \/ C2 \/ C2b \/ C2c \/ C3)
  BY DEF C1, C2, C2b, C2c, C3
<1>2. pc \in {"assemble", "Escaped"} => ~(C4 \/ C5 \/ Verify \/ Complete)
  BY DEF C4, C5, Verify, Complete
<1>3. pc \in {"assemble", "Escaped"}
        => ~(Except \/ RollbackInPlace \/ UndoDestination \/ RebuildSource \/ Report)
  BY DEF Except, RollbackInPlace, UndoDestination, RebuildSource, Report
<1> QED
  BY <1>1, <1>2, <1>3

\* The invariant holds at the start.
LEMMA InitInv == Init => IInv
BY InitType, CloudAssumption
   DEF Init, CloudInit, IInv, StepsInv, ForwardInv, RollbackInv, PlanInv, RecordInv,
       None, BeforeDelete, BeforeC2b, AfterC1,
       DeletePending, AfterC3, AfterC5, Forward, Reverse, InPlace

\* Until the cutover starts nothing happens to the source.
LEMMA BeforeCutover ==
  IInv /\ (\/ Assemble \/ Start \/ Preflight \/ Reject
           \/ Stage \/ HonourCancel \/ EnterCutover)
    => StepsInv' /\ ForwardInv' /\ RollbackInv'
<1> SUFFICES ASSUME IInv,
                   \/ Assemble \/ Start \/ Preflight \/ Reject
                   \/ Stage \/ HonourCancel \/ EnterCutover
             PROVE  StepsInv' /\ ForwardInv' /\ RollbackInv'
  OBVIOUS
<1> USE CloudAssumption, HandlerType, CloudFields, LoopsOverVolumes
    DEF IInv, RecordInv, StepsInv, ForwardInv, RollbackInv, StopShown, TypeOK,
        CloudTypeOK, Goto, Raise, Handler, Items, Released, Free, Settled, BeforeDelete,
        BeforeC2b, AfterC1, DeletePending, AfterC3, AfterC5, Forward, Reverse, InPlace,
        cloudVars, record, memory
<1>1. CASE Assemble
  <2>1. StepsInv'
    BY <1>1 DEF Assemble
  <2>2. ForwardInv'
    BY <1>1 DEF Assemble
  <2>3. RollbackInv'
    BY <1>1 DEF Assemble
  <2> QED
    BY <2>1, <2>2, <2>3
<1>2. CASE Start
  <2>1. StepsInv'
    BY <1>2 DEF Start, SetPhase, GetStatus, PatchStatus
  <2>2. ForwardInv'
    BY <1>2 DEF Start, SetPhase, GetStatus, PatchStatus
  <2>3. RollbackInv'
    BY <1>2 DEF Start, SetPhase, GetStatus, PatchStatus
  <2> QED
    BY <2>1, <2>2, <2>3
<1>3. CASE Preflight
  <2>1. StepsInv'
    BY <1>3 DEF Preflight, Read
  <2>2. ForwardInv'
    BY <1>3 DEF Preflight, Read
  <2>3. RollbackInv'
    BY <1>3 DEF Preflight, Read
  <2> QED
    BY <2>1, <2>2, <2>3
<1>4. CASE Reject
  <2>1. StepsInv'
    BY <1>4 DEF Reject, SetPhase, GetStatus, PatchStatus
  <2>2. ForwardInv'
    BY <1>4 DEF Reject, SetPhase, GetStatus, PatchStatus
  <2>3. RollbackInv'
    BY <1>4 DEF Reject, SetPhase, GetStatus, PatchStatus
  <2> QED
    BY <2>1, <2>2, <2>3
<1>5. CASE Stage
  <2>1. StepsInv'
    BY <1>5 DEF Stage, SetPhase, GetStatus, PatchStatus, Checkpoint, EndLoop, Call, Again,
           Staged, Unstaged, SrcState, DstState
  <2>2. ForwardInv'
    BY <1>5 DEF Stage, SetPhase, GetStatus, PatchStatus, Checkpoint, EndLoop, Call, Again,
           Staged, Unstaged, SrcState, DstState
  <2>3. RollbackInv'
    BY <1>5 DEF Stage, SetPhase, GetStatus, PatchStatus, Checkpoint, EndLoop, Call, Again,
           Staged, Unstaged, SrcState, DstState
  <2> QED
    BY <2>1, <2>2, <2>3
<1>6. CASE HonourCancel
  <2>1. StepsInv'
    BY <1>6 DEF HonourCancel, Regime, Read
  <2>2. ForwardInv'
    BY <1>6 DEF HonourCancel, Regime, Read
  <2>3. RollbackInv'
    BY <1>6 DEF HonourCancel, Regime, Read
  <2> QED
    BY <2>1, <2>2, <2>3
<1>7. CASE EnterCutover
  <2>1. StepsInv'
    BY <1>7 DEF EnterCutover, SetPhase, GetStatus, PatchStatus
  <2>2. ForwardInv'
    BY <1>7 DEF EnterCutover, SetPhase, GetStatus, PatchStatus
  <2>3. RollbackInv'
    BY <1>7 DEF EnterCutover, SetPhase, GetStatus, PatchStatus
  <2> QED
    BY <2>1, <2>2, <2>3
<1> QED
  BY <1>1, <1>2, <1>3, <1>4, <1>5, <1>6, <1>7

\* The source server goes, then the source lets the volumes go.
LEMMA LeaveSource ==
  IInv /\ (\/ C1 \/ C2 \/ C2b \/ C2c
           \/ C3)
    => StepsInv' /\ ForwardInv' /\ RollbackInv'
<1> SUFFICES ASSUME IInv,
                   \/ C1 \/ C2 \/ C2b \/ C2c
                   \/ C3
             PROVE  StepsInv' /\ ForwardInv' /\ RollbackInv'
  OBVIOUS
<1> plan = Volumes
  BY PlanWhole
<1> USE CloudAssumption, HandlerType, CloudFields, LoopsOverVolumes
    DEF IInv, RecordInv, StepsInv, ForwardInv, RollbackInv, StopShown, TypeOK,
        CloudTypeOK, Goto, Raise, Handler, Items, Released, Free, Settled, BeforeDelete,
        BeforeC2b, AfterC1, DeletePending, AfterC3, AfterC5, Forward, Reverse, InPlace,
        cloudVars, record, memory
<1>1. CASE C1
  <2>1. StepsInv'
    BY <1>1 DEF C1, Checkpoint, GetStatus, PatchStatus, Call, Stopped, SrcState, DstState
  <2>2. ForwardInv'
    BY <1>1 DEF C1, Checkpoint, GetStatus, PatchStatus, Call, Stopped, SrcState, DstState
  <2>3. RollbackInv'
    BY <1>1 DEF C1, Checkpoint, GetStatus, PatchStatus, Call, Stopped, SrcState, DstState
  <2> QED
    BY <2>1, <2>2, <2>3
<1>2. CASE C2
  <2>1. StepsInv'
    BY <1>2 DEF C2, Checkpoint, GetStatus, PatchStatus, Call, Again, EndLoop, Detached,
           SrcState, DstState
  <2>2. ForwardInv'
    BY <1>2 DEF C2, Checkpoint, GetStatus, PatchStatus, Call, Again, EndLoop, Detached,
           SrcState, DstState
  <2>3. RollbackInv'
    BY <1>2 DEF C2, Checkpoint, GetStatus, PatchStatus, Call, Again, EndLoop, Detached,
           SrcState, DstState
  <2> QED
    BY <2>1, <2>2, <2>3
<1>3. CASE C2b
  <2>1. StepsInv'
    BY <1>3 DEF C2b, Checkpoint, GetStatus, PatchStatus, Read, Call, WithDot, SrcState,
           DstState
  <2>2. ForwardInv'
    BY <1>3 DEF C2b, Checkpoint, GetStatus, PatchStatus, Read, Call, WithDot, SrcState,
           DstState
  <2>3. RollbackInv'
    BY <1>3 DEF C2b, Checkpoint, GetStatus, PatchStatus, Read, Call, WithDot, SrcState,
           DstState
  <2> QED
    BY <2>1, <2>2, <2>3
<1>4. CASE C2c
  <2>1. StepsInv'
    BY <1>4, SourceEffects, DestEffects DEF C2c, Checkpoint, GetStatus, PatchStatus, Call,
           Poll, Again, EndLoop
  <2>2. ForwardInv'
    BY <1>4, SourceEffects, DestEffects DEF C2c, Checkpoint, GetStatus, PatchStatus, Call,
           Poll, Again, EndLoop
  <2>3. RollbackInv'
    BY <1>4, SourceEffects, DestEffects DEF C2c, Checkpoint, GetStatus, PatchStatus, Call,
           Poll, Again, EndLoop
  <2> QED
    BY <2>1, <2>2, <2>3
<1>5. CASE C3
  <2>1. StepsInv'
    BY <1>5 DEF C3, Checkpoint, GetStatus, PatchStatus, Call, Again, EndLoop, Unmanaged,
           SrcState, DstState
  <2>2. ForwardInv'
    BY <1>5 DEF C3, Checkpoint, GetStatus, PatchStatus, Call, Again, EndLoop, Unmanaged,
           SrcState, DstState
  <2>3. RollbackInv'
    BY <1>5 DEF C3, Checkpoint, GetStatus, PatchStatus, Call, Again, EndLoop, Unmanaged,
           SrcState, DstState
  <2> QED
    BY <2>1, <2>2, <2>3
<1> QED
  BY <1>1, <1>2, <1>3, <1>4, <1>5

\* The destination takes the volumes and creates the server.
LEMMA ReachDestination ==
  IInv /\ (\/ C4 \/ C5 \/ Verify \/ Complete)
    => StepsInv' /\ ForwardInv' /\ RollbackInv'
<1> SUFFICES ASSUME IInv,
                   \/ C4 \/ C5 \/ Verify \/ Complete
             PROVE  StepsInv' /\ ForwardInv' /\ RollbackInv'
  OBVIOUS
<1> plan = Volumes
  BY PlanWhole
<1> USE CloudAssumption, HandlerType, CloudFields, LoopsOverVolumes
    DEF IInv, RecordInv, StepsInv, ForwardInv, RollbackInv, StopShown, TypeOK,
        CloudTypeOK, Goto, Raise, Handler, Items, Released, Free, Settled, BeforeDelete,
        BeforeC2b, AfterC1, DeletePending, AfterC3, AfterC5, Forward, Reverse, InPlace,
        cloudVars, record, memory
<1>1. CASE C4
  <2>1. StepsInv'
    BY <1>1 DEF C4, Checkpoint, GetStatus, PatchStatus, Call, Again, Await, Poll, EndLoop,
           Managing, SrcState, DstState
  <2>2. ForwardInv'
    BY <1>1 DEF C4, Checkpoint, GetStatus, PatchStatus, Call, Again, Await, Poll, EndLoop,
           Managing, SrcState, DstState
  <2>3. RollbackInv'
    BY <1>1 DEF C4, Checkpoint, GetStatus, PatchStatus, Call, Again, Await, Poll, EndLoop,
           Managing, SrcState, DstState
  <2> QED
    BY <2>1, <2>2, <2>3
<1>2. CASE C5
  <2>1. StepsInv'
    BY <1>2, SourceEffects, DestEffects DEF C5, Checkpoint, GetStatus, PatchStatus, Call,
           DestBootable
  <2>2. ForwardInv'
    BY <1>2, SourceEffects, DestEffects DEF C5, Checkpoint, GetStatus, PatchStatus, Call,
           DestBootable
  <2>3. RollbackInv'
    BY <1>2, SourceEffects, DestEffects DEF C5, Checkpoint, GetStatus, PatchStatus, Call,
           DestBootable
  <2> QED
    BY <2>1, <2>2, <2>3
<1>3. CASE Verify
  <2>1. StepsInv'
    BY <1>3 DEF Verify, Checkpoint, SetPhase, GetStatus, PatchStatus, Poll
  <2>2. ForwardInv'
    BY <1>3 DEF Verify, Checkpoint, SetPhase, GetStatus, PatchStatus, Poll
  <2>3. RollbackInv'
    BY <1>3 DEF Verify, Checkpoint, SetPhase, GetStatus, PatchStatus, Poll
  <2> QED
    BY <2>1, <2>2, <2>3
<1>4. CASE Complete
  <2>1. StepsInv'
    BY <1>4 DEF Complete, SetPhase, GetStatus, PatchStatus
  <2>2. ForwardInv'
    BY <1>4 DEF Complete, SetPhase, GetStatus, PatchStatus
  <2>3. RollbackInv'
    BY <1>4 DEF Complete, SetPhase, GetStatus, PatchStatus
  <2> QED
    BY <2>1, <2>2, <2>3
<1> QED
  BY <1>1, <1>2, <1>3, <1>4

\* The rollbacks.
LEMMA RollbackStep ==
  IInv /\ (\/ Except \/ RollbackInPlace \/ UndoDestination \/ RebuildSource
           \/ Report)
    => StepsInv' /\ ForwardInv' /\ RollbackInv'
<1> SUFFICES ASSUME IInv,
                   \/ Except \/ RollbackInPlace \/ UndoDestination \/ RebuildSource
                   \/ Report
             PROVE  StepsInv' /\ ForwardInv' /\ RollbackInv'
  OBVIOUS
<1> plan = Volumes
  BY PlanWhole
<1> USE CloudAssumption, HandlerType, CloudFields, LoopsOverVolumes
    DEF IInv, RecordInv, StepsInv, ForwardInv, RollbackInv, StopShown, TypeOK,
        CloudTypeOK, Goto, Raise, Handler, Items, Released, Free, Settled, BeforeDelete,
        BeforeC2b, AfterC1, DeletePending, AfterC3, AfterC5, Forward, Reverse, InPlace,
        cloudVars, record, memory
<1>1. CASE Except
  <2>1. StepsInv'
    BY <1>1 DEF Except, Regime
  <2>2. ForwardInv'
    BY <1>1 DEF Except, Regime
  <2>3. RollbackInv'
    BY <1>1 DEF Except, Regime
  <2> QED
    BY <2>1, <2>2, <2>3
<1>2. CASE RollbackInPlace
  <2>1. StepsInv'
    BY <1>2 DEF RollbackInPlace, Call, Again, EndLoop, Skip, WithDot,
           Attached, Started, Unstaged, SrcState, DstState
  <2>2. ForwardInv'
    BY <1>2 DEF RollbackInPlace, Call, Again, EndLoop, Skip, WithDot,
           Attached, Started, Unstaged, SrcState, DstState
  <2>3. RollbackInv'
    BY <1>2 DEF RollbackInPlace, Call, Again, EndLoop, Skip, WithDot,
           Attached, Started, Unstaged, SrcState, DstState
  <2> QED
    BY <2>1, <2>2, <2>3
<1>3. CASE UndoDestination
  <2>1. StepsInv'
    BY <1>3 DEF UndoDestination, Call, Again, EndLoop, Skip, Releasable,
           Deleting, Releasing, SrcState, DstState
  <2>2. ForwardInv'
    BY <1>3 DEF UndoDestination, Call, Again, EndLoop, Skip, Releasable,
           Deleting, Releasing, SrcState, DstState
  <2>3. RollbackInv'
    BY <1>3 DEF UndoDestination, Call, Again, EndLoop, Skip, Releasable,
           Deleting, Releasing, SrcState, DstState
  <2> QED
    BY <2>1, <2>2, <2>3
<1>4. CASE RebuildSource
  <2>1. StepsInv'
    BY <1>4, SourceEffects, DestEffects DEF RebuildSource, Call, Again,
           EndLoop, Bootable
  <2>2. ForwardInv'
    BY <1>4, SourceEffects, DestEffects DEF RebuildSource, Call, Again,
           EndLoop, Bootable
  <2>3. RollbackInv'
    BY <1>4, SourceEffects, DestEffects DEF RebuildSource, Call, Again,
           EndLoop, Bootable
  <2> QED
    BY <2>1, <2>2, <2>3
<1>5. CASE Report
  <2>1. StepsInv'
    BY <1>5 DEF Report, SetPhase, GetStatus, PatchStatus
  <2>2. ForwardInv'
    BY <1>5 DEF Report, SetPhase, GetStatus, PatchStatus
  <2>3. RollbackInv'
    BY <1>5 DEF Report, SetPhase, GetStatus, PatchStatus
  <2> QED
    BY <2>1, <2>2, <2>3
<1> QED
  BY <1>1, <1>2, <1>3, <1>4, <1>5

\* What the clouds do on their own.
LEMMA CloudsInv == IInv /\ Clouds => StepsInv' /\ ForwardInv' /\ RollbackInv'
<1> SUFFICES ASSUME IInv, Clouds PROVE StepsInv' /\ ForwardInv' /\ RollbackInv'
  OBVIOUS
<1> USE DEF IInv, StepsInv, ForwardInv, RollbackInv, TypeOK, CloudTypeOK, SrcState, DstState,
        Clouds, record, memory, StopShown, Released, Free, Settled, AfterC5
<1>1. CASE SourceDetaches
  BY <1>1 DEF SourceDetaches, DeletedWith
<1>2. CASE SourceUnmanages
  BY <1>2 DEF SourceUnmanages
<1>3. CASE DestManages
  BY <1>3 DEF DestManages
<1>4. CASE DestUnmanages
  BY <1>4 DEF DestUnmanages
<1>5. CASE DestBoots
  BY <1>5 DEF DestBoots, AfterC3
<1>6. CASE DestDeletes
  BY <1>6, CloudAssumption DEF DestDeletes, DeletedWith, AfterC3
<1> QED
  BY <1>1, <1>2, <1>3, <1>4, <1>5, <1>6 DEF CloudStep

\* Any other step of the runner leaves the plan alone, comes after the assembly
\* and does not lead back to it.
LEMMA AfterAssembly ==
  Runner => \/ Assemble
            \/ plan' = plan /\ pc \notin {"assemble", "Escaped"} /\ pc' # "assemble"
<1> USE HandlerType DEF Goto, Again, Await, Raise, Read, Call, Poll, GetStatus,
        PatchStatus, SetPhase,
        Checkpoint, EndLoop, Skip, memory
<1> DEFINE Fine == plan' = plan /\ pc \notin {"assemble", "Escaped"} /\ pc' # "assemble"
<1>1. Start \/ Preflight \/ Reject => Fine
  BY DEF Start, Preflight, Reject
<1>2. Stage => Fine
  BY DEF Stage
<1>3. HonourCancel \/ EnterCutover \/ Except => Fine
  BY DEF HonourCancel, EnterCutover, Except, Regime
<1>4. C1 \/ C2 \/ C2b => Fine
  BY DEF C1, C2, C2b
<1>5. C2c \/ C3 => Fine
  BY DEF C2c, C3
<1>6. C4 \/ C5 => Fine
  BY DEF C4, C5
<1>7. Verify \/ Complete \/ Report => Fine
  BY DEF Verify, Complete, Report
<1>8. RollbackInPlace => Fine
  BY DEF RollbackInPlace
<1>9. UndoDestination \/ RebuildSource => Fine
  BY DEF UndoDestination, RebuildSource
<1> QED
  BY <1>1, <1>2, <1>3, <1>4, <1>5, <1>6, <1>7, <1>8, <1>9 DEF Runner

\* What is put into the resource was read from it, but for a new checkpoint.
LEMMA WriteRecord ==
  ASSUME TypeOK, RecordInv, NEW at, NEW onward,
         \/ \E name \in Steps : Checkpoint(at, name, onward)
         \/ \E p \in Phases : SetPhase(at, p, onward)
  PROVE  RecordInv'
<1> USE DEF RecordInv, None, memory
<1>1. CASE GetStatus(at)
  BY <1>1 DEF GetStatus
<1>2. ASSUME NEW name \in Steps,
             PatchStatus(at, [seen EXCEPT !.steps = @ \cup {name}], {name}, onward)
      PROVE  RecordInv'
  <2>1. [seen EXCEPT !.steps = @ \cup {name}].steps = seen.steps \cup {name}
    BY <1>2 DEF TypeOK, Status, PatchStatus
  <2> QED
    BY <1>2, <2>1 DEF PatchStatus
<1>3. ASSUME NEW p \in Phases, PatchStatus(at, [seen EXCEPT !.phase = p], {}, onward)
      PROVE  RecordInv'
  <2>1. [seen EXCEPT !.phase = p].steps = seen.steps
    BY <1>3 DEF TypeOK, Status, PatchStatus
  <2> QED
    BY <1>3, <2>1 DEF PatchStatus
<1> QED
  BY <1>1, <1>2, <1>3 DEF Checkpoint, SetPhase

\* A step of the runner writes the resource, or takes the checkpoints of a rollback
\* from it, or leaves it alone.
LEMMA RunnerRecord == TypeOK /\ RecordInv /\ Runner => RecordInv'
<1> SUFFICES ASSUME TypeOK, RecordInv, Runner PROVE RecordInv'
  OBVIOUS
<1>1. (record' = record /\ given' \in {given, cr.steps}) => RecordInv'
  BY DEF record, RecordInv
<1> USE <1>1, WriteRecord DEF Call, Poll, Read, EndLoop, Skip, memory
<1>2. CASE Assemble \/ Start \/ Preflight \/ Reject \/ HonourCancel \/ EnterCutover
  BY <1>2 DEF Assemble, Start, Preflight, Reject, HonourCancel, EnterCutover, Phases, record
<1>3. CASE Stage
  BY <1>3 DEF Stage, Steps, Phases, record
<1>4. CASE C1 \/ C2 \/ C2b
  BY <1>4 DEF C1, C2, C2b, Steps
<1>5. CASE C2c \/ C3
  BY <1>5 DEF C2c, C3, Steps
<1>6. CASE C4 \/ C5
  BY <1>6 DEF C4, C5, Steps
<1>7. CASE Verify \/ Complete \/ Except \/ Report
  BY <1>7 DEF Verify, Complete, Except, Report, Steps, Phases
<1>8. CASE RollbackInPlace
  BY <1>8 DEF RollbackInPlace
<1>9. CASE UndoDestination \/ RebuildSource
  BY <1>9 DEF UndoDestination, RebuildSource
<1> QED
  BY <1>2, <1>3, <1>4, <1>5, <1>6, <1>7, <1>8, <1>9 DEF Runner

\* No step brings in a checkpoint that was not written.
LEMMA NextRecord == TypeOK /\ RecordInv /\ [Next]_vars => RecordInv'
<1> SUFFICES ASSUME TypeOK, RecordInv, [Next]_vars PROVE RecordInv'
  OBVIOUS
<1>1. CASE Runner
  BY <1>1, RunnerRecord
<1>2. CASE Clouds
  BY <1>2 DEF Clouds, RecordInv, record, memory
<1>3. CASE Cancel
  BY <1>3 DEF Cancel, ReadForCancel, WriteForCancel, RecordInv, TypeOK, memory
<1>4. CASE UNCHANGED vars
  BY <1>4 DEF vars, RecordInv, record, memory
<1> QED
  BY <1>1, <1>2, <1>3, <1>4 DEF Next

\* What a step does to the plan and to the volumes it is built from.
LEMMA NextPlan == IInv /\ [Next]_vars => PlanInv'
<1> SUFFICES ASSUME IInv, [Next]_vars PROVE PlanInv'
  OBVIOUS
<1> USE DEF PlanInv
<1>1. CASE Assemble
  <2>1. TypeOK /\ src.vol \in [Volumes -> {"in-use", "detaching", "available",
                                           "unmanaging", "gone"}]
    BY CloudFields DEF IInv
  <2> QED
    BY <1>1, <2>1 DEF Assemble, IInv, Listed, Goto, Raise, Handler, Reverse, cloudVars
<1>2. CASE Runner /\ ~Assemble
  BY <1>2, AfterAssembly DEF IInv
<1>3. CASE Clouds
  <2>1. plan' = plan /\ pc' = pc
    BY <1>3 DEF Clouds, record, memory
  <2>2. pc = "assemble" => src' = src
    BY <1>3 DEF IInv, Clouds, CloudStep, SourceDetaches, SourceUnmanages, DestManages,
                DestUnmanages, DestBoots, DestDeletes
  <2> QED
    BY <2>1, <2>2 DEF IInv
<1>4. CASE Cancel
  BY <1>4 DEF Cancel, cloudVars, memory, IInv
<1>5. CASE UNCHANGED vars
  BY <1>5 DEF vars, cloudVars, record, memory, IInv
<1> QED
  BY <1>1, <1>2, <1>3, <1>4, <1>5 DEF Next

\* Every step keeps the invariant.
LEMMA NextInv == IInv /\ [Next]_vars => IInv'
<1> SUFFICES ASSUME IInv, [Next]_vars PROVE IInv'
  OBVIOUS
<1>1. TypeOK' /\ RecordInv' /\ PlanInv'
  BY NextType, NextRecord, NextPlan DEF IInv
<1>2. CASE Runner
  BY <1>1, <1>2, BeforeCutover, LeaveSource, ReachDestination, RollbackStep
     DEF Runner, IInv
<1>3. CASE Clouds
  BY <1>1, <1>3, CloudsInv DEF IInv
<1>4. CASE Cancel
  BY <1>1, <1>4 DEF Cancel, cloudVars, memory, IInv, StepsInv, ForwardInv,
                    RollbackInv, StopShown, Released, Free, Settled
<1>5. CASE UNCHANGED vars
  BY <1>1, <1>5 DEF vars, cloudVars, record, memory, IInv, StepsInv, ForwardInv,
                    RollbackInv, StopShown, Released, Free, Settled
<1> QED
  BY <1>2, <1>3, <1>4, <1>5 DEF Next

\* The inductive invariant holds of every reachable state.
THEOREM Invariant == Spec => []IInv
BY InitInv, NextInv, PTL DEF Spec

-----------------------------------------------------------------------------
(* The properties that follow.                                             *)

\* There is never more than one server of the VM.
THEOREM SingleHostHolds == Spec => []SingleHost
<1>1. IInv => SingleHost
  BY DEF IInv, StepsInv, SingleHost
<1> QED
  BY <1>1, Invariant, PTL

\* The destination touches a volume only after the source was asked to let
\* every volume go.
THEOREM HandoverOrderHolds == Spec => []HandoverOrder
<1>1. IInv => HandoverOrder
  BY DEF IInv, StepsInv, HandoverOrder, Released
<1> QED
  BY <1>1, Invariant, PTL

\* Only a reverse migration deletes data, and only the root volume's.
THEOREM LossOnlyInReverseHolds == Spec => []LossOnlyInReverse
<1>1. IInv => LossOnlyInReverse
  BY DEF IInv, StepsInv, LossOnlyInReverse
<1> QED
  BY <1>1, Invariant, PTL

\* The reverse migration runs only when the source server is gone and holds
\* no volume.
THEOREM ReverseOnlyWithoutSourceHolds == Spec => []ReverseOnlyWithoutSource
<1>1. IInv => ReverseOnlyWithoutSource
  BY DEF IInv, RecordInv, StepsInv, RollbackInv, ReverseOnlyWithoutSource, Free
<1> QED
  BY <1>1, Invariant, PTL

-----------------------------------------------------------------------------
(* The engine implements the contract.                                     *)

\* How a run ended and where the VM is agree.
OutcomeOK ==
  /\ Outcome = "untouched" => Host = "source"
  /\ Outcome = "moved" => Host = "dest" /\ dst.vm # "deleting"
  /\ Outcome = "restored" => Host \in {"source", "rebuilt"}
  /\ Outcome = "mistaken" => dst.vm # "deleting"
  /\ Outcome = "attention" => Host # "source"
  /\ Outcome \in {"running", "untouched", "moved", "restored", "mistaken",
                  "attention", "stranded"}

\* How the run ended agrees with where the VM is.
LEMMA OutcomeMatches == IInv => OutcomeOK
<1> SUFFICES ASSUME IInv PROVE OutcomeOK
  OBVIOUS
<1> USE DEF IInv, StepsInv, ForwardInv, RollbackInv, Outcome, Host, OutcomeOK
<1>1. CASE pc \in {"Failed", "Stopped"}
  BY <1>1 DEF BeforeDelete
<1>2. CASE pc = "Completed"
  <2>1. /\ dst.vm \in {"building", "active", "error"} /\ "C3" \in saved
    BY <1>2 DEF AfterC5
  <2> QED
    BY <1>2, <2>1
<1>3. CASE pc \in {"RolledBack", "NeedsAttention", "Escaped"}
  BY <1>3 DEF Reverse
<1>4. CASE pc \notin Ended
  BY <1>4 DEF Ended
<1> QED
  BY <1>1, <1>2, <1>3, <1>4 DEF Ended

\* The VM is where it was if nothing it depends on has changed.
LEMMA SameHost ==
  ASSUME src'.vm = "gone" <=> src.vm = "gone", src'.rebuilt = src.rebuilt,
         dst'.vm = dst.vm
  PROVE  Host' = Host
BY DEF Host

\* The runner has not ended when it takes a step.
LEMMA RunnerRuns == Runner => Outcome = "running"
<1> SUFFICES ASSUME Runner PROVE pc \notin Ended
  BY DEF Outcome, Ended
<1> USE DEF Ended, SetPhase, Checkpoint, GetStatus, PatchStatus, EndLoop, Skip
<1>1. Assemble \/ Start \/ Preflight \/ Reject \/ Stage \/ HonourCancel \/ EnterCutover
        => pc \notin Ended
  BY DEF Assemble, Start, Preflight, Reject, Stage, HonourCancel, EnterCutover
<1>2. C1 \/ C2 \/ C2b \/ C2c \/ C3 => pc \notin Ended
  BY DEF C1, C2, C2b, C2c, C3
<1>3. C4 \/ C5 \/ Verify \/ Complete => pc \notin Ended
  BY DEF C4, C5, Verify, Complete
<1>4. Except \/ RollbackInPlace \/ UndoDestination \/ RebuildSource \/ Report
        => pc \notin Ended
  BY DEF Except, RollbackInPlace, UndoDestination, RebuildSource, Report
<1> QED
  BY <1>1, <1>2, <1>3, <1>4 DEF Runner

\* The steps that move the VM, and those that leave it where it is.
HostStep ==
  \/ Host = "source" /\ Host' = "nowhere"
  \/ Host = "nowhere" /\ Host' \in {"dest", "rebuilt"}

\* A step of the runner leaves the VM where it is, or moves it as the contract
\* allows without ending the run.
LEMMA RunnerHost ==
  IInv /\ Runner => Host' = Host \/ (HostStep /\ Outcome' = "running")
<1> SUFFICES ASSUME IInv, Runner
             PROVE  Host' = Host \/ (HostStep /\ Outcome' = "running")
  OBVIOUS
<1>0. /\ src \in SrcState /\ dst \in DstState /\ TypeOK
  BY DEF IInv, TypeOK, CloudTypeOK
<1> USE <1>0, SameHost
<1>1. CASE Assemble \/ Start \/ Preflight \/ Reject \/ HonourCancel \/ EnterCutover
  BY <1>1 DEF Assemble, Start, Preflight, Reject, HonourCancel, EnterCutover, SetPhase,
              GetStatus, PatchStatus, Read, cloudVars
<1>2. CASE Verify \/ Complete \/ Except \/ Report
  BY <1>2 DEF Verify, Complete, Except, Report, SetPhase, Checkpoint, GetStatus,
              PatchStatus, Poll, cloudVars
<1>3. CASE Stage
  BY <1>3, DestEffects DEF Stage, SetPhase, Checkpoint, GetStatus, PatchStatus, Call,
                           EndLoop, cloudVars
<1>4. CASE C1
  <2>1. src.vm # "gone" => Stopped(src).vm # "gone" /\ Stopped(src).rebuilt = src.rebuilt
    BY SourceEffects
  <2> QED
    BY <1>4, <2>1 DEF C1, Checkpoint, GetStatus, PatchStatus, Call, cloudVars
<1>5. CASE C2
  BY <1>5 DEF C2, Checkpoint, GetStatus, PatchStatus, Call, EndLoop, cloudVars, Detached, SrcState
<1>6. CASE C2b
  BY <1>6 DEF C2b, Checkpoint, GetStatus, PatchStatus, Read, Call, cloudVars, WithDot, SrcState
<1>7. CASE C2c
  <2>1. CASE pc = "C2c" /\ src' = Deleted(src) /\ dst' = dst
    <3>1. src.vm # "gone" /\ ~src.rebuilt /\ dst.vm = "none" /\ ~handling
      BY <2>1 DEF IInv, StepsInv, ForwardInv, BeforeDelete, RollbackInv, Forward
    <3>2. Host = "source" /\ Host' = "nowhere"
      BY <2>1, <3>1, SourceEffects DEF Host
    <3>3. pc' \in {"C2wait", "except"}
      BY <1>7, <2>1, <3>1 DEF C2c, Call, Poll, EndLoop, Checkpoint, GetStatus,
                              PatchStatus, Goto, Raise, Handler, Reverse
    <3> QED
      BY <3>2, <3>3 DEF HostStep, Outcome
  <2>2. CASE UNCHANGED <<src, dst>>
    BY <2>2
  <2> QED
    BY <1>7, <2>1, <2>2 DEF C2c, Call, Poll, EndLoop, Checkpoint, GetStatus, PatchStatus, cloudVars
<1>8. CASE C3
  BY <1>8 DEF C3, Checkpoint, GetStatus, PatchStatus, Call, EndLoop, cloudVars, Unmanaged, SrcState
<1>9. CASE C4
  BY <1>9 DEF C4, Checkpoint, GetStatus, PatchStatus, Call, Poll, EndLoop, cloudVars,
              Managing, DstState
<1>10. CASE C5
  <2>0. plan = Volumes
    BY <1>10, PlanWhole
  <2>1. CASE pc = "C5" /\ dst' = Created(dst, readDot, Volumes) /\ src' = src
    <3>1. src.vm = "gone" /\ ~src.rebuilt /\ dst.vm = "none" /\ ~handling
      BY <2>1 DEF IInv, StepsInv, ForwardInv, AfterC3, RollbackInv, Forward
    <3>2. Created(dst, readDot, Volumes).vm = "building"
      BY DEF Created, DstState
    <3>3. Host = "nowhere" /\ Host' = "dest"
      BY <2>1, <3>1, <3>2 DEF Host
    <3>4. pc' \in {"C5k", "except"}
      BY <1>10, <2>1, <3>1 DEF C5, Call, Checkpoint, GetStatus, PatchStatus, Goto, Raise,
                               Handler, Reverse
    <3> QED
      BY <3>3, <3>4 DEF HostStep, Outcome
  <2>2. CASE UNCHANGED <<src, dst>>
    BY <2>2
  <2> QED
    BY <1>10, <2>0, <2>1, <2>2 DEF C5, Call, Checkpoint, GetStatus, PatchStatus, cloudVars
<1>11. CASE RollbackInPlace
  BY <1>11 DEF RollbackInPlace, Call, EndLoop, Skip, cloudVars, WithDot, Attached,
               Started, Unstaged, SrcState, DstState
<1>12. CASE UndoDestination
  <2>1. CASE pc = "Bdelete" /\ "C5" \in given /\ dst' = Deleting(dst) /\ src' = src
    <3>1. dst.vm # "none"
      BY <2>1 DEF IInv, RecordInv, StepsInv
    <3>2. src.vm = "gone" /\ ~src.rebuilt
      BY <3>1 DEF IInv, StepsInv
    <3>3. Deleting(dst).vm = IF dst.vm = "gone" THEN "gone" ELSE "deleting"
      BY DEF Deleting, DstState
    <3> QED
      BY <2>1, <3>1, <3>2, <3>3 DEF Host
  <2>2. CASE UNCHANGED <<src, dst>>
    BY <2>2
  <2>3. CASE pc = "Bunmanage"
    BY <1>12, <2>3 DEF UndoDestination, Call, EndLoop, Skip, cloudVars, Releasing, DstState
  <2> QED
    BY <1>12, <2>1, <2>2, <2>3 DEF UndoDestination, Call, EndLoop, Skip, cloudVars
<1>13. CASE RebuildSource
  <2>0. plan = Volumes
    BY <1>13, PlanWhole
  <2>1. CASE pc = "Bcreate" /\ src' = Recreated(src, Volumes) /\ dst' = dst /\ Bootable(Volumes)
    <3>1. src.vm = "gone" /\ ~src.rebuilt /\ "C3" \notin saved
      BY <2>1, CloudAssumption DEF IInv, RecordInv, StepsInv, RollbackInv, Reverse,
                                 Bootable, Released
    <3>2. dst.vm = "none"
      BY <3>1 DEF IInv, StepsInv
    <3>3. Host = "nowhere" /\ Host' = "rebuilt"
      BY <2>1, <3>1, <3>2, SourceEffects DEF Host
    <3>4. pc' \in {"Bdports", "attention"}
      BY <1>13, <2>1 DEF RebuildSource, Call, EndLoop, Goto, Raise, Handler, Reverse
    <3> QED
      BY <3>3, <3>4 DEF HostStep, Outcome
  <2>2. CASE UNCHANGED <<src, dst>>
    BY <2>2
  <2>3. CASE pc # "Bcreate"
    BY <1>13, <2>3 DEF RebuildSource, Call, EndLoop, cloudVars, Remanaged, SourcePort,
                       Unstaged, SrcState, DstState
  <2> QED
    BY <1>13, <2>0, <2>1, <2>2, <2>3 DEF RebuildSource, Call, EndLoop
<1> QED
  BY <1>1, <1>2, <1>3, <1>4, <1>5, <1>6, <1>7, <1>8, <1>9, <1>10, <1>11,
     <1>12, <1>13 DEF Runner

\* What the clouds do on their own moves the VM only by ending the
\* destination server.
LEMMA CloudsHost ==
  IInv /\ Clouds => /\ Outcome' = Outcome
                    /\ \/ Host' = Host
                       \/ dst.vm = "deleting" /\ Host = "dest" /\ Host' = "withdrawn"
<1> SUFFICES ASSUME IInv, Clouds
             PROVE  /\ Outcome' = Outcome
                    /\ \/ Host' = Host
                       \/ dst.vm = "deleting" /\ Host = "dest" /\ Host' = "withdrawn"
  OBVIOUS
<1>0. /\ src \in SrcState /\ dst \in DstState
  BY DEF IInv, TypeOK, CloudTypeOK
<1>1. Outcome' = Outcome
  BY DEF Clouds, record, memory, Outcome, StopShown
<1>2. CASE SourceDetaches \/ SourceUnmanages \/ DestManages \/ DestUnmanages
  BY <1>0, <1>1, <1>2, SameHost
     DEF SourceDetaches, SourceUnmanages, DestManages, DestUnmanages, DeletedWith,
         SrcState, DstState
<1>3. CASE DestBoots
  BY <1>0, <1>1, <1>3 DEF DestBoots, Host, DstState
<1>4. CASE DestDeletes
  <2>1. src.vm = "gone" /\ ~src.rebuilt /\ dst.vm = "deleting"
    BY <1>4 DEF DestDeletes, IInv, StepsInv
  <2>2. src' = src /\ dst'.vm = "gone"
    BY <1>0, <1>4 DEF DestDeletes, DstState
  <2> QED
    BY <1>1, <2>1, <2>2 DEF Host
<1> QED
  BY <1>2, <1>3, <1>4 DEF Clouds, CloudStep

\* Every step is one of the contract's or leaves host and outcome alone.
LEMMA StepRefines == IInv /\ IInv' /\ [Next]_vars => [Contract!ContractNext]_<<Host, Outcome>>
<1> SUFFICES ASSUME IInv, IInv', [Next]_vars
             PROVE  [Contract!ContractNext]_<<Host, Outcome>>
  OBVIOUS
<1> USE DEF Contract!ContractNext, Contract!Depart, Contract!Arrive, Contract!Rebuild,
            Contract!Withdraw, Contract!Finish, Contract!Outcomes
<1>0. OutcomeOK /\ OutcomeOK'
  BY OutcomeMatches, PTL
<1> USE <1>0 DEF OutcomeOK
<1>1. CASE Runner
  <2>1. Outcome = "running"
    BY <1>1, RunnerRuns
  <2>2. CASE Host' = Host
    BY <2>1, <2>2
  <2>3. CASE HostStep /\ Outcome' = "running"
    BY <2>1, <2>3 DEF HostStep
  <2> QED
    BY <1>1, <2>2, <2>3, RunnerHost
<1>2. CASE Clouds
  BY <1>2, CloudsHost
<1>3. CASE Cancel
  BY <1>3 DEF Cancel, cloudVars, memory, Host, Outcome, StopShown
<1>4. CASE UNCHANGED vars
  BY <1>4 DEF vars, cloudVars, record, memory, Host, Outcome, StopShown
<1> QED
  BY <1>1, <1>2, <1>3, <1>4 DEF Next

\* Whatever fails, the owner of the VM sees only what the contract allows.
THEOREM ImplementsContract == Spec => ContractHolds
<1>1. Init => Contract!ContractInit
  BY DEF Init, CloudInit, Contract!ContractInit, Host, Outcome
<1> QED
  BY <1>1, StepRefines, Invariant, PTL
     DEF Spec, ContractHolds, Contract!ContractSpec, Contract!contractVars

-----------------------------------------------------------------------------
(***************************************************************************)
(* A run only goes on.  This is the part of RunEnds that a proof reaches:  *)
(* handling is set once, the places are finitely many, and a loop over a   *)
(* finite set shrinks, so no run takes infinitely many steps; that one     *)
(* which has not ended takes a next one is left to TLC.                    *)
(***************************************************************************)

\* Where an exception takes a run is later than where it was; the except block
\* is entered before a rollback handles anything, and only once.
LEMMA HandlerLater == IInv /\ Runner => Place[pc] < Place[Handler]
<1> SUFFICES ASSUME IInv, Runner PROVE Place[pc] < Place[Handler]
  OBVIOUS
<1>1. pc \in Labels \ Ended /\ (handling => pc \notin Forward \cup {"except"})
  BY RunnerRuns DEF IInv, TypeOK, ForwardInv, Outcome, Ended
<1> QED
  BY <1>1 DEF Handler, Place, Labels, Undoing, InPlace, Reverse, Ended

\* Every step of the runner goes down it.
LEMMA RunnerNearer == IInv /\ Runner => Nearer
<1> SUFFICES ASSUME IInv, Runner PROVE Nearer
  OBVIOUS
<1>0. /\ pc' = Handler => Place[pc] < Place[pc']
      /\ handling => pc # "except"
      /\ cr # None
  BY HandlerLater DEF IInv, ForwardInv, TypeOK, Status, Phases, None
<1>a. CASE C2b
  <2>1. /\ handling' = handling
        /\ pc = "C2b" => pc' \in {"C2bset", "C2bk", Handler}
        /\ pc = "C2bset" => pc' \in {"C2bk", Handler}
        /\ pc = "C2bk" => \/ pc' \in {"C2c", Handler}
                          \/ pc' = pc /\ todo' = todo /\ seen = None /\ seen' # None
        /\ pc \in {"C2b", "C2bset", "C2bk"}
    BY <1>0, <1>a DEF C2b, Read, Call, Checkpoint, GetStatus, PatchStatus, Goto, Raise,
                      memory
  <2> QED
    BY <1>0, <2>1 DEF Nearer, Place
<1>l. ASSUME NEW l, NEW x \in todo, NEW can, NEW s, NEW d,
             pc = l, Call(can, s, d, Again(l, x))
      PROVE  handling' = handling /\ (pc' = Handler \/ (pc' = pc /\ LoopShorter))
  BY <1>l DEF Call, Again, Raise, LoopShorter, memory
<1>b. CASE RollbackInPlace
  <2>1. CASE pc \in {"Adot", "Astart"}
    <3>1. /\ handling' = handling
          /\ pc = "Adot" => pc' \in {"Aattach", Handler}
          /\ pc = "Astart" => pc' \in {"Aports", Handler}
      BY <1>b, <2>1 DEF RollbackInPlace, Skip, EndLoop, Call, Goto, Raise, memory
    <3> QED
      BY <1>0, <2>1, <3>1 DEF Nearer, Place
  <2>2. CASE pc = "Aattach"
    <3>1. \/ EndLoop("Aattach", "Astart")
          \/ \E v \in todo :
               Call(src.vm # "gone" /\ src.vol[v] = "available", Attached(src, v), dst,
                    Again("Aattach", v))
      BY <1>b, <2>2 DEF RollbackInPlace, Skip, EndLoop
    <3>2. /\ handling' = handling
          /\ pc' \in {"Astart", Handler} \/ (pc' = pc /\ LoopShorter)
      BY <1>l, <2>2, <3>1 DEF EndLoop, Goto, memory
    <3> QED
      BY <1>0, <2>2, <3>2 DEF Nearer, Place
  <2>3. CASE pc = "Aports"
    <3>1. \/ EndLoop("Aports", "rolled")
          \/ \E n \in todo : Call(TRUE, src, Unstaged(dst, n, mid), Again("Aports", n))
      BY <1>b, <2>3 DEF RollbackInPlace, Skip, EndLoop
    <3>2. /\ handling' = handling
          /\ pc' \in {"rolled", Handler} \/ (pc' = pc /\ LoopShorter)
      BY <1>l, <2>3, <3>1 DEF EndLoop, Goto, memory
    <3> QED
      BY <1>0, <2>3, <3>2 DEF Nearer, Place
  <2> QED
    BY <1>b, <2>1, <2>2, <2>3 DEF RollbackInPlace, Skip, EndLoop
<1> USE <1>0
    DEF Goto, Raise, Again, Await, Read, Call, Poll, GetStatus, PatchStatus, SetPhase, Checkpoint,
        EndLoop, Skip, memory, Nearer, LoopShorter, Place
<1>1. CASE Assemble
  BY <1>1 DEF Assemble
<1>2. CASE Start
  BY <1>2 DEF Start
<1>3. CASE Preflight
  BY <1>3 DEF Preflight
<1>4. CASE Reject
  BY <1>4 DEF Reject
<1>5. CASE Stage
  BY <1>5 DEF Stage
<1>6. CASE HonourCancel
  BY <1>6 DEF HonourCancel, Regime
<1>7. CASE EnterCutover
  BY <1>7 DEF EnterCutover
<1>8. CASE C1
  BY <1>8 DEF C1
<1>9. CASE C2
  BY <1>9 DEF C2
<1>11. CASE C2c
  BY <1>11 DEF C2c
<1>12. CASE C3
  BY <1>12 DEF C3
<1>13. CASE C4
  BY <1>13 DEF C4
<1>14. CASE C5
  BY <1>14 DEF C5
<1>15. CASE Verify
  BY <1>15 DEF Verify
<1>16. CASE Complete
  BY <1>16 DEF Complete
<1>17. CASE Except
  BY <1>17 DEF Except, Regime
<1>19. CASE UndoDestination
  BY <1>19 DEF UndoDestination
<1>20. CASE RebuildSource
  BY <1>20 DEF RebuildSource
<1>21. CASE Report
  BY <1>21 DEF Report
<1> QED
  BY <1>1, <1>2, <1>3, <1>4, <1>5, <1>6, <1>7, <1>8, <1>9, <1>a, <1>11,
     <1>12, <1>13, <1>14, <1>15, <1>16, <1>17, <1>b, <1>19, <1>20, <1>21
     DEF Runner

\* Every step of a run brings it nearer its end.
THEOREM EveryStepNearerHolds == Spec => EveryStepNearer
<1>1. IInv /\ [Next]_vars => [Runner => Nearer]_vars
  BY RunnerNearer
<1> QED
  BY <1>1, Invariant, PTL DEF Spec, EveryStepNearer

=============================================================================
