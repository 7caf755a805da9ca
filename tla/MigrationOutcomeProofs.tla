----------------------- MODULE MigrationOutcomeProofs -----------------------
(***************************************************************************)
(* What the end of a migration means, for any volumes, NICs and faults:    *)
(* the rest of the properties of MigrationEngine.  They need to know whose *)
(* the staged ports are and what the source has kept at each label, which  *)
(* five more invariants say, each inductive given IInv.  The last part is  *)
(* about a run that shares its clouds with another: what it may rely on    *)
(* whatever the other one does, for MigrationPairProofs.                   *)
(***************************************************************************)
EXTENDS MigrationEngineProofs

-----------------------------------------------------------------------------
(* The invariants.                                                         *)

\* The labels at which nothing is staged, ...
BeforeStaging == {"assemble", "start", "preflight", "reject", "enterS",
                  "Failed", "Stopped"}
\* ... at which staging has recorded nothing, ...
BeforeS1 == BeforeStaging \cup {"S1", "S1undo", "S1k"}
\* ... at which it is complete, ...
AfterS1 == {"S1k", "staged", "honour", "enterC", "C1", "C1k", "C2", "C2k", "C2b",
            "C2bset", "C2bk", "C2c", "C2wait", "C2ck", "C3", "C3k", "C4", "C4wait",
            "C4k", "C5", "C5k", "enterV", "verify", "V1k", "V2k", "complete",
            "Completed"}
\* ... and at which the source has not been called.
BeforeC1 == BeforeS1 \cup {"staged", "honour", "enterC", "C1"}

\* The labels say which checkpoint is the last, so the next one follows it.
PrefixInv ==
  /\ \A p \in Follows : p[2] \in saved => p[1] \in saved
  /\ pc \in {"staged", "honour", "enterC", "C1", "C1k"} => "S1" \in saved
  /\ pc \in {"C2", "C2k"} => "C1" \in saved
  /\ pc \in {"C2b", "C2bset", "C2bk"} => "C2" \in saved
  /\ pc \in {"C2c", "C2wait", "C2ck"} => "C2b" \in saved
  /\ pc \in {"C3", "C3k"} => "C2c" \in saved
  /\ pc \in {"C4", "C4wait", "C4k"} => "C3" \in saved
  /\ pc \in {"C5", "C5k"} => "C4" \in saved
  /\ pc \in {"enterV", "verify", "V1k"} => "C5" \in saved
  /\ pc = "V2k" => "V1" \in saved

Mine(n) == dst.ports[n] = mid

\* Whose the staged ports are, loop by loop.
PortsInv ==
  /\ pc \in BeforeS1 => saved = {}
  /\ pc \in BeforeStaging => \A n \in Nics : ~Mine(n)
  /\ pc = "S1" => \A n \in Nics \ todo : Mine(n)
  /\ pc \in AfterS1 => \A n \in Nics : Mine(n)
  /\ pc \in {"Aports", "Bdports"} /\ "S1" \in given
       => \A n \in Nics \ todo : ~Mine(n)
  /\ pc \in {"rolled", "RolledBack"} /\ "S1" \in given => \A n \in Nics : ~Mine(n)

\* The source server as the migration found it.
Untouched == /\ src.vm = "running" /\ src.dot = RootDot
             /\ \A v \in Volumes : src.vol[v] = "in-use"

\* What the source has kept; a rollback outside the except block, which only a
\* cancel starts, has nothing to restore.
SourceInv ==
  /\ pc \in BeforeC1 => Untouched
  /\ pc \in AfterS1 \ BeforeC1 => src.vm # "running"
  /\ pc \in {"staged", "honour", "enterC", "C1"} => saved = {"S1"}
  /\ pc = "C2" => Root \notin todo
  /\ pc \in InPlace \cup {"rolled", "RolledBack"} /\ ~handling
       => Untouched /\ saved = {"S1"}
  /\ pc = "Aattach" /\ ~handling => todo = {}
  /\ src.vm # "gone" \/ src.rebuilt => src.vol[Root] = "in-use"

\* Who may find RolledBack in the resource: a rollback that wrote it, and whose
\* answer may have been lost.
PhaseInv ==
  /\ "RolledBack" \in {cr.phase, seen.phase} => pc \in Undoing \ {"Completed"}
  /\ cr.phase = "RolledBack" /\ StopShown => src.vm # "gone" \/ src.rebuilt
  /\ cr.phase = "RolledBack" /\ "C1" \in saved => pc \in {"RolledBack", "Escaped"}

\* What the destination has got.
DestInv ==
  /\ pc \in {"C5k", "enterV", "verify", "V1k", "V2k", "complete", "Completed"}
       => \A v \in Volumes : dst.vol[v] = "in-use"
  /\ pc \in {"V1k", "V2k", "complete", "Completed"} => dst.vm = "active"

-----------------------------------------------------------------------------
(* They hold at the start and every step keeps them.                       *)

\* Only a failing stage is sent to undo its ports.
LEMMA HandlerCases ==
  /\ pc = "S1" => Handler = "S1undo"
  /\ pc # "S1" => Handler \in {"attention", "Escaped", "except"}
BY DEF Handler

\* What the proofs below use of the typing invariant, ...
LEMMA Typed ==
  ASSUME TypeOK
  PROVE  /\ src \in SrcState /\ dst \in DstState /\ lost \subseteq Volumes
         /\ plan \subseteq Volumes /\ saved \subseteq Steps
         /\ pc \in {"S1", "S1undo", "Aports", "Bport", "Bdports"} => todo \subseteq Nics
         /\ pc \in {"C2", "Aattach", "C2wait", "C3", "C4", "C4wait", "Bunmanage", "Bmanage"}
              => todo \subseteq Volumes
BY DEF TypeOK, CloudTypeOK, Items

\* ... and of IInv.
LEMMA Known ==
  ASSUME IInv
  PROVE  /\ src \in SrcState /\ dst \in DstState
         /\ pc \in {"C2", "Aattach", "C3", "C4"} => todo \subseteq Volumes
         /\ src.rebuilt => /\ src.vm = "gone" /\ handling
                           /\ pc \in {"Bdports", "rolled", "attention", "RolledBack",
                                     "NeedsAttention", "Escaped"}
         /\ pc \in {"C2wait", "C2ck", "C3", "C3k"} => src.vm = "gone"
         /\ pc \in Reverse => src.vm = "gone" /\ handling
         /\ given \subseteq saved
         /\ pc \in {"C5k", "enterV", "verify", "V1k", "V2k", "complete", "Completed"}
              => dst.vm \in {"building", "active", "error"}
BY Typed DEF IInv, RecordInv, StepsInv, ForwardInv, RollbackInv, DeletePending, AfterC5

\* The loops whose items the invariants name.
LEMMA Loops ==
  /\ Work("S1") = Nics /\ Work("C2") = plan \ {Root}
  /\ "C2" \notin given => Work("Aattach") = {}
  /\ "S1" \in given => Work("Aports") = Nics /\ Work("Bdports") = Nics
BY DEF Work, Loop, UndoLoop, InPlace, Reverse

\* What the calls to the destination do to its ports.
LEMMA PortEffects ==
  ASSUME NEW d \in DstState
  PROVE  /\ Deleting(d).ports = d.ports
         /\ \A b, P : Created(d, b, P).ports = d.ports
         /\ \A v : Managing(d, v).ports = d.ports /\ Releasing(d, v).ports = d.ports
         /\ \A n \in Nics :
              /\ Staged(d, n, mid).ports = [d.ports EXCEPT ![n] = mid]
              /\ Unstaged(d, n, mid).ports
                   = [d.ports EXCEPT ![n] = IF @ = mid THEN "free" ELSE @]
         /\ d.ports \in [Nics -> Mids \cup {"free"}]
BY DEF DstState, Deleting, Created, Managing, Releasing, Staged, Unstaged

\* They hold of the initial states.
LEMMA OutcomeInit == Init => PrefixInv /\ PortsInv /\ SourceInv /\ DestInv /\ PhaseInv
BY CloudAssumption, EngineAssumption
   DEF Init, CloudInit, PrefixInv, Follows, PortsInv, BeforeS1, AfterS1,
       BeforeStaging, Mine, SourceInv, BeforeC1, Untouched, InPlace, DestInv, PhaseInv, None

\* The last checkpoint and the label stay in step.
LEMMA PrefixNext == TypeOK /\ PrefixInv /\ [Next]_vars => PrefixInv'
<1> SUFFICES ASSUME TypeOK, PrefixInv, [Next]_vars PROVE PrefixInv'
  OBVIOUS
<1>0. src \in SrcState
  BY Typed
<1> USE HandlerCases, <1>0
    DEF Goto, Raise, Again, Await, Read, Call, Poll, GetStatus, PatchStatus, SetPhase,
        Checkpoint, EndLoop, Skip, record, memory, cloudVars,
        PrefixInv, Follows, InPlace, Reverse
<1>1. CASE Assemble
  BY <1>1 DEF Assemble
<1>2. CASE Start
  BY <1>2 DEF Start
<1>3. CASE Preflight
  BY <1>3 DEF Preflight
<1>4. CASE Reject
  BY <1>4 DEF Reject
<1>5. CASE Stage
  BY <1>5 DEF Stage
<1>6. CASE HonourCancel
  BY <1>6 DEF HonourCancel, Regime
<1>7. CASE EnterCutover
  BY <1>7 DEF EnterCutover
<1>8. CASE C1
  BY <1>8 DEF C1
<1>9. CASE C2
  BY <1>9 DEF C2
<1>10. CASE C2b
  <2>1. (IF src.dot THEN "C2bset" ELSE "C2bk") \in {"C2bset", "C2bk"}
    OBVIOUS
  <2>2. CASE pc = "C2b"
    <3>1. saved' = saved /\ pc' \in {"C2bset", "C2bk", "attention", "Escaped", "except"}
      BY <1>10, <2>1, <2>2 DEF C2b
    <3> QED
      BY <2>2, <3>1
  <2>3. CASE pc = "C2bset"
    BY <1>10, <2>3 DEF C2b
  <2>4. CASE pc = "C2bk"
    BY <1>10, <2>4 DEF C2b
  <2> QED
    BY <1>10, <2>2, <2>3, <2>4 DEF C2b
<1>11. CASE C2c
  BY <1>11 DEF C2c
<1>12. CASE C3
  BY <1>12 DEF C3
<1>13. CASE C4
  BY <1>13 DEF C4
<1>14. CASE C5
  BY <1>14 DEF C5
<1>15. CASE Verify
  BY <1>15 DEF Verify
<1>16. CASE Complete
  BY <1>16 DEF Complete
<1>17. CASE Except
  BY <1>17 DEF Except, Regime
<1>18. CASE RollbackInPlace
  BY <1>18 DEF RollbackInPlace
<1>19. CASE UndoDestination
  BY <1>19 DEF UndoDestination
<1>20. CASE RebuildSource
  BY <1>20 DEF RebuildSource
<1>21. CASE Report
  BY <1>21 DEF Report
<1>22. CASE Clouds
  BY <1>22 DEF Clouds, record
<1>23. CASE Cancel
  BY <1>23 DEF Cancel, record
<1>24. CASE UNCHANGED vars
  BY <1>24 DEF vars, record
<1> QED
  BY <1>1, <1>2, <1>3, <1>4, <1>5, <1>6, <1>7, <1>8, <1>9, <1>10, <1>11,
     <1>12, <1>13, <1>14, <1>15, <1>16, <1>17, <1>18, <1>19, <1>20, <1>21,
     <1>22, <1>23, <1>24 DEF Next, Runner

\* Nothing but staging makes a port, and only its rollbacks delete one.
LEMMA PortsNext == TypeOK /\ PortsInv /\ [Next]_vars => PortsInv'
<1> SUFFICES ASSUME TypeOK, PortsInv, [Next]_vars PROVE PortsInv'
  OBVIOUS
<1>0. /\ dst \in DstState /\ mid # "free" /\ mid \in Mids
      /\ pc \in {"S1", "S1undo", "Aports", "Bport", "Bdports"} => todo \subseteq Nics
  BY Typed, CloudAssumption, EngineAssumption
<1> USE HandlerCases, <1>0
    DEF Goto, Raise, Again, Await, Read, Call, Poll, GetStatus, PatchStatus, SetPhase,
        Checkpoint, EndLoop, Skip, record, memory, cloudVars,
        PortsInv, BeforeStaging, BeforeS1, AfterS1, Mine, InPlace, Reverse
<1>1. CASE Assemble
  BY <1>1 DEF Assemble
<1>2. CASE Start
  BY <1>2 DEF Start
<1>3. CASE Preflight
  BY <1>3 DEF Preflight
<1>4. CASE Reject
  BY <1>4 DEF Reject
<1>5. CASE Stage
  <2>1. ASSUME NEW n \in todo, pc = "S1",
               Call(dst.ports[n] = "free", src, Staged(dst, n, mid), Again("S1", n))
        PROVE  PortsInv'
    <3>1. /\ n \in Nics /\ dst.ports \in [Nics -> Mids \cup {"free"}]
          /\ Staged(dst, n, mid).ports = [dst.ports EXCEPT ![n] = mid]
      BY <2>1, PortEffects
    <3>2. pc' \in {"S1", "S1undo"} /\ saved' = {}
      BY <2>1
    <3>3. pc' = "S1" => \A m \in Nics \ todo' : Mine(m)'
      BY <2>1, <3>1
    <3> QED
      BY <3>2, <3>3
  <2>2. ASSUME NEW n \in todo, pc = "S1undo",
               Call(TRUE, src, Unstaged(dst, n, mid), Again("S1undo", n))
        PROVE  PortsInv'
    <3>1. pc' \in {"S1undo", "except"} \cup {"attention", "Escaped"} /\ saved' = {}
      BY <2>2
    <3> QED
      BY <3>1
  <2> QED
    BY <1>5, <2>1, <2>2, Loops DEF Stage
<1>6. CASE HonourCancel
  BY <1>6 DEF HonourCancel, Regime
<1>7. CASE EnterCutover
  BY <1>7 DEF EnterCutover
<1>8. CASE C1
  BY <1>8 DEF C1
<1>9. CASE C2
  BY <1>9 DEF C2
<1>10. CASE C2b
  BY <1>10 DEF C2b
<1>11. CASE C2c
  BY <1>11 DEF C2c
<1>12. CASE C3
  BY <1>12 DEF C3
<1>13. CASE C4
  BY <1>13, PortEffects DEF C4
<1>14. CASE C5
  BY <1>14, PortEffects DEF C5
<1>15. CASE Verify
  BY <1>15 DEF Verify
<1>16. CASE Complete
  BY <1>16 DEF Complete
<1>17. CASE Except
  BY <1>17 DEF Except, Regime
<1>18. CASE RollbackInPlace
  <2>1. ASSUME NEW n \in todo, pc = "Aports",
               Call(TRUE, src, Unstaged(dst, n, mid), Again("Aports", n))
        PROVE  PortsInv'
    <3>1. /\ n \in Nics /\ dst.ports \in [Nics -> Mids \cup {"free"}]
          /\ Unstaged(dst, n, mid).ports
               = [dst.ports EXCEPT ![n] = IF @ = mid THEN "free" ELSE @]
      BY <2>1, PortEffects
    <3>2. /\ pc' \in {"Aports", "attention", "Escaped", "except"}
          /\ saved' = saved /\ given' = given
      BY <2>1
    <3>3. pc' = "Aports" /\ "S1" \in given => \A m \in Nics \ todo' : ~Mine(m)'
      BY <2>1, <3>1
    <3> QED
      BY <3>2, <3>3
  <2> QED
    BY <1>18, <2>1, Loops DEF RollbackInPlace
<1>19. CASE UndoDestination
  BY <1>19, PortEffects DEF UndoDestination
<1>20. CASE RebuildSource
  <2>1. ASSUME NEW n \in todo, pc = "Bdports",
               Call(TRUE, src, Unstaged(dst, n, mid), Again("Bdports", n))
        PROVE  PortsInv'
    <3>1. /\ n \in Nics /\ dst.ports \in [Nics -> Mids \cup {"free"}]
          /\ Unstaged(dst, n, mid).ports
               = [dst.ports EXCEPT ![n] = IF @ = mid THEN "free" ELSE @]
      BY <2>1, PortEffects
    <3>2. /\ pc' \in {"Bdports", "attention", "Escaped", "except"}
          /\ saved' = saved /\ given' = given
      BY <2>1
    <3>3. pc' = "Bdports" /\ "S1" \in given => \A m \in Nics \ todo' : ~Mine(m)'
      BY <2>1, <3>1
    <3> QED
      BY <3>2, <3>3
  <2> QED
    BY <1>20, <2>1, Loops DEF RebuildSource
<1>21. CASE Report
  BY <1>21 DEF Report
<1>22. CASE Clouds
  BY <1>22 DEF Clouds, CloudStep, record, SourceDetaches, SourceUnmanages,
                DestManages, DestUnmanages, DestBoots, DestDeletes, DstState
<1>23. CASE Cancel
  BY <1>23 DEF Cancel, record
<1>24. CASE UNCHANGED vars
  BY <1>24 DEF vars, record
<1> QED
  BY <1>1, <1>2, <1>3, <1>4, <1>5, <1>6, <1>7, <1>8, <1>9, <1>10, <1>11,
     <1>12, <1>13, <1>14, <1>15, <1>16, <1>17, <1>18, <1>19, <1>20, <1>21,
     <1>22, <1>23, <1>24 DEF Next, Runner

\* The source keeps what the labels say.
LEMMA SourceNext == IInv /\ PortsInv /\ SourceInv /\ [Next]_vars => SourceInv'
<1> SUFFICES ASSUME IInv, PortsInv, SourceInv, [Next]_vars PROVE SourceInv'
  OBVIOUS
<1>0. src \in SrcState /\ given \subseteq saved
  BY Known
<1> USE HandlerCases, <1>0
    DEF Goto, Raise, Again, Await, Read, Call, Poll, GetStatus, PatchStatus, SetPhase,
        Checkpoint, EndLoop, Skip, record, memory, cloudVars,
        SourceInv, BeforeStaging, BeforeS1, AfterS1, BeforeC1,
        Untouched, InPlace, Reverse, Ended, Undoing
<1>1. CASE Assemble
  BY <1>1 DEF Assemble
<1>2. CASE Start
  BY <1>2 DEF Start
<1>3. CASE Preflight
  BY <1>3 DEF Preflight
<1>4. CASE Reject
  BY <1>4 DEF Reject
<1>5. CASE Stage
  BY <1>5 DEF Stage, PortsInv
<1>6. CASE HonourCancel
  BY <1>6 DEF HonourCancel, Regime
<1>7. CASE EnterCutover
  BY <1>7 DEF EnterCutover
<1>8. CASE C1
  BY <1>8, Loops DEF C1, Stopped, SrcState
<1>9. CASE C2
  <2>1. ASSUME NEW v \in todo, pc = "C2",
               Call(src.vol[v] = "in-use", Detached(src, v), dst, Again("C2", v))
        PROVE  SourceInv'
    <3>1. /\ v \in Volumes /\ v # Root
          /\ Detached(src, v).vm = src.vm /\ Detached(src, v).rebuilt = src.rebuilt
          /\ Detached(src, v).vol[Root] = src.vol[Root]
      BY <2>1, Known, CloudAssumption DEF Detached, SrcState
    <3>2. pc' \in {"C2", "attention", "Escaped", "except"} /\ saved' = saved
      BY <2>1
    <3> QED
      BY <2>1, <3>1, <3>2
  <2> QED
    BY <1>9, <2>1 DEF C2
<1>10. CASE C2b
  BY <1>10 DEF C2b, WithDot, SrcState
<1>11. CASE C2c
  BY <1>11, Known DEF C2c, Deleted, SrcState
<1>12. CASE C3
  BY <1>12, Known DEF C3, Unmanaged, SrcState
<1>13. CASE C4
  BY <1>13 DEF C4
<1>14. CASE C5
  BY <1>14 DEF C5
<1>15. CASE Verify
  BY <1>15 DEF Verify
<1>16. CASE Complete
  BY <1>16 DEF Complete
<1>17. CASE Except
  BY <1>17 DEF Except, Regime
<1>18. CASE RollbackInPlace
  <2>1. ASSUME NEW v \in todo, pc = "Aattach",
               Call(src.vm # "gone" /\ src.vol[v] = "available", Attached(src, v),
                    dst, Again("Aattach", v))
        PROVE  SourceInv'
    <3>1. /\ v \in Volumes /\ handling
          /\ Attached(src, v).vm = src.vm /\ Attached(src, v).rebuilt = src.rebuilt
          /\ src.vol[Root] = "in-use" => Attached(src, v).vol[Root] = "in-use"
      BY <2>1, Known, CloudAssumption DEF Attached, SrcState
    <3>2. pc' \in {"Aattach", "attention", "Escaped", "except"} /\ saved' = saved
      BY <2>1
    <3> QED
      BY <2>1, <3>1, <3>2
  <2>2. CASE pc = "Aattach" /\ EndLoop("Aattach", "Astart")
    BY <2>2
  <2>3. CASE pc = "Adot"
    BY <1>18, <2>3, Loops DEF RollbackInPlace, WithDot, SrcState
  <2>4. CASE pc = "Astart"
    BY <1>18, <2>4 DEF RollbackInPlace, Started, SrcState
  <2>5. CASE pc = "Aports"
    BY <1>18, <2>5 DEF RollbackInPlace
  <2> QED
    BY <1>18, <2>1, <2>2, <2>3, <2>4, <2>5 DEF RollbackInPlace
<1>19. CASE UndoDestination
  BY <1>19 DEF UndoDestination
<1>20. CASE RebuildSource
  <2>1. plan = Volumes /\ handling
    BY <1>20, Known, PlanWhole DEF RebuildSource
  <2>2. CASE pc = "Bmanage"
    BY <1>20, <2>1, <2>2, Known DEF RebuildSource, Remanaged, SrcState
  <2>3. CASE pc = "Bport"
    <3>1. /\ src'.vm = src.vm /\ src'.vol = src.vol /\ src'.rebuilt = src.rebuilt
          /\ saved' = saved /\ handling' = handling
      BY <1>20, <2>3, SourceEffects DEF RebuildSource
    <3>2. pc' \in {"Bport", "Bcreate", "attention"}
      BY <1>20, <2>3 DEF RebuildSource, Handler
    <3> QED
      BY <2>1, <2>3, <3>1, <3>2
  <2>4. CASE pc = "Bcreate"
    <3>1. Recreated(src, Volumes).vol[Root] = "in-use" /\ Recreated(src, Volumes).rebuilt
      BY CloudAssumption DEF Recreated, SrcState
    <3>2. /\ src' = src \/ src' = Recreated(src, Volumes)
          /\ saved' = saved /\ handling' = handling
      BY <1>20, <2>1, <2>4 DEF RebuildSource
    <3>3. pc' \in {"Bdports", "attention"}
      BY <1>20, <2>4 DEF RebuildSource, Handler
    <3>4. src' = src => SourceInv'
      BY <2>1, <2>4, <3>2, <3>3
    <3>5. src' = Recreated(src, Volumes) => SourceInv'
      BY <2>1, <2>4, <3>1, <3>2, <3>3
    <3> QED
      BY <3>2, <3>4, <3>5
  <2>5. CASE pc = "Bdports"
    BY <1>20, <2>1, <2>5 DEF RebuildSource
  <2> QED
    BY <1>20, <2>2, <2>3, <2>4, <2>5 DEF RebuildSource
<1>21. CASE Report
  BY <1>21, Known DEF Report
<1>22. CASE Clouds
  <2>1. \A v \in Volumes : src.vol[v] = "in-use" => src'.vol[v] = "in-use"
    BY <1>22 DEF Clouds, CloudStep, SourceDetaches, SourceUnmanages, DestManages,
                 DestUnmanages, DestBoots, DestDeletes, SrcState
  <2>2. src'.vm = src.vm /\ src'.dot = src.dot /\ src'.rebuilt = src.rebuilt
    BY <1>22 DEF Clouds, CloudStep, SourceDetaches, SourceUnmanages, DestManages,
                 DestUnmanages, DestBoots, DestDeletes, SrcState
  <2> QED
    BY <1>22, <2>1, <2>2, CloudAssumption DEF Clouds, record
<1>23. CASE Cancel
  BY <1>23 DEF Cancel, record
<1>24. CASE UNCHANGED vars
  BY <1>24 DEF vars, record
<1> QED
  BY <1>1, <1>2, <1>3, <1>4, <1>5, <1>6, <1>7, <1>8, <1>9, <1>10, <1>11,
     <1>12, <1>13, <1>14, <1>15, <1>16, <1>17, <1>18, <1>19, <1>20, <1>21,
     <1>22, <1>23, <1>24 DEF Next, Runner

\* Only the end of a rollback writes RolledBack; whoever writes back the whole
\* status keeps the phase it read.
LEMMA PhaseWritten ==
  ASSUME TypeOK, Runner
  PROVE  \/ cr' = cr /\ seen' \in {seen, cr, None}
         \/ /\ pc \notin Undoing /\ seen' = None
            /\ cr'.phase = seen.phase \/ cr'.phase # "RolledBack"
         \/ pc = "attention" /\ seen' = None /\ cr'.phase # "RolledBack"
         \/ /\ pc = "rolled" /\ seen' = None /\ pc' \in {"RolledBack", Handler}
            /\ UNCHANGED <<src, saved, given, handling>>
<1>1. seen # None => seen \in Status
  BY DEF TypeOK
<1> USE <1>1 DEF Goto, Raise, Read, Call, Poll, GetStatus, PatchStatus, SetPhase, Checkpoint,
                 EndLoop, Skip, record, memory, cloudVars, Undoing, InPlace, Reverse, Ended, Status
<1>2. CASE Assemble \/ Preflight \/ HonourCancel \/ Except \/ RollbackInPlace
            \/ UndoDestination \/ RebuildSource
  BY <1>2 DEF Assemble, Preflight, HonourCancel, Except, RollbackInPlace, UndoDestination,
              RebuildSource
<1>3. CASE Start \/ Reject \/ EnterCutover \/ Complete
  BY <1>3 DEF Start, Reject, EnterCutover, Complete
<1>4. CASE Stage \/ Verify
  BY <1>4 DEF Stage, Verify
<1>5. CASE C1 \/ C2 \/ C2b
  BY <1>5 DEF C1, C2, C2b
<1>6. CASE C2c \/ C3
  BY <1>6 DEF C2c, C3
<1>7. CASE C4 \/ C5
  BY <1>7 DEF C4, C5
<1>8. CASE Report
  BY <1>8 DEF Report
<1> QED
  BY <1>2, <1>3, <1>4, <1>5, <1>6, <1>7, <1>8 DEF Runner

\* A rollback stays one, and writes no checkpoint.
LEMMA StaysUndoing ==
  ASSUME Runner, pc \in Undoing \ {"Completed"}
  PROVE  pc' \in Undoing \ {"Completed"} /\ saved' = saved
<1> USE HandlerCases
    DEF Goto, Raise, Again, Read, Call, GetStatus, PatchStatus, SetPhase, Checkpoint, EndLoop,
        Skip, record, memory, Undoing, InPlace, Reverse, Ended
<1>1. CASE Except
  BY <1>1 DEF Except, Regime
<1>2. CASE RollbackInPlace
  BY <1>2 DEF RollbackInPlace
<1>3. CASE UndoDestination
  BY <1>3 DEF UndoDestination
<1>4. CASE RebuildSource
  BY <1>4 DEF RebuildSource
<1>5. CASE Report
  BY <1>5 DEF Report
<1> QED
  BY <1>1, <1>2, <1>3, <1>4, <1>5
     DEF Runner, Assemble, Start, Preflight, Reject, Stage, HonourCancel, EnterCutover, C1, C2,
         C2b, C2c, C3, C4, C5, Verify, Complete

\* RolledBack is in the resource only when it was written there at the end of a
\* rollback, or read there after that.
LEMMA PhaseNext == IInv /\ IInv' /\ SourceInv /\ PhaseInv /\ [Next]_vars => PhaseInv'
<1> SUFFICES ASSUME IInv, IInv', SourceInv, PhaseInv, [Next]_vars PROVE PhaseInv'
  OBVIOUS
<1>0. None.phase # "RolledBack"
  BY DEF None
<1>1. CASE Runner
  <2>1. pc \notin Ended
    BY <1>1, RunnerRuns DEF Outcome, Ended
  <2>2. cr.phase = "RolledBack" => "C1" \notin saved
    BY <2>1 DEF PhaseInv, Ended
  <2>3. "C1" \notin saved' => src'.vm # "gone"
    BY DEF IInv, StepsInv
  <2>4. "RolledBack" \in {cr.phase, seen.phase}
          => pc' \in Undoing \ {"Completed"} /\ saved' = saved
    BY <1>1, StaysUndoing DEF PhaseInv
  <2>5. CASE cr' = cr /\ seen' \in {seen, cr, None}
    BY <1>0, <2>2, <2>3, <2>4, <2>5 DEF PhaseInv
  <2>6. CASE /\ pc \notin Undoing /\ seen' = None
             /\ cr'.phase = seen.phase \/ cr'.phase # "RolledBack"
    BY <1>0, <2>6 DEF PhaseInv
  <2>7. CASE pc = "attention" /\ seen' = None /\ cr'.phase # "RolledBack"
    BY <1>0, <2>7 DEF PhaseInv
  <2>8. CASE /\ pc = "rolled" /\ seen' = None /\ pc' \in {"RolledBack", Handler}
             /\ UNCHANGED <<src, saved, given, handling>>
    <3>1. StopShown => src.vm # "gone" \/ src.rebuilt
      BY <2>8 DEF IInv, RollbackInv
    <3>2. "C1" \in saved => Handler = "Escaped"
      BY <2>8 DEF SourceInv, Handler, Reverse
    <3>3. pc' \in Undoing \ {"Completed"}
      BY <2>8, HandlerCases DEF Undoing, Ended
    <3> QED
      BY <1>0, <2>8, <3>1, <3>2, <3>3 DEF PhaseInv, StopShown
  <2> QED
    BY <1>1, <2>5, <2>6, <2>7, <2>8, PhaseWritten DEF IInv
<1>2. CASE Clouds
  <2>1. src'.vm = src.vm /\ src'.rebuilt = src.rebuilt
    BY <1>2, Typed DEF IInv, Clouds, CloudStep, SourceDetaches, SourceUnmanages, DestManages,
                       DestUnmanages, DestBoots, DestDeletes, SrcState
  <2> QED
    BY <1>2, <2>1 DEF Clouds, record, memory, PhaseInv, StopShown
<1>3. CASE Cancel
  <2>1. UNCHANGED <<src, saved, seen, pc, given>>
    BY <1>3 DEF Cancel, cloudVars, memory
  <2>2. cr' = cr \/ cr'.phase = "Cancelled"
    BY <1>3 DEF Cancel, ReadForCancel, WriteForCancel
  <2> QED
    BY <2>1, <2>2 DEF PhaseInv, StopShown
<1>4. CASE UNCHANGED vars
  BY <1>4 DEF vars, cloudVars, record, memory, PhaseInv, StopShown
<1> QED
  BY <1>1, <1>2, <1>3, <1>4 DEF Next

\* What a migration created stays until a rollback deletes it.
LEMMA DestNext == IInv /\ DestInv /\ [Next]_vars => DestInv'
<1> SUFFICES ASSUME IInv, DestInv, [Next]_vars PROVE DestInv'
  OBVIOUS
<1>0. /\ dst \in DstState
      /\ pc \in {"C5k", "enterV", "verify", "V1k", "V2k", "complete", "Completed"}
           => dst.vm \in {"building", "active", "error"}
  BY Known
<1> USE HandlerCases, <1>0
    DEF Goto, Raise, Again, Await, Read, Call, Poll, GetStatus, PatchStatus, SetPhase,
        Checkpoint, EndLoop, Skip, record, memory, cloudVars,
        DestInv, InPlace, Reverse
<1>1. CASE Assemble
  BY <1>1 DEF Assemble
<1>2. CASE Start
  BY <1>2 DEF Start
<1>3. CASE Preflight
  BY <1>3 DEF Preflight
<1>4. CASE Reject
  BY <1>4 DEF Reject
<1>5. CASE Stage
  BY <1>5 DEF Stage
<1>6. CASE HonourCancel
  BY <1>6 DEF HonourCancel, Regime
<1>7. CASE EnterCutover
  BY <1>7 DEF EnterCutover
<1>8. CASE C1
  BY <1>8 DEF C1
<1>9. CASE C2
  BY <1>9 DEF C2
<1>10. CASE C2b
  BY <1>10 DEF C2b
<1>11. CASE C2c
  BY <1>11 DEF C2c
<1>12. CASE C3
  BY <1>12 DEF C3
<1>13. CASE C4
  BY <1>13 DEF C4
<1>14. CASE C5
  BY <1>14, PlanWhole DEF C5, Created, DstState
<1>15. CASE Verify
  BY <1>15 DEF Verify
<1>16. CASE Complete
  BY <1>16 DEF Complete
<1>17. CASE Except
  BY <1>17 DEF Except, Regime
<1>18. CASE RollbackInPlace
  BY <1>18 DEF RollbackInPlace
<1>19. CASE UndoDestination
  BY <1>19 DEF UndoDestination
<1>20. CASE RebuildSource
  BY <1>20 DEF RebuildSource
<1>21. CASE Report
  BY <1>21 DEF Report
<1>22. CASE Clouds
  BY <1>22 DEF Clouds, CloudStep, record, SourceDetaches, SourceUnmanages,
                DestManages, DestUnmanages, DestBoots, DestDeletes, DstState
<1>23. CASE Cancel
  BY <1>23 DEF Cancel, record
<1>24. CASE UNCHANGED vars
  BY <1>24 DEF vars, record
<1> QED
  BY <1>1, <1>2, <1>3, <1>4, <1>5, <1>6, <1>7, <1>8, <1>9, <1>10, <1>11,
     <1>12, <1>13, <1>14, <1>15, <1>16, <1>17, <1>18, <1>19, <1>20, <1>21,
     <1>22, <1>23, <1>24 DEF Next, Runner

\* All five hold of every reachable state.
THEOREM Outcomes == Spec => [](PrefixInv /\ PortsInv /\ SourceInv /\ DestInv /\ PhaseInv)
<1>1. IInv /\ IInv' /\ (PrefixInv /\ PortsInv /\ SourceInv /\ DestInv /\ PhaseInv) /\ [Next]_vars
        => (PrefixInv /\ PortsInv /\ SourceInv /\ DestInv /\ PhaseInv)'
  BY PrefixNext, PortsNext, SourceNext, DestNext, PhaseNext DEF IInv
<1> QED
  BY <1>1, OutcomeInit, Invariant, PTL DEF Spec

-----------------------------------------------------------------------------
(* The properties.                                                         *)

\* Until a cancel is written the resource has every checkpoint the run wrote, those
\* are always a prefix of the steps of the migration, and no others are ever there.
THEOREM OnlyCancelsForgetHolds == Spec => []OnlyCancelsForget
<1>1. IInv /\ PrefixInv => OnlyCancelsForget
  BY DEF IInv, RecordInv, PrefixInv, OnlyCancelsForget
<1> QED
  BY <1>1, Invariant, Outcomes, PTL

\* What the rollback undoes because of a checkpoint did happen.
THEOREM CheckpointsHappenedHolds == Spec => []CheckpointsHappened
<1>1. IInv /\ PortsInv /\ SourceInv => CheckpointsHappened
  <2> SUFFICES ASSUME IInv, PortsInv, SourceInv PROVE CheckpointsHappened
    OBVIOUS
  <2>1. pc \in Labels
    BY DEF IInv, TypeOK
  <2>2. pc \notin Undoing => pc \in BeforeS1 \/ pc \in AfterS1
    BY <2>1 DEF Labels, BeforeS1, BeforeStaging, AfterS1
  <2>s. Recorded \subseteq saved
    BY DEF Recorded, IInv, RecordInv
  <2>3. "S1" \in saved /\ pc \notin Undoing => \A n \in Nics : dst.ports[n] = mid
    BY <2>2 DEF PortsInv, Mine
  <2>4. "C1" \in saved /\ pc \notin Undoing => src.vm # "running"
    BY <2>2 DEF PortsInv, SourceInv, BeforeC1
  <2> QED
    BY <2>s, <2>3, <2>4 DEF CheckpointsHappened, IInv, StepsInv, Released, Settled
<1> QED
  BY <1>1, Invariant, Outcomes, PTL

\* A completed migration has the whole VM on the destination.
THEOREM CompletedMeansMovedHolds == Spec => []CompletedMeansMoved
<1>1. IInv /\ PortsInv /\ DestInv => CompletedMeansMoved
  BY DEF IInv, StepsInv, ForwardInv, AfterC5, PortsInv, Mine, AfterS1, DestInv,
         CompletedMeansMoved
<1> QED
  BY <1>1, Invariant, Outcomes, PTL

\* A migration that is reported as rolled back has left a server on the source.
THEOREM RolledBackHasSourceHolds == Spec => []RolledBackHasSource
<1>1. IInv /\ SourceInv /\ PhaseInv => RolledBackHasSource
  BY DEF IInv, StepsInv, RollbackInv, SourceInv, PhaseInv, Reverse, RolledBackHasSource
<1> QED
  BY <1>1, Invariant, Outcomes, PTL

\* A rollback gives back the ports whose staging was recorded.
THEOREM StagedPortsReleasedHolds == Spec => []StagedPortsReleased
<1>1. PortsInv => StagedPortsReleased
  BY DEF PortsInv, Mine, StagedPortsReleased
<1> QED
  BY <1>1, Outcomes, PTL

\* A cancelled run leaves the source server as it was.
THEOREM CancelLeavesSourceAloneHolds == Spec => []CancelLeavesSourceAlone
<1>1. PortsInv /\ SourceInv => CancelLeavesSourceAlone
  <2> SUFFICES ASSUME PortsInv, SourceInv,
                      pc = "Stopped" \/ (pc = "RolledBack" /\ ~handling)
               PROVE  /\ Untouched
                      /\ pc = "Stopped" \/ saved \subseteq given => \A n \in Nics : ~Mine(n)
    BY DEF CancelLeavesSourceAlone, Untouched, Mine
  <2>1. CASE pc = "Stopped"
    BY <2>1 DEF PortsInv, SourceInv, BeforeC1, BeforeS1, BeforeStaging
  <2>2. CASE pc = "RolledBack" /\ ~handling
    BY <2>2 DEF PortsInv, SourceInv
  <2> QED
    BY <2>1, <2>2
<1> QED
  BY <1>1, Outcomes, PTL

-----------------------------------------------------------------------------
(***************************************************************************)
(* A migration that is not alone.  MigrationPair runs two of these engines *)
(* on one VM, so the invariants that follow do not take the clouds for     *)
(* granted: each says what a run knows whatever the other one does, and    *)
(* why.  RecordInv, PrefixInv, PortsInv and ControlInv speak of the run's  *)
(* own state and of ports that only it can make or delete; HostsInv says   *)
(* of the clouds what every step of any run keeps; HeldInv says what a run *)
(* has done to them, which stands while it owns every staged port because  *)
(* a run that does not own them changes no server and no volume.           *)
(***************************************************************************)

\* The run owns the staged ports: it won the race for all of them.
Owner == \A n \in Nics : Mine(n)

\* Everything but the ports.
Servers == <<src, dst.vm, dst.dot, dst.vol, lost>>

\* The VM has no server on the source.
Homeless == src.vm = "gone" /\ ~src.rebuilt

\* The labels of a rollback that has servers or volumes to restore.
Holding == {"except", "Adot", "Aattach", "Astart", "Bdelete", "Bunmanage",
            "Bmanage", "Bport", "Bcreate"}

\* What a run knows by its own control flow.
ControlInv ==
  /\ pc \in {"staged", "honour", "enterC", "C1"} => saved = {"S1"}
  /\ pc \in InPlace \cup {"rolled", "RolledBack"} /\ ~handling => saved = {"S1"}
  /\ pc = "Aattach" /\ "C2" \notin given => todo = {}
  /\ pc = "C2" => Root \notin todo
  /\ pc \in {"C3", "C4", "C4wait"} => todo \subseteq plan
  /\ pc \in Reverse \cup {"attention"} => handling /\ "C2c" \in given
  /\ pc \in Holding /\ "C1" \in saved => Owner
  /\ pc \notin {"assemble", "Escaped"} => Root \in plan

\* What no step of any run breaks: the root volume leaves the source server
\* only with the server, comes back only with a new one, and the destination
\* has a server only after the source was asked to let go of the root volume,
\* and a volume only after it was asked for that one too.
HostsInv ==
  /\ src.vm # "gone" => src.vol[Root] = "in-use"
  /\ src.rebuilt => src.vm = "gone" /\ src.vol[Root] = "in-use"
  /\ dst.vm # "none" => Released(Root)
  /\ \A v \in Volumes : dst.vol[v] # "absent" => Released(Root) /\ Released(v)
  /\ src.vm = "gone" => ~src.dot
  /\ lost # {} => dst.vm = "gone"

\* What a run has done to the clouds and still finds there.
HeldInv ==
  /\ pc \in {"C2bk", "C2c"} => ~src.dot
  /\ pc \in DeletePending \cup {"C3", "C3k"} \cup AfterC3 => dst.vm = "none"
  /\ pc = "C3" => \A v \in plan \ todo : Released(v)
  /\ pc \in {"C3k"} \cup AfterC3 \cup AfterC5 \/ "C3" \in saved
       => \A v \in plan \cup {Root} : Released(v)
  /\ pc \in AfterC5 => /\ dst.vm \in {"building", "active", "error"}
                       /\ \A v \in plan : dst.vol[v] = "in-use"
  /\ pc \in AfterC5 \ {"C5k", "enterV", "verify"} => dst.vm = "active"

RunInv == /\ TypeOK /\ RecordInv /\ PrefixInv /\ PortsInv
          /\ ControlInv /\ HostsInv /\ HeldInv

\* The run has taken the source server and has not given it back, or its rollback
\* does not know that it was taken.
Away ==
  /\ "C1" \in saved
  /\ \/ Owner /\ pc \notin {"Aports", "Bdports", "rolled", "RolledBack"}
     \/ ~StopShown /\ pc \in {"Aports", "rolled", "RolledBack", "Escaped"}

\* They hold of the initial states.
LEMMA RunInit == Init => RunInv
<1> SUFFICES ASSUME Init PROVE RunInv
  OBVIOUS
<1>1. TypeOK /\ RecordInv /\ PrefixInv /\ PortsInv
  BY InitType, InitInv, OutcomeInit DEF IInv
<1>2. ControlInv /\ HeldInv
  BY DEF Init, ControlInv, InPlace, Reverse, Holding, HeldInv, DeletePending, AfterC3, AfterC5
<1>3. HostsInv
  BY CloudAssumption DEF Init, CloudInit, HostsInv
<1> QED
  BY <1>1, <1>2, <1>3 DEF RunInv

\* The label it is at tells a run which checkpoints it has.
LEMMA Chain ==
  ASSUME PrefixInv
  PROVE  /\ "C3" \in saved => "C2c" \in saved
         /\ "C2c" \in saved => "C1" \in saved
         /\ "C2b" \in saved => "C1" \in saved
         /\ "C2" \in saved => "C1" \in saved
         /\ "C5" \in saved => "C3" \in saved
         /\ pc \in AfterC1 \cup DeletePending => "C1" \in saved
BY DEF PrefixInv, Follows, AfterC1, DeletePending

\* The loops of the cutover and of the rollback in place.
LEMMA MoreLoops ==
  /\ Work("C3") = plan /\ Work("C4") = plan /\ Work("C2") = plan \ {Root}
  /\ "C2" \notin given => Work("Aattach") = {}
BY DEF Work, Loop, UndoLoop, InPlace, Reverse

\* Only a reverse migration's failure is reported as such, and the except block
\* is entered once.
LEMMA HandlerPlaces ==
  /\ pc = "S1" => Handler = "S1undo"
  /\ pc \in Reverse => Handler = "attention"
  /\ pc \notin Reverse \cup {"S1"} => Handler \in {"Escaped", "except"}
  /\ Handler = "except" => ~handling
BY DEF Handler, Reverse

\* The runner's own steps keep what it knows of itself.
LEMMA ControlNext == RunInv /\ Runner => ControlInv'
<1> SUFFICES ASSUME RunInv, Runner PROVE ControlInv'
  OBVIOUS
<1>0. /\ ControlInv /\ src \in SrcState /\ dst \in DstState
      /\ "C2c" \in saved => "C1" \in saved
      /\ cr.steps \subseteq saved /\ given \subseteq saved
      /\ pc \in BeforeS1 => saved = {}
      /\ pc \in AfterS1 => Owner
  BY Typed, Chain DEF RunInv, RecordInv, PortsInv, Owner
<1> USE HandlerPlaces, <1>0
    DEF Goto, Raise, Again, Await, Read, Call, Poll, GetStatus, PatchStatus, SetPhase,
        Checkpoint, EndLoop, Skip, record, memory, cloudVars,
        ControlInv, Owner, Mine, InPlace, Reverse, Holding,
        AfterS1, BeforeS1, BeforeStaging
<1>1. CASE Assemble
  <2>1. src.vm # "gone" /\ (\E P \in SUBSET Volumes : Listed(P) /\ plan' = P)
          => Root \in plan'
    BY CloudAssumption DEF RunInv, HostsInv, Listed
  <2>2. saved' = {} /\ handling' = handling
    BY <1>1 DEF Assemble
  <2>3. pc' = "Escaped" \/ (pc' = "start" /\ Root \in plan')
    BY <1>1, <2>1 DEF Assemble, Handler
  <2> QED
    BY <2>2, <2>3
<1>2. CASE Start
  BY <1>2 DEF Start
<1>3. CASE Preflight
  BY <1>3 DEF Preflight
<1>4. CASE Reject
  BY <1>4 DEF Reject
<1>5. CASE Stage
  BY <1>5 DEF Stage
<1>6. CASE HonourCancel
  BY <1>6 DEF HonourCancel, Regime
<1>7. CASE EnterCutover
  BY <1>7 DEF EnterCutover
<1>8. CASE C1
  BY <1>8, MoreLoops DEF C1
<1>9. CASE C2
  BY <1>9, MoreLoops DEF C2
<1>10. CASE C2b
  BY <1>10 DEF C2b
<1>11. CASE C2c
  BY <1>11, MoreLoops DEF C2c
<1>12. CASE C3
  BY <1>12, MoreLoops DEF C3
<1>13. CASE C4
  BY <1>13, PortEffects, MoreLoops DEF C4
<1>14. CASE C5
  BY <1>14, PortEffects DEF C5
<1>15. CASE Verify
  BY <1>15 DEF Verify
<1>16. CASE Complete
  BY <1>16 DEF Complete
<1>17. CASE Except
  BY <1>17 DEF Except, Regime
<1>18. CASE RollbackInPlace
  BY <1>18, MoreLoops DEF RollbackInPlace
<1>19. CASE UndoDestination
  BY <1>19, PortEffects DEF UndoDestination
<1>20. CASE RebuildSource
  BY <1>20 DEF RebuildSource
<1>21. CASE Report
  BY <1>21 DEF Report
<1> QED
  BY <1>1, <1>2, <1>3, <1>4, <1>5, <1>6, <1>7, <1>8, <1>9, <1>10, <1>11,
     <1>12, <1>13, <1>14, <1>15, <1>16, <1>17, <1>18, <1>19, <1>20, <1>21
     DEF Runner

\* The calls of a run that change a server or a volume, with the label and the
\* guard each is made at.
SourceCall ==
  \/ pc = "C1" /\ src.vm # "gone" /\ src' = Stopped(src)
  \/ pc = "C2" /\ \E v \in todo : src.vol[v] = "in-use" /\ src' = Detached(src, v)
  \/ pc = "C2bset" /\ src' = WithDot(src, FALSE)
  \/ pc = "C2c" /\ src.vm # "gone" /\ src' = Deleted(src)
  \/ pc = "C3" /\ \E v \in todo, left \in {"gone", "unmanaging"} :
       src.vol[v] = "available" /\ src' = Unmanaged(src, v, left)
  \/ pc = "Adot" /\ "C2b" \in given /\ src.vm # "gone" /\ src' = WithDot(src, TRUE)
  \/ pc = "Aattach" /\ \E v \in todo :
       src.vol[v] = "available" /\ src' = Attached(src, v)
  \/ pc = "Astart" /\ "C1" \in given /\ src.vm = "stopped" /\ src' = Started(src)
  \/ pc = "Bmanage" /\ \E v \in todo : src' = Remanaged(src, v)
  \/ pc = "Bport" /\ \E n \in todo : src' = SourcePort(src, n)
  \/ pc = "Bcreate" /\ Bootable(plan) /\ src' = Recreated(src, plan)

DestCall ==
  \/ pc = "C4" /\ \E v \in todo : dst' = Managing(dst, v)
  \/ pc = "C5" /\ dst' = Created(dst, readDot, plan)
  \/ pc = "Bdelete" /\ "C5" \in given /\ dst' = Deleting(dst)
  \/ pc = "Bunmanage" /\ \E v \in todo : Releasable(v) /\ dst' = Releasing(dst, v)

\* The runner makes no other.
LEMMA Calls ==
  ASSUME RunInv, Runner
  PROVE  /\ lost' = lost
         /\ \/ UNCHANGED Servers
            \/ SourceCall /\ UNCHANGED dst
            \/ DestCall /\ UNCHANGED src
<1>0. dst \in DstState
  BY Typed DEF RunInv
<1>1. \A n : /\ Staged(dst, n, mid).vm = dst.vm /\ Staged(dst, n, mid).dot = dst.dot
             /\ Staged(dst, n, mid).vol = dst.vol
             /\ Unstaged(dst, n, mid).vm = dst.vm /\ Unstaged(dst, n, mid).dot = dst.dot
             /\ Unstaged(dst, n, mid).vol = dst.vol
  BY <1>0 DEF Staged, Unstaged, DstState
<1> USE DEF Call, Poll, GetStatus, PatchStatus, Read, SetPhase, Checkpoint, EndLoop, Skip, cloudVars, Servers
<1>2. CASE Assemble \/ Start \/ Preflight \/ Reject \/ HonourCancel \/ EnterCutover
            \/ Verify \/ Complete \/ Except \/ Report
  BY <1>2 DEF Assemble, Start, Preflight, Reject, HonourCancel, EnterCutover,
              Verify, Complete, Except, Report
<1>3. CASE Stage
  BY <1>1, <1>3 DEF Stage
<1>4. CASE C1 \/ C2 \/ C2b
  BY <1>4 DEF C1, C2, C2b, SourceCall
<1>5. CASE C2c \/ C3
  BY <1>5 DEF C2c, C3, SourceCall
<1>6. CASE C4 \/ C5
  BY <1>6 DEF C4, C5, DestCall
<1>7. CASE RollbackInPlace
  BY <1>1, <1>7 DEF RollbackInPlace, SourceCall
<1>8. CASE UndoDestination
  BY <1>8 DEF UndoDestination, DestCall
<1>9. CASE RebuildSource
  BY <1>1, <1>9 DEF RebuildSource, SourceCall
<1> QED
  BY <1>2, <1>3, <1>4, <1>5, <1>6, <1>7, <1>8, <1>9 DEF Runner

\* A run that changes a server or a volume owns every staged port.
LEMMA CallsOwned ==
  ASSUME RunInv
  PROVE  SourceCall \/ DestCall => Owner
<1>1. /\ PrefixInv /\ PortsInv /\ ControlInv /\ given \subseteq saved
  BY DEF RunInv, RecordInv
<1>2. pc \in AfterS1 => Owner
  BY <1>1 DEF PortsInv, Owner
<1>3. /\ pc \in Holding /\ "C1" \in saved => Owner
      /\ pc = "Aattach" /\ "C2" \notin given => todo = {}
      /\ pc \in Reverse => "C2c" \in given
  BY <1>1 DEF ControlInv
<1>4. \/ "C2b" \in saved \/ "C2" \in saved \/ "C2c" \in saved => "C1" \in saved
  BY <1>1, Chain
<1>5. CASE SourceCall
  BY <1>1, <1>2, <1>3, <1>4, <1>5 DEF SourceCall, AfterS1, Holding, Reverse
<1>6. CASE DestCall
  BY <1>1, <1>2, <1>3, <1>4, <1>6 DEF DestCall, AfterS1, Holding, Reverse
<1> QED
  BY <1>5, <1>6

LEMMA ServersOwned == RunInv /\ Runner /\ Servers' # Servers => Owner
BY Calls, CallsOwned

\* The calls keep what every run relies on.
LEMMA HostsNext ==
  ASSUME RunInv, Runner
  PROVE  HostsInv' /\ \A v \in Volumes : Released(v) => Released(v)'
<1>0. /\ src \in SrcState /\ dst \in DstState /\ Root \in Volumes
      /\ plan \subseteq Volumes /\ HostsInv /\ lost' = lost
  BY Typed, Calls, CloudAssumption DEF RunInv
<1>r. /\ pc \in {"C4", "C5"} \/ "C5" \in given
           => \A v \in plan \cup {Root} : Released(v)
      /\ pc = "C4" => todo \subseteq plan
      /\ pc = "Bunmanage" => todo \subseteq Volumes
  BY Typed, Chain DEF RunInv, RecordInv, HeldInv, ControlInv, AfterC3
<1>1. CASE UNCHANGED Servers
  BY <1>0, <1>1 DEF Servers, HostsInv, Released
<1>2. CASE SourceCall /\ UNCHANGED dst
  <2>1. /\ pc = "C2" => Root \notin todo
        /\ pc = "C2c" => ~src.dot
        /\ pc = "Bcreate" => Root \in plan
    BY DEF RunInv, ControlInv, HeldInv
  <2> DEFINE Keeps ==
        /\ src'.vm # "gone" => src'.vol[Root] = "in-use"
        /\ src'.rebuilt => src'.vm = "gone" /\ src'.vol[Root] = "in-use"
        /\ src'.vm = "gone" => ~src'.dot
        /\ \A v \in Volumes : src.vol[v] \in {"unmanaging", "gone"}
                              => src'.vol[v] \in {"unmanaging", "gone"}
  <2> SUFFICES Keeps
    BY <1>0, <1>2 DEF HostsInv, Released
  <2>0. /\ src.vm # "gone" => src.vol[Root] = "in-use"
        /\ src.rebuilt => src.vm = "gone" /\ src.vol[Root] = "in-use"
        /\ src.vm = "gone" => ~src.dot
    BY <1>0 DEF HostsInv
  <2> USE <1>0, <2>0 DEF SrcState
  <2>2. CASE pc \in {"C1", "C2bset", "Adot", "Astart"}
    BY <1>2, <2>2 DEF SourceCall, Stopped, WithDot, Started
  <2>3. CASE pc = "C2"
    <3>1. PICK v \in todo : src.vol[v] = "in-use" /\ src' = Detached(src, v)
      BY <1>2, <2>3 DEF SourceCall
    <3>2. v # Root
      BY <2>1, <2>3, <3>1
    <3> QED
      BY <3>1, <3>2 DEF Detached
  <2>4. CASE pc = "C2c"
    <3>1. src' = Deleted(src) /\ ~src.dot /\ src.vm # "gone"
      BY <1>2, <2>1, <2>4 DEF SourceCall
    <3>2. /\ src'.vm = "gone" /\ src'.dot = src.dot /\ src'.rebuilt = src.rebuilt
          /\ \A v \in Volumes : src.vol[v] # "in-use" => src'.vol[v] = src.vol[v]
      BY <3>1 DEF Deleted
    <3> QED
      BY <3>1, <3>2
  <2>5. CASE pc = "C3"
    <3>1. PICK v \in todo, left \in {"gone", "unmanaging"} :
            src.vol[v] = "available" /\ src' = Unmanaged(src, v, left)
      BY <1>2, <2>5 DEF SourceCall
    <3> QED
      BY <3>1 DEF Unmanaged
  <2>6. CASE pc = "Aattach"
    <3>1. PICK v \in todo : src.vol[v] = "available" /\ src' = Attached(src, v)
      BY <1>2, <2>6 DEF SourceCall
    <3> QED
      BY <3>1 DEF Attached
  <2>7. CASE pc \in {"Bmanage", "Bport"}
    BY <1>2, <2>7 DEF SourceCall, Remanaged, SourcePort
  <2>8. CASE pc = "Bcreate"
    <3>1. /\ \A v \in plan : src.vol[v] = "available"
          /\ src' = Recreated(src, plan) /\ Root \in plan
      BY <1>2, <2>1, <2>8 DEF SourceCall, Bootable
    <3>2. /\ src'.vm = src.vm /\ src'.dot = src.dot
          /\ \A v \in Volumes \ plan : src'.vol[v] = src.vol[v]
          /\ src'.vol[Root] = "in-use"
      BY <3>1 DEF Recreated
    <3> QED
      BY <3>1, <3>2
  <2> QED
    BY <1>2, <2>2, <2>3, <2>4, <2>5, <2>6, <2>7, <2>8 DEF SourceCall
<1>3. CASE DestCall /\ UNCHANGED src
  <2>1. PICK W \in SUBSET Volumes :
          /\ \A v \in W : Released(v) /\ Released(Root)
          /\ \A v \in Volumes \ W : dst'.vol[v] = dst.vol[v]
    <3>1. CASE pc = "C4"
      <4>1. PICK v \in plan : dst' = Managing(dst, v)
        BY <1>3, <1>r, <3>1 DEF DestCall
      <4>2. \A w \in Volumes \ {v} : dst'.vol[w] = dst.vol[w]
        BY <1>0, <4>1 DEF Managing, DstState
      <4>3. Released(v) /\ Released(Root) /\ {v} \in SUBSET Volumes
        BY <1>0, <1>r, <3>1, <4>1
      <4> QED
        BY <4>2, <4>3
    <3>2. CASE pc = "C5"
      <4>1. dst' = Created(dst, readDot, plan)
        BY <1>3, <3>2 DEF DestCall
      <4>3. \A w \in Volumes \ plan : dst'.vol[w] = dst.vol[w]
        BY <1>0, <4>1 DEF Created, DstState
      <4>2. \A v \in plan : Released(v) /\ Released(Root)
        BY <1>r, <3>2
      <4> QED
        BY <1>0, <4>2, <4>3
    <3>3. CASE pc = "Bdelete"
      <4>1. \A v \in Volumes : dst'.vol[v] = dst.vol[v]
        BY <1>0, <1>3, <3>3 DEF DestCall, Deleting, DstState
      <4> QED
        BY <4>1, {} \in SUBSET Volumes
    <3>4. CASE pc = "Bunmanage"
      <4>1. PICK v \in Volumes : Releasable(v) /\ dst' = Releasing(dst, v)
        BY <1>3, <1>r, <3>4 DEF DestCall
      <4>2. \A w \in Volumes \ {v} : dst'.vol[w] = dst.vol[w]
        BY <1>0, <4>1 DEF Releasing, DstState
      <4>3. Released(v) /\ Released(Root)
        BY <1>0, <4>1 DEF HostsInv, Releasable
      <4> QED
        BY <4>2, <4>3
    <3> QED
      BY <1>3, <3>1, <3>2, <3>3, <3>4 DEF DestCall
  <2>2. lost # {} => dst'.vm = "gone"
    BY <1>0, <1>3 DEF DestCall, HostsInv, RunInv, HeldInv, AfterC3, Managing, Created, Deleting, Releasing, DstState
  <2>3. dst'.vm # "none" => Released(Root)
    BY <1>0, <1>3, <1>r DEF DestCall, HostsInv, Managing, Created, Deleting, Releasing, DstState
  <2> QED
    BY <1>0, <1>3, <2>1, <2>2, <2>3 DEF HostsInv, Released
<1> QED
  BY <1>1, <1>2, <1>3, Calls

\* What a run has done, it still finds after its own next step.
LEMMA HeldNext == RunInv /\ Runner => HeldInv'
<1> SUFFICES ASSUME RunInv, Runner PROVE HeldInv'
  OBVIOUS
<1>0. /\ HeldInv /\ src \in SrcState /\ dst \in DstState /\ Root \in Volumes
      /\ plan \subseteq Volumes
      /\ \A v \in plan \cup {Root} : Released(v) => Released(v)'
  BY Typed, HostsNext, CloudAssumption DEF RunInv, HeldInv
<1>p. pc \notin {"assemble", "Escaped"} => Root \in plan
  BY DEF RunInv, ControlInv
<1> USE HandlerCases, <1>0
    DEF Goto, Raise, Again, Await, Read, Call, Poll, GetStatus, PatchStatus, SetPhase,
        Checkpoint, EndLoop, Skip, record, memory, cloudVars,
        HeldInv, DeletePending, AfterC3, AfterC5, InPlace, Reverse
<1>1. CASE Assemble
  <2>1. saved = {} /\ saved' = saved /\ pc' \in {"start", "Escaped", "except", "attention"}
    BY <1>1 DEF Assemble, RunInv, PortsInv, BeforeS1, BeforeStaging
  <2> QED
    BY <2>1
<1>2. CASE Start
  BY <1>2 DEF Start
<1>3. CASE Preflight
  BY <1>3 DEF Preflight
<1>4. CASE Reject
  BY <1>4 DEF Reject
<1>5. CASE Stage
  BY <1>5 DEF Stage
<1>6. CASE HonourCancel
  BY <1>6 DEF HonourCancel, Regime
<1>7. CASE EnterCutover
  BY <1>7 DEF EnterCutover
<1>8. CASE C1
  BY <1>8 DEF C1
<1>9. CASE C2
  BY <1>9 DEF C2
<1>10. CASE C2b
  BY <1>10 DEF C2b, WithDot, SrcState
<1>11. CASE C2c
  <2>1. dst' = dst /\ (pc = "C2c" /\ src.vm # "gone" => dst.vm = "none")
    BY <1>11 DEF C2c, RunInv, HostsInv, Released
  <2>2. CASE pc = "C2c"
    <3>1. /\ UNCHANGED <<saved, plan>> /\ pc' \in {"C2wait", "Escaped", "except", "attention"}
          /\ pc' = "C2wait" => src.vm # "gone"
      BY <1>11, <2>2 DEF C2c
    <3> QED
      BY <2>1, <2>2, <3>1
  <2>3. CASE pc \in {"C2wait", "C2ck"}
    <3>1. /\ plan' = plan /\ ("C3" \in saved' => "C3" \in saved)
          /\ pc' \in {"C2wait", "C2ck", "C3", "Escaped", "except", "attention"}
          /\ pc' = "C3" => todo' = plan
      BY <1>11, <2>3, MoreLoops DEF C2c
    <3> QED
      BY <1>p, <2>1, <2>3, <3>1
  <2> QED
    BY <1>11, <2>2, <2>3 DEF C2c
<1>12. CASE C3
  <2>1. ASSUME NEW v \in todo, NEW left \in {"gone", "unmanaging"}, pc = "C3",
               Call(src.vol[v] = "available", Unmanaged(src, v, left), dst,
                    Again("C3", v))
        PROVE  HeldInv'
    <3>1. v \in Volumes /\ src' = Unmanaged(src, v, left) => Released(v)'
      BY DEF Unmanaged, Released, SrcState
    <3>2. /\ UNCHANGED <<saved, plan, dst>>
          /\ pc' \in {"C3", "Escaped", "except", "attention"}
          /\ pc' = "C3" => todo' = todo \ {v} /\ src' = Unmanaged(src, v, left)
      BY <2>1
    <3> QED
      BY <2>1, <3>1, <3>2
  <2>2. CASE pc = "C3" /\ EndLoop("C3", "C3k")
    BY <1>p, <2>2
  <2>3. CASE pc = "C3k"
    BY <1>12, <2>3 DEF C3
  <2> QED
    BY <1>12, <2>1, <2>2, <2>3 DEF C3
<1>13. CASE C4
  BY <1>13, <1>p DEF C4, Managing, DstState
<1>14. CASE C5
  BY <1>14, <1>p DEF C5, Created, DstState
<1>15. CASE Verify
  BY <1>15 DEF Verify
<1>16. CASE Complete
  BY <1>16 DEF Complete
<1>17. CASE Except
  BY <1>17 DEF Except, Regime
<1>18. CASE RollbackInPlace
  BY <1>18 DEF RollbackInPlace
<1>19. CASE UndoDestination
  BY <1>19 DEF UndoDestination
<1>20. CASE RebuildSource
  BY <1>20 DEF RebuildSource
<1>21. CASE Report
  BY <1>21 DEF Report
<1> QED
  BY <1>1, <1>2, <1>3, <1>4, <1>5, <1>6, <1>7, <1>8, <1>9, <1>10, <1>11,
     <1>12, <1>13, <1>14, <1>15, <1>16, <1>17, <1>18, <1>19, <1>20, <1>21
     DEF Runner

\* What the clouds do on their own keeps all of it, and the ports.
LEMMA HostsAlone ==
  ASSUME RunInv, Clouds
  PROVE  /\ HostsInv' /\ HeldInv'
         /\ dst'.ports = dst.ports
         /\ src'.vm = src.vm /\ src'.rebuilt = src.rebuilt
<1>0. /\ HostsInv /\ HeldInv /\ src \in SrcState /\ dst \in DstState /\ lost \subseteq Volumes
      /\ plan \subseteq Volumes /\ Root \in Volumes
      /\ UNCHANGED <<saved, pc, todo, plan>>
  BY Typed, CloudAssumption DEF RunInv, Clouds, record, memory
<1> USE <1>0 DEF HostsInv, HeldInv, Released, DeletePending, AfterC3, AfterC5, SrcState, DstState
<1>1. CASE SourceDetaches
  BY <1>1 DEF SourceDetaches, DeletedWith
<1>2. CASE SourceUnmanages
  BY <1>2 DEF SourceUnmanages
<1>3. CASE DestManages
  BY <1>3 DEF DestManages
<1>4. CASE DestUnmanages
  BY <1>4 DEF DestUnmanages
<1>5. CASE DestBoots
  BY <1>5 DEF DestBoots
<1>6. CASE DestDeletes
  BY <1>6 DEF DestDeletes
<1> QED
  BY <1>1, <1>2, <1>3, <1>4, <1>5, <1>6 DEF Clouds, CloudStep

\* The whole invariant of a run is kept by the run itself, by the clouds and by
\* a cancel ...
LEMMA RunNext == RunInv /\ [Next]_vars => RunInv'
<1> SUFFICES ASSUME RunInv, [Next]_vars PROVE RunInv'
  OBVIOUS
<1>1. (TypeOK /\ RecordInv /\ PrefixInv /\ PortsInv)'
  BY NextType, NextRecord, PrefixNext, PortsNext DEF RunInv
<1>2. (ControlInv /\ HostsInv /\ HeldInv)'
  <2>1. CASE Runner
    BY <2>1, ControlNext, HostsNext, HeldNext
  <2>2. CASE Clouds
    BY <2>2, HostsAlone DEF RunInv, Clouds, record, memory, ControlInv, Owner, Mine
  <2>3. CASE Cancel \/ UNCHANGED vars
    BY <2>3 DEF RunInv, Cancel, vars, cloudVars, record, memory, ControlInv, Owner, Mine,
                HostsInv, HeldInv, Released
  <2> QED
    BY <2>1, <2>2, <2>3 DEF Next
<1> QED
  BY <1>1, <1>2 DEF RunInv

\* ... and by any step of another run that leaves this one's ports alone, and
\* the servers and volumes too while this one owns every port.
LEMMA OthersNext ==
  ASSUME RunInv, UNCHANGED <<record, pc, todo, memory>>,
         CloudTypeOK', HostsInv', \A v \in Volumes : Released(v) => Released(v)',
         \A n \in Nics : Mine(n)' <=> Mine(n),
         Servers' # Servers => ~Owner
  PROVE  RunInv'
<1>1. /\ TypeOK /\ RecordInv /\ PrefixInv /\ PortsInv /\ ControlInv /\ HeldInv
      /\ UNCHANGED <<cr, saved, seen, req, pc, todo, plan, readDot, given, handling>>
      /\ Owner' <=> Owner
  BY DEF RunInv, record, memory, Owner
<1>2. TypeOK'
  BY <1>1 DEF TypeOK, Items
<1>3. RecordInv' /\ PrefixInv'
  BY <1>1 DEF RecordInv, PrefixInv, Follows
<1>4. PortsInv'
  BY <1>1 DEF PortsInv
<1>5. ControlInv'
  BY <1>1 DEF ControlInv
<1>6. HeldInv'
  <2>0. \A v \in plan \cup {Root} : Released(v) => Released(v)'
    BY <1>1, Typed, CloudAssumption
  <2>1. CASE pc \in AfterS1
    <3>1. UNCHANGED Servers
      BY <1>1, <2>1 DEF PortsInv, Owner
    <3> QED
      BY <1>1, <2>0, <3>1 DEF HeldInv, Servers
  <2>2. CASE pc \notin AfterS1
    BY <1>1, <2>0, <2>2 DEF HeldInv, AfterS1, DeletePending, AfterC3, AfterC5
  <2> QED
    BY <2>1, <2>2
<1> QED
  BY <1>2, <1>3, <1>4, <1>5, <1>6 DEF RunInv

\* A run makes and deletes no port but its own.

\* The calls of a run that change a port.
PortCall ==
  \/ pc = "S1" /\ \E n \in todo : dst.ports[n] = "free" /\ dst' = Staged(dst, n, mid)
  \/ /\ pc \in {"S1undo", "Aports", "Bdports"}
     /\ \E n \in todo : dst' = Unstaged(dst, n, mid)

\* The runner makes no other.
LEMMA PortCalls ==
  ASSUME RunInv, Runner
  PROVE  PortCall \/ dst'.ports = dst.ports
<1>0. /\ dst \in DstState
      /\ \A b, P : Created(dst, b, P).ports = dst.ports
      /\ \A v : Managing(dst, v).ports = dst.ports /\ Releasing(dst, v).ports = dst.ports
      /\ Deleting(dst).ports = dst.ports
  BY Typed, PortEffects DEF RunInv
<1> USE DEF Call, Poll, GetStatus, PatchStatus, Read, SetPhase, Checkpoint, EndLoop, Skip, cloudVars, PortCall
<1>1. CASE Assemble \/ Start \/ Preflight \/ Reject \/ HonourCancel \/ EnterCutover
            \/ Verify \/ Complete \/ Except \/ Report
  BY <1>1 DEF Assemble, Start, Preflight, Reject, HonourCancel, EnterCutover,
              Verify, Complete, Except, Report
<1>2. CASE Stage
  BY <1>2 DEF Stage
<1>3. CASE C1 \/ C2 \/ C2b \/ C2c \/ C3
  BY <1>3 DEF C1, C2, C2b, C2c, C3
<1>4. CASE C4 \/ C5
  BY <1>0, <1>4 DEF C4, C5
<1>5. CASE RollbackInPlace
  BY <1>5 DEF RollbackInPlace
<1>6. CASE UndoDestination
  BY <1>0, <1>6 DEF UndoDestination
<1>7. CASE RebuildSource
  BY <1>7 DEF RebuildSource
<1> QED
  BY <1>1, <1>2, <1>3, <1>4, <1>5, <1>6, <1>7 DEF Runner

\* A run makes a port only where there is none and deletes only its own.
LEMMA PortsApart ==
  ASSUME RunInv, Runner, NEW n \in Nics, NEW m \in Mids \ {mid}
  PROVE  dst'.ports[n] = m <=> dst.ports[n] = m
<1>0. /\ dst.ports \in [Nics -> Mids \cup {"free"}] /\ m # "free" /\ mid # m
      /\ pc \in {"S1", "S1undo", "Aports", "Bdports"} => todo \subseteq Nics
  BY Typed, CloudAssumption DEF RunInv, DstState
<1>1. CASE pc = "S1" /\ \E k \in todo : dst.ports[k] = "free" /\ dst' = Staged(dst, k, mid)
  <2>1. PICK k \in Nics : dst.ports[k] = "free" /\ dst'.ports = [dst.ports EXCEPT ![k] = mid]
    BY <1>0, <1>1, PortEffects, Typed DEF RunInv
  <2> QED
    BY <1>0, <2>1
<1>2. CASE pc \in {"S1undo", "Aports", "Bdports"} /\ \E k \in todo : dst' = Unstaged(dst, k, mid)
  <2>1. PICK k \in Nics : dst'.ports = [dst.ports EXCEPT ![k] = IF @ = mid THEN "free" ELSE @]
    <3>1. PICK k \in Nics : dst' = Unstaged(dst, k, mid)
      BY <1>0, <1>2
    <3> QED
      BY <3>1, PortEffects, Typed DEF RunInv
  <2> QED
    BY <1>0, <2>1
<1> QED
  BY <1>1, <1>2, PortCalls DEF PortCall

\* A rollback comes to the ports only after it restarted the server, or had not
\* stopped it, or built it anew; and no checkpoint is forgotten.
LEMMA WayToPorts ==
  ASSUME RunInv, Runner
  PROVE  /\ "C1" \in saved => "C1" \in saved'
         /\ pc \in {"Astart", "Aports", "rolled"}
              => /\ UNCHANGED <<saved, given>>
                 /\ pc' \in {"Aports", "rolled", "RolledBack", Handler} \cup {pc}
         /\ pc' \in {"Aports", "Bdports", "rolled", "RolledBack"}
              => \/ pc \in {"Aports", "Bdports", "rolled"}
                 \/ pc = "Astart" /\ ("C1" \notin given \/ src.vm = "stopped")
                 \/ pc = "Bcreate" /\ src' = Recreated(src, plan)
<1> USE HandlerCases
    DEF Goto, Raise, Again, Await, Read, Call, Poll, GetStatus, PatchStatus, SetPhase,
        Checkpoint, EndLoop, Skip, record, memory
<1>1. CASE Assemble \/ Start \/ Preflight \/ Reject \/ EnterCutover
            \/ Verify \/ Complete \/ Report
  BY <1>1 DEF Assemble, Start, Preflight, Reject, EnterCutover, Verify, Complete, Report
<1>2. CASE HonourCancel \/ Except
  BY <1>2 DEF HonourCancel, Except, Regime
<1>3. CASE Stage
  BY <1>3 DEF Stage
<1>4. CASE C1 \/ C2
  BY <1>4 DEF C1, C2
<1>5. CASE C2b
  BY <1>5 DEF C2b
<1>6. CASE C2c \/ C3
  BY <1>6 DEF C2c, C3
<1>7. CASE C4 \/ C5
  BY <1>7 DEF C4, C5
<1>8. CASE RollbackInPlace
  BY <1>8 DEF RollbackInPlace
<1>9. CASE UndoDestination
  BY <1>9 DEF UndoDestination
<1>10. CASE RebuildSource
  BY <1>10 DEF RebuildSource
<1> QED
  BY <1>1, <1>2, <1>3, <1>4, <1>5, <1>6, <1>7, <1>8, <1>9, <1>10 DEF Runner

\* A VM without a server on the source is in the hands of the run that took it,
\* until that run gives it back.
LEMMA HomeNext ==
  ASSUME RunInv, Runner, Homeless'
  PROVE  Away' \/ (Homeless /\ ~Away)
<1>0. /\ src \in SrcState /\ dst \in DstState
      /\ pc \in BeforeS1 => saved = {}
      /\ pc \in AfterC1 => "C1" \in saved
      /\ \A P : Recreated(src, P).rebuilt
  BY Typed, Chain DEF RunInv, PortsInv, Recreated, SrcState
<1>1. CASE Homeless /\ Away
  <2>1. "C1" \in saved /\ "C1" \in saved'
    BY <1>1, WayToPorts DEF Away
  <2>2. CASE Owner /\ pc \notin {"Aports", "Bdports", "rolled", "RolledBack"}
    <3>1. dst'.ports = dst.ports
      BY <1>0, <2>1, <2>2, PortCalls DEF PortCall, BeforeS1
    <3>2. CASE pc' \in {"Aports", "Bdports", "rolled", "RolledBack"}
      <4>1. pc = "Astart" /\ "C1" \notin given
        BY <1>0, <1>1, <2>2, <3>2, WayToPorts DEF Homeless
      <4>2. UNCHANGED <<saved, given>> /\ pc' \in {"Aports", "rolled", "RolledBack"}
        BY <3>2, <4>1, WayToPorts, HandlerCases
      <4> QED
        BY <2>1, <4>1, <4>2 DEF Away, StopShown
    <3>3. CASE pc' \notin {"Aports", "Bdports", "rolled", "RolledBack"}
      BY <2>1, <2>2, <3>1, <3>3 DEF Away, Owner, Mine
    <3> QED
      BY <3>2, <3>3
  <2>3. CASE ~StopShown /\ pc \in {"Aports", "rolled", "RolledBack", "Escaped"}
    <3>1. pc \in {"Aports", "rolled"}
      BY <2>3, RunnerRuns DEF Outcome
    <3>2. Handler = "Escaped"
      BY <2>1, <3>1 DEF RunInv, ControlInv, InPlace, Handler, Reverse
    <3> QED
      BY <2>1, <2>3, <3>1, <3>2, WayToPorts DEF Away, StopShown
  <2> QED
    BY <1>1, <2>2, <2>3 DEF Away
<1>2. CASE ~Homeless
  <2>1. pc = "C2c" /\ src.vm # "gone"
    <3>1. SourceCall
      BY <1>2, Calls DEF Servers, Homeless
    <3>2. CASE pc \in {"C1", "Astart"}
      BY <1>0, <3>1, <3>2 DEF SourceCall, Stopped, Started, Homeless, SrcState
    <3>3. CASE pc = "Bcreate"
      BY <1>0, <3>1, <3>3 DEF SourceCall, Homeless
    <3>4. CASE pc \in {"C2", "C2bset", "C3", "Adot", "Aattach", "Bmanage", "Bport"}
      <4>1. src'.vm = src.vm /\ src'.rebuilt = src.rebuilt
        BY <1>0, <3>1, <3>4 DEF SourceCall, Detached, WithDot, Unmanaged, Attached,
                                Remanaged, SourcePort, SrcState
      <4> QED
        BY <1>2, <4>1 DEF Homeless
    <3> QED
      BY <3>1, <3>2, <3>3, <3>4 DEF SourceCall
  <2>2. Owner /\ "C1" \in saved
    BY <1>0, <2>1 DEF RunInv, PortsInv, AfterS1, AfterC1, Owner
  <2>3. dst'.ports = dst.ports
    BY <2>1, PortCalls DEF PortCall
  <2> QED
    BY <2>1, <2>2, <2>3, WayToPorts DEF Away, Owner, Mine
<1> QED
  BY <1>1, <1>2

-----------------------------------------------------------------------------
(* What the invariant of a run says of the pair's properties.              *)

\* A run that cuts over, or rolls back what it cut over, owns every port.
LEMMA CuttingOwned ==
  ASSUME RunInv,
         pc \in AfterS1 \/ ("C1" \in saved /\ pc \in Holding)
  PROVE  Owner
BY DEF RunInv, PortsInv, ControlInv, Owner

\* A completed run has the server and the volumes of its plan, and nothing of
\* the VM is left on the source or lost.
LEMMA CompletedHeld ==
  ASSUME RunInv, pc = "Completed"
  PROVE  /\ dst.vm = "active" /\ src.vm = "gone" /\ ~src.rebuilt /\ lost = {}
         /\ \A v \in plan : dst.vol[v] = "in-use"
BY DEF RunInv, HeldInv, HostsInv, AfterC5, Released

\* While the source has a server of the VM, it has the root volume, the
\* destination has no server, and nothing is lost.
LEMMA AtHome ==
  ASSUME RunInv, ~Homeless
  PROVE  /\ src.vm # "gone" \/ src.rebuilt
         /\ src.vol[Root] = "in-use" /\ dst.vm = "none" /\ lost = {}
BY DEF RunInv, Homeless, HostsInv, Released

=============================================================================
