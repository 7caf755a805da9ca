------------------------ MODULE MigrationPairProofs ------------------------
(***************************************************************************)
(* Two migrations of one VM, for any volumes, NICs and faults.  What one   *)
(* run keeps to itself whatever the other does is RunInv, proved once in   *)
(* MigrationOutcomeProofs and instantiated here for each run; this module  *)
(* puts the two together: a step of one run is a step the other's lemma    *)
(* OthersNext allows, because a run touches no port of the other and       *)
(* touches a server or a volume only while every port is its own.          *)
(***************************************************************************)
EXTENDS MigrationPair, TLAPS

RunOne == INSTANCE MigrationOutcomeProofs
            WITH mid <- m1, Cancels <- Cancels1, cr <- cr1, saved <- saved1,
                 seen <- seen1, req <- req1, pc <- pc1, todo <- todo1,
                 plan <- plan1, readDot <- readDot1, given <- given1,
                 handling <- handling1
RunTwo == INSTANCE MigrationOutcomeProofs
            WITH mid <- m2, Cancels <- Cancels2, cr <- cr2, saved <- saved2,
                 seen <- seen2, req <- req2, pc <- pc2, todo <- todo2,
                 plan <- plan2, readDot <- readDot2, given <- given2,
                 handling <- handling2

\* Each run keeps its own invariant, and a VM without a server on the source is
\* in the hands of one of them.
PairInv ==
  /\ RunOne!RunInv
  /\ RunTwo!RunInv
  /\ RunOne!Homeless => RunOne!Away \/ RunTwo!Away

\* Both runs satisfy what the engine assumes of its constants.
LEMMA Assumed ==
  /\ RunOne!CloudAssumption /\ RunOne!EngineAssumption
  /\ RunTwo!CloudAssumption /\ RunTwo!EngineAssumption
BY CloudAssumption, PairAssumption

\* What MigrationPair says of the first run is what the proofs say of it: the
\* two instances of MigrationEngine have the same definitions.
LEMMA SameOne ==
  /\ One!Init <=> RunOne!Init
  /\ One!TypeOK <=> RunOne!TypeOK
  /\ One!Runner <=> RunOne!Runner
  /\ One!Cancel <=> RunOne!Cancel
  /\ CloudStep <=> RunOne!CloudStep
<1>1. One!Init <=> RunOne!Init
  BY Zenon
     DEF One!Init, RunOne!Init, One!CloudInit, RunOne!CloudInit, One!None, RunOne!None
<1>2. One!TypeOK <=> RunOne!TypeOK
  BY Zenon
     DEF One!TypeOK, RunOne!TypeOK, One!CloudTypeOK, RunOne!CloudTypeOK,
         One!SrcState, RunOne!SrcState, One!DstState, RunOne!DstState,
         One!Status, RunOne!Status, One!None, RunOne!None, One!Request, RunOne!Request,
         One!Phases, RunOne!Phases, One!Steps, RunOne!Steps, One!Labels,
         RunOne!Labels, One!Undoing, RunOne!Undoing, One!InPlace,
         RunOne!InPlace, One!Reverse, RunOne!Reverse, One!Ended, RunOne!Ended,
         One!Items, RunOne!Items
<1>3. One!Runner <=> RunOne!Runner
  BY Zenon
     DEF One!cloudVars, RunOne!cloudVars, One!Listed, RunOne!Listed,
         One!Stopped, RunOne!Stopped, One!Started, RunOne!Started,
         One!Detached, RunOne!Detached, One!Attached, RunOne!Attached,
         One!WithDot, RunOne!WithDot, One!Deleted, RunOne!Deleted,
         One!Unmanaged, RunOne!Unmanaged, One!Renamed, RunOne!Renamed,
         One!Findable, RunOne!Findable, One!Remanaged, RunOne!Remanaged,
         One!SourcePort, RunOne!SourcePort, One!Bootable, RunOne!Bootable,
         One!Recreated, RunOne!Recreated, One!Managing, RunOne!Managing,
         One!Staged, RunOne!Staged, One!Unstaged, RunOne!Unstaged,
         One!DestBootable, RunOne!DestBootable, One!Created, RunOne!Created,
         One!Deleting, RunOne!Deleting, One!Releasable, RunOne!Releasable,
         One!Releasing, RunOne!Releasing, One!memory, RunOne!memory,
         One!Reverse, RunOne!Reverse, One!InPlace,
         RunOne!InPlace, One!Work, RunOne!Work, One!Loop,
         RunOne!Loop, One!UndoLoop, RunOne!UndoLoop, One!Goto,
         RunOne!Goto, One!Again, RunOne!Again, One!Await, RunOne!Await,
         One!Handler, RunOne!Handler, One!Raise, RunOne!Raise, One!Call,
         RunOne!Call, One!Poll, RunOne!Poll, One!record, RunOne!record, One!None, RunOne!None,
         One!GetStatus, RunOne!GetStatus, One!PatchStatus, RunOne!PatchStatus,
         One!Read, RunOne!Read, One!Checkpoint, RunOne!Checkpoint,
         One!SetPhase, RunOne!SetPhase, One!EndLoop, RunOne!EndLoop,
         One!Assemble, RunOne!Assemble, One!Start, RunOne!Start,
         One!Preflight, RunOne!Preflight, One!Reject, RunOne!Reject,
         One!Stage, RunOne!Stage, One!Regime, RunOne!Regime, One!HonourCancel,
         RunOne!HonourCancel, One!EnterCutover, RunOne!EnterCutover, One!C1,
         RunOne!C1, One!C2, RunOne!C2, One!C2b, RunOne!C2b, One!C2c,
         RunOne!C2c, One!C3, RunOne!C3, One!C4, RunOne!C4, One!C5, RunOne!C5,
         One!Verify, RunOne!Verify, One!Complete, RunOne!Complete, One!Except,
         RunOne!Except, One!Skip, RunOne!Skip, One!RollbackInPlace,
         RunOne!RollbackInPlace, One!UndoDestination, RunOne!UndoDestination,
         One!RebuildSource, RunOne!RebuildSource, One!Report, RunOne!Report,
         One!Runner, RunOne!Runner
<1>4. One!Cancel <=> RunOne!Cancel
  BY Zenon
     DEF One!Cancel, RunOne!Cancel, One!ReadForCancel, RunOne!ReadForCancel,
         One!WriteForCancel, RunOne!WriteForCancel, One!cloudVars, RunOne!cloudVars,
         One!memory, RunOne!memory
<1>5. CloudStep <=> RunOne!CloudStep
  BY Zenon
     DEF CloudStep, RunOne!CloudStep, SourceDetaches, RunOne!SourceDetaches,
         SourceUnmanages, RunOne!SourceUnmanages, DestManages,
         RunOne!DestManages, DestUnmanages, RunOne!DestUnmanages, DestBoots,
         RunOne!DestBoots, DestDeletes, RunOne!DestDeletes, DeletedWith,
         RunOne!DeletedWith
<1> QED
  BY <1>1, <1>2, <1>3, <1>4, <1>5

\* What MigrationPair says of the second run is what the proofs say of it: the
\* two instances of MigrationEngine have the same definitions.
LEMMA SameTwo ==
  /\ Two!Init <=> RunTwo!Init
  /\ Two!TypeOK <=> RunTwo!TypeOK
  /\ Two!Runner <=> RunTwo!Runner
  /\ Two!Cancel <=> RunTwo!Cancel
  /\ CloudStep <=> RunTwo!CloudStep
<1>1. Two!Init <=> RunTwo!Init
  BY Zenon
     DEF Two!Init, RunTwo!Init, Two!CloudInit, RunTwo!CloudInit, Two!None, RunTwo!None
<1>2. Two!TypeOK <=> RunTwo!TypeOK
  BY Zenon
     DEF Two!TypeOK, RunTwo!TypeOK, Two!CloudTypeOK, RunTwo!CloudTypeOK,
         Two!SrcState, RunTwo!SrcState, Two!DstState, RunTwo!DstState,
         Two!Status, RunTwo!Status, Two!None, RunTwo!None, Two!Request, RunTwo!Request,
         Two!Phases, RunTwo!Phases, Two!Steps, RunTwo!Steps, Two!Labels,
         RunTwo!Labels, Two!Undoing, RunTwo!Undoing, Two!InPlace,
         RunTwo!InPlace, Two!Reverse, RunTwo!Reverse, Two!Ended, RunTwo!Ended,
         Two!Items, RunTwo!Items
<1>3. Two!Runner <=> RunTwo!Runner
  BY Zenon
     DEF Two!cloudVars, RunTwo!cloudVars, Two!Listed, RunTwo!Listed,
         Two!Stopped, RunTwo!Stopped, Two!Started, RunTwo!Started,
         Two!Detached, RunTwo!Detached, Two!Attached, RunTwo!Attached,
         Two!WithDot, RunTwo!WithDot, Two!Deleted, RunTwo!Deleted,
         Two!Unmanaged, RunTwo!Unmanaged, Two!Renamed, RunTwo!Renamed,
         Two!Findable, RunTwo!Findable, Two!Remanaged, RunTwo!Remanaged,
         Two!SourcePort, RunTwo!SourcePort, Two!Bootable, RunTwo!Bootable,
         Two!Recreated, RunTwo!Recreated, Two!Managing, RunTwo!Managing,
         Two!Staged, RunTwo!Staged, Two!Unstaged, RunTwo!Unstaged,
         Two!DestBootable, RunTwo!DestBootable, Two!Created, RunTwo!Created,
         Two!Deleting, RunTwo!Deleting, Two!Releasable, RunTwo!Releasable,
         Two!Releasing, RunTwo!Releasing, Two!memory, RunTwo!memory,
         Two!Reverse, RunTwo!Reverse, Two!InPlace,
         RunTwo!InPlace, Two!Work, RunTwo!Work, Two!Loop,
         RunTwo!Loop, Two!UndoLoop, RunTwo!UndoLoop, Two!Goto,
         RunTwo!Goto, Two!Again, RunTwo!Again, Two!Await, RunTwo!Await,
         Two!Handler, RunTwo!Handler, Two!Raise, RunTwo!Raise, Two!Call,
         RunTwo!Call, Two!Poll, RunTwo!Poll, Two!record, RunTwo!record, Two!None, RunTwo!None,
         Two!GetStatus, RunTwo!GetStatus, Two!PatchStatus, RunTwo!PatchStatus,
         Two!Read, RunTwo!Read, Two!Checkpoint, RunTwo!Checkpoint,
         Two!SetPhase, RunTwo!SetPhase, Two!EndLoop, RunTwo!EndLoop,
         Two!Assemble, RunTwo!Assemble, Two!Start, RunTwo!Start,
         Two!Preflight, RunTwo!Preflight, Two!Reject, RunTwo!Reject,
         Two!Stage, RunTwo!Stage, Two!Regime, RunTwo!Regime, Two!HonourCancel,
         RunTwo!HonourCancel, Two!EnterCutover, RunTwo!EnterCutover, Two!C1,
         RunTwo!C1, Two!C2, RunTwo!C2, Two!C2b, RunTwo!C2b, Two!C2c,
         RunTwo!C2c, Two!C3, RunTwo!C3, Two!C4, RunTwo!C4, Two!C5, RunTwo!C5,
         Two!Verify, RunTwo!Verify, Two!Complete, RunTwo!Complete, Two!Except,
         RunTwo!Except, Two!Skip, RunTwo!Skip, Two!RollbackInPlace,
         RunTwo!RollbackInPlace, Two!UndoDestination, RunTwo!UndoDestination,
         Two!RebuildSource, RunTwo!RebuildSource, Two!Report, RunTwo!Report,
         Two!Runner, RunTwo!Runner
<1>4. Two!Cancel <=> RunTwo!Cancel
  BY Zenon
     DEF Two!Cancel, RunTwo!Cancel, Two!ReadForCancel, RunTwo!ReadForCancel,
         Two!WriteForCancel, RunTwo!WriteForCancel, Two!cloudVars, RunTwo!cloudVars,
         Two!memory, RunTwo!memory
<1>5. CloudStep <=> RunTwo!CloudStep
  BY Zenon
     DEF CloudStep, RunTwo!CloudStep, SourceDetaches, RunTwo!SourceDetaches,
         SourceUnmanages, RunTwo!SourceUnmanages, DestManages,
         RunTwo!DestManages, DestUnmanages, RunTwo!DestUnmanages, DestBoots,
         RunTwo!DestBoots, DestDeletes, RunTwo!DestDeletes, DeletedWith,
         RunTwo!DeletedWith
<1> QED
  BY <1>1, <1>2, <1>3, <1>4, <1>5

\* The two runs see the same clouds.
LEMMA SharedClouds ==
  /\ RunOne!HostsInv <=> RunTwo!HostsInv
  /\ RunOne!Homeless <=> RunTwo!Homeless
  /\ RunOne!CloudTypeOK <=> RunTwo!CloudTypeOK
  /\ \A v : RunOne!Released(v) <=> RunTwo!Released(v)
BY DEF RunOne!HostsInv, RunTwo!HostsInv, RunOne!Homeless, RunTwo!Homeless,
       RunOne!CloudTypeOK, RunTwo!CloudTypeOK, RunOne!SrcState, RunTwo!SrcState,
       RunOne!DstState, RunTwo!DstState, RunOne!Released, RunTwo!Released

LEMMA SharedCloudsNext ==
  /\ RunOne!HostsInv' <=> RunTwo!HostsInv'
  /\ RunOne!Homeless' <=> RunTwo!Homeless'
  /\ RunOne!CloudTypeOK' <=> RunTwo!CloudTypeOK'
  /\ \A v : RunOne!Released(v)' <=> RunTwo!Released(v)'
<1>1. /\ RunOne!HostsInv' <=> RunTwo!HostsInv'
      /\ RunOne!Homeless' <=> RunTwo!Homeless'
      /\ RunOne!CloudTypeOK' <=> RunTwo!CloudTypeOK'
  BY SharedClouds, PTL
<1>2. \A v : RunOne!Released(v)' <=> RunTwo!Released(v)'
  BY DEF RunOne!Released, RunTwo!Released
<1> QED
  BY <1>1, <1>2

\* Ownership and what it protects, in the words of MigrationPair.
LEMMA SameOwner ==
  /\ Owns(m1) <=> RunOne!Owner
  /\ Owns(m2) <=> RunTwo!Owner
  /\ Servers' # Servers <=> RunOne!Servers' # RunOne!Servers
  /\ Servers' # Servers <=> RunTwo!Servers' # RunTwo!Servers
BY DEF Owns, RunOne!Owner, RunTwo!Owner, RunOne!Mine, RunTwo!Mine, Servers,
       RunOne!Servers, RunTwo!Servers

\* Two runs never both own the ports of a VM that has a NIC.
LEMMA OneOwner == ~(RunOne!Owner /\ RunTwo!Owner)
BY PairAssumption DEF RunOne!Owner, RunTwo!Owner, RunOne!Mine, RunTwo!Mine

\* A step of the first run keeps its own invariant, leaves the other's ports
\* alone, and takes the source's server from nobody.
LEMMA StepOne == PairInv /\ StepOfOne => PairInv'
<1> SUFFICES ASSUME PairInv, StepOfOne PROVE PairInv'
  OBVIOUS
<1>1. /\ RunOne!RunInv /\ RunTwo!RunInv /\ RunOne!Runner
      /\ UNCHANGED <<cr2, saved2, seen2, req2, pc2, todo2, plan2, readDot2, given2, handling2>>
  BY SameOne DEF PairInv, StepOfOne, own2
<1>2. RunOne!RunInv'
  BY <1>1, RunOne!RunNext, Assumed DEF RunOne!Next
<1>3. \A n \in Nics : RunTwo!Mine(n)' <=> RunTwo!Mine(n)
  BY <1>1, RunOne!PortsApart, Assumed, PairAssumption DEF RunTwo!Mine
<1>4. RunTwo!Servers' # RunTwo!Servers => ~RunTwo!Owner
  BY <1>1, RunOne!ServersOwned, Assumed, SameOwner, OneOwner
<1>5. RunTwo!RunInv'
  <2>1. UNCHANGED <<RunTwo!record, pc2, todo2, RunTwo!memory>>
    BY <1>1 DEF RunTwo!record, RunTwo!memory
  <2>2. RunTwo!CloudTypeOK' /\ RunTwo!HostsInv'
    BY <1>2, SharedCloudsNext DEF RunOne!RunInv, RunOne!TypeOK
  <2>3. \A v \in Volumes : RunTwo!Released(v) => RunTwo!Released(v)'
    BY <1>1, RunOne!HostsNext, Assumed, SharedClouds, SharedCloudsNext
  <2> QED
    BY <1>1, <1>3, <1>4, <2>1, <2>2, <2>3, RunTwo!OthersNext, Assumed
<1>6. RunOne!Homeless' => RunOne!Away' \/ RunTwo!Away'
  <2> SUFFICES ASSUME RunOne!Homeless' PROVE RunOne!Away' \/ RunTwo!Away'
    BY SharedCloudsNext
  <2>1. CASE RunOne!Away'
    BY <2>1
  <2>2. CASE RunOne!Homeless /\ ~RunOne!Away
    <3>1. RunTwo!Away
      BY <2>2, SharedClouds DEF PairInv
    <3> QED
      BY <1>1, <1>3, <3>1 DEF RunTwo!Away, RunTwo!Owner, RunTwo!StopShown
  <2> QED
    BY <1>1, <2>1, <2>2, RunOne!HomeNext, Assumed
<1> QED
  BY <1>2, <1>5, <1>6 DEF PairInv

\* A step of the second run keeps its own invariant, leaves the other's ports
\* alone, and takes the source's server from nobody.
LEMMA StepTwo == PairInv /\ StepOfTwo => PairInv'
<1> SUFFICES ASSUME PairInv, StepOfTwo PROVE PairInv'
  OBVIOUS
<1>1. /\ RunTwo!RunInv /\ RunOne!RunInv /\ RunTwo!Runner
      /\ UNCHANGED <<cr1, saved1, seen1, req1, pc1, todo1, plan1, readDot1, given1, handling1>>
  BY SameTwo DEF PairInv, StepOfTwo, own1
<1>2. RunTwo!RunInv'
  BY <1>1, RunTwo!RunNext, Assumed DEF RunTwo!Next
<1>3. \A n \in Nics : RunOne!Mine(n)' <=> RunOne!Mine(n)
  BY <1>1, RunTwo!PortsApart, Assumed, PairAssumption DEF RunOne!Mine
<1>4. RunOne!Servers' # RunOne!Servers => ~RunOne!Owner
  BY <1>1, RunTwo!ServersOwned, Assumed, SameOwner, OneOwner
<1>5. RunOne!RunInv'
  <2>1. UNCHANGED <<RunOne!record, pc1, todo1, RunOne!memory>>
    BY <1>1 DEF RunOne!record, RunOne!memory
  <2>2. RunOne!CloudTypeOK' /\ RunOne!HostsInv'
    BY <1>2, SharedCloudsNext DEF RunTwo!RunInv, RunTwo!TypeOK
  <2>3. \A v \in Volumes : RunOne!Released(v) => RunOne!Released(v)'
    BY <1>1, RunTwo!HostsNext, Assumed, SharedClouds, SharedCloudsNext
  <2> QED
    BY <1>1, <1>3, <1>4, <2>1, <2>2, <2>3, RunOne!OthersNext, Assumed
<1>6. RunOne!Homeless' => RunOne!Away' \/ RunTwo!Away'
  <2> SUFFICES ASSUME RunTwo!Homeless' PROVE RunTwo!Away' \/ RunOne!Away'
    BY SharedCloudsNext
  <2>1. CASE RunTwo!Away'
    BY <2>1
  <2>2. CASE RunTwo!Homeless /\ ~RunTwo!Away
    <3>1. RunOne!Away
      BY <2>2, SharedClouds DEF PairInv
    <3> QED
      BY <1>1, <1>3, <3>1 DEF RunOne!Away, RunOne!Owner, RunOne!StopShown
  <2> QED
    BY <1>1, <2>1, <2>2, RunTwo!HomeNext, Assumed
<1> QED
  BY <1>2, <1>5, <1>6 DEF PairInv

\* Nor do the clouds and a cancel break it.
LEMMA CloudsStep == PairInv /\ CloudsAlone => PairInv'
<1> SUFFICES ASSUME PairInv, CloudsAlone PROVE PairInv'
  OBVIOUS
<1>1. /\ RunOne!RunInv /\ RunTwo!RunInv
      /\ RunOne!Clouds /\ RunTwo!Clouds
  BY SameOne, SameTwo
     DEF PairInv, CloudsAlone, own1, own2, RunOne!Clouds, RunTwo!Clouds, RunOne!record,
         RunTwo!record, RunOne!memory, RunTwo!memory
<1>2. RunOne!RunInv' /\ RunTwo!RunInv'
  BY <1>1, RunOne!RunNext, RunTwo!RunNext, Assumed DEF RunOne!Next, RunTwo!Next
<1>3. /\ dst'.ports = dst.ports
      /\ src'.vm = src.vm /\ src'.rebuilt = src.rebuilt
      /\ UNCHANGED <<saved1, given1, pc1, saved2, given2, pc2>>
  BY <1>1, RunOne!HostsAlone, Assumed DEF CloudsAlone, own1, own2
<1> QED
  BY <1>2, <1>3
     DEF PairInv, RunOne!Homeless, RunOne!Away, RunTwo!Away, RunOne!Owner, RunTwo!Owner,
         RunOne!Mine, RunTwo!Mine, RunOne!StopShown, RunTwo!StopShown

LEMMA CancelStep == PairInv /\ (CancelSome \/ UNCHANGED pairVars) => PairInv'
<1> SUFFICES ASSUME PairInv, CancelSome \/ UNCHANGED pairVars PROVE PairInv'
  OBVIOUS
<1>1. /\ RunOne!RunInv /\ RunTwo!RunInv
      /\ UNCHANGED <<src, dst, lost, saved1, given1, pc1, saved2, given2, pc2>>
      /\ RunOne!Cancel \/ UNCHANGED RunOne!vars
      /\ RunTwo!Cancel \/ UNCHANGED RunTwo!vars
  BY SameOne, SameTwo
     DEF PairInv, CancelSome, CancelOf, pairVars, cloudVars, own1, own2, RunOne!Cancel,
         RunOne!vars, RunOne!cloudVars, RunOne!record, RunOne!memory, RunTwo!Cancel,
         RunTwo!vars, RunTwo!cloudVars, RunTwo!record, RunTwo!memory
<1>2. RunOne!RunInv' /\ RunTwo!RunInv'
  BY <1>1, RunOne!RunNext, RunTwo!RunNext, Assumed DEF RunOne!Next, RunTwo!Next
<1> QED
  BY <1>1, <1>2
     DEF PairInv, RunOne!Homeless, RunOne!Away, RunTwo!Away, RunOne!Owner, RunTwo!Owner,
         RunOne!Mine, RunTwo!Mine, RunOne!StopShown, RunTwo!StopShown

\* The inductive invariant of the pair holds in every reachable state.
THEOREM PairInvariant == PairSpec => []PairInv
<1>1. PairInit => PairInv
  <2> SUFFICES ASSUME PairInit PROVE PairInv
    OBVIOUS
  <2>1. RunOne!Init /\ RunTwo!Init
    BY SameOne, SameTwo DEF PairInit
  <2>2. RunOne!RunInv /\ RunTwo!RunInv
    BY <2>1, RunOne!RunInit, RunTwo!RunInit, Assumed
  <2>3. ~RunOne!Homeless
    BY <2>1 DEF RunOne!Init, RunOne!CloudInit, RunOne!Homeless
  <2> QED
    BY <2>2, <2>3 DEF PairInv
<1>2. PairInv /\ [PairNext]_pairVars => PairInv'
  BY StepOne, StepTwo, CloudsStep, CancelStep DEF PairNext
<1> QED
  BY <1>1, <1>2, PTL DEF PairSpec

-----------------------------------------------------------------------------
(* The properties of the pair.                                             *)

\* Both runs and the clouds they share keep their types: no run drives the
\* shared clouds into a state the other does not know.
THEOREM PairTypeCorrect == PairSpec => []PairTypeOK
<1>1. PairInv => PairTypeOK
  BY SameOne, SameTwo DEF PairInv, PairTypeOK, RunOne!RunInv, RunTwo!RunInv
<1> QED
  BY <1>1, PairInvariant, PTL

\* Two migrations of a VM never cut over at once, a rollback counted until it
\* has only ports left to release, and none does after the other has completed.
THEOREM OneAtATimeHolds == PairSpec => []OneAtATime
<1>1. PairInv => OneAtATime
  <2> SUFFICES ASSUME PairInv PROVE OneAtATime
    OBVIOUS
  <2>1. Cutting(pc1, saved1) => RunOne!Owner
    BY RunOne!CuttingOwned, Assumed
       DEF PairInv, Cutting, RunOne!AfterS1, RunOne!Holding
  <2>2. Cutting(pc2, saved2) => RunTwo!Owner
    BY RunTwo!CuttingOwned, Assumed
       DEF PairInv, Cutting, RunTwo!AfterS1, RunTwo!Holding
  <2> QED
    BY <2>1, <2>2, OneOwner DEF OneAtATime
<1> QED
  BY <1>1, PairInvariant, PTL

\* A run changes a server or a volume of either cloud only while every staged
\* port is its own, in its rollback too.
THEOREM OwnerActsHolds == PairSpec => OwnerActs
<1>1. PairInv /\ [PairNext]_pairVars
        => [/\ StepOfOne /\ Servers' # Servers => Owns(m1)
            /\ StepOfTwo /\ Servers' # Servers => Owns(m2)]_pairVars
  <2> SUFFICES ASSUME PairInv
               PROVE  /\ StepOfOne /\ Servers' # Servers => Owns(m1)
                      /\ StepOfTwo /\ Servers' # Servers => Owns(m2)
    OBVIOUS
  <2>1. StepOfOne /\ Servers' # Servers => Owns(m1)
    BY SameOne, SameOwner, RunOne!ServersOwned, Assumed DEF PairInv, StepOfOne
  <2>2. StepOfTwo /\ Servers' # Servers => Owns(m2)
    BY SameTwo, SameOwner, RunTwo!ServersOwned, Assumed DEF PairInv, StepOfTwo
  <2> QED
    BY <2>1, <2>2
<1> QED
  BY <1>1, PairInvariant, PTL DEF PairSpec, OwnerActs

\* A migration that completed with all the volumes of the VM stays completed,
\* whatever the other one does later, and nothing of the VM is lost.
THEOREM CompletedStandsHolds == PairSpec => []CompletedStands
<1>1. PairInv => CompletedStands
  BY RunOne!CompletedHeld, RunTwo!CompletedHeld, Assumed
     DEF PairInv, CompletedStands, Standing
<1> QED
  BY <1>1, PairInvariant, PTL

\* When both migrations end rolled back, each of them knowing that it had stopped
\* the source server, the VM is on the source with its root volume, and there is
\* nothing of it on the destination.
THEOREM BothRolledBackHolds == PairSpec => []BothRolledBack
<1>1. PairInv => BothRolledBack
  <2> SUFFICES ASSUME PairInv, pc1 = "RolledBack", pc2 = "RolledBack",
                      One!StopShown, Two!StopShown
               PROVE  /\ src.vm # "gone" \/ src.rebuilt
                      /\ src.vol[Root] = "in-use" /\ dst.vm = "none" /\ lost = {}
    BY DEF BothRolledBack
  <2>1. ~RunOne!Away /\ ~RunTwo!Away
    BY DEF RunOne!Away, RunTwo!Away, RunOne!StopShown, RunTwo!StopShown, One!StopShown, Two!StopShown
  <2> QED
    BY <2>1, RunOne!AtHome, Assumed DEF PairInv
<1> QED
  BY <1>1, PairInvariant, PTL

\* The VM is never given a server by both clouds: while the source has one, the
\* destination was not asked for any.
THEOREM NeverTwoServersHolds == PairSpec => []NeverTwoServers
<1>1. PairInv => NeverTwoServers
  BY CloudAssumption
     DEF PairInv, NeverTwoServers, RunOne!RunInv, RunOne!HostsInv, RunOne!Released
<1> QED
  BY <1>1, PairInvariant, PTL

\* The destination is given a volume only after the source was asked to let go
\* of it, by whichever run, and of the server with it.
THEOREM HandedOverHolds == PairSpec => []HandedOver
<1>1. PairInv => HandedOver
  BY CloudAssumption
     DEF PairInv, HandedOver, RunOne!RunInv, RunOne!HostsInv, RunOne!Released
<1> QED
  BY <1>1, PairInvariant, PTL

=============================================================================
