---------------------------- MODULE MigrationPair ----------------------------
(***************************************************************************)
(* Two migrations of one VM.  Nothing in launch (app/api/migrations.py)    *)
(* asks whether the VM already has one, so two background tasks may run    *)
(* MigrationRunner.run on the same server at the same time, or the second  *)
(* may begin while the first rolls back.  Each is a MigrationEngine with   *)
(* its own Migration resource and its own memory; they meet only in the    *)
(* clouds.  The ports of the destination are what keeps them apart: stage  *)
(* gives each port the address the VM has, Neutron refuses a second one,   *)
(* and a rollback deletes the ports as its last act.                       *)
(*                                                                         *)
(* Both launches are taken to name the same destination networks and the   *)
(* same addresses, and the VM to have a NIC; see README.md.                *)
(***************************************************************************)
EXTENDS Clouds

CONSTANTS m1, m2,    \* the two migrations
          Faults,    \* what may go wrong with a call of either
          Cancels1,  \* the cancel requests of the one
          Cancels2   \* and of the other

ASSUME PairAssumption ==
  /\ m1 # m2 /\ Mids = {m1, m2} /\ Nics # {}
  /\ Faults \subseteq {"refused", "timeout"}

VARIABLES cr1, saved1, seen1, req1, pc1, todo1, plan1, readDot1, given1, handling1,
          cr2, saved2, seen2, req2, pc2, todo2, plan2, readDot2, given2, handling2

own1 == <<cr1, saved1, seen1, req1, pc1, todo1, plan1, readDot1, given1, handling1>>
own2 == <<cr2, saved2, seen2, req2, pc2, todo2, plan2, readDot2, given2, handling2>>
pairVars == <<cloudVars, own1, own2>>

One == INSTANCE MigrationEngine
         WITH mid <- m1, Cancels <- Cancels1, cr <- cr1, saved <- saved1,
              seen <- seen1, req <- req1, pc <- pc1, todo <- todo1,
              plan <- plan1, readDot <- readDot1, given <- given1,
              handling <- handling1
Two == INSTANCE MigrationEngine
         WITH mid <- m2, Cancels <- Cancels2, cr <- cr2, saved <- saved2,
              seen <- seen2, req <- req2, pc <- pc2, todo <- todo2,
              plan <- plan2, readDot <- readDot2, given <- given2,
              handling <- handling2

PairInit == One!Init /\ Two!Init

StepOfOne == One!Runner /\ UNCHANGED own2
StepOfTwo == Two!Runner /\ UNCHANGED own1

\* A cancel of the one or of the other.
CancelOf(m) == IF m = m1 THEN One!Cancel /\ UNCHANGED own2
               ELSE Two!Cancel /\ UNCHANGED own1
CancelSome == \E m \in Mids : CancelOf(m)
CloudsAlone == CloudStep /\ UNCHANGED <<own1, own2>>

PairNext == StepOfOne \/ StepOfTwo \/ CancelSome \/ CloudsAlone

PairSpec == PairInit /\ [][PairNext]_pairVars

-----------------------------------------------------------------------------
(* Properties.                                                             *)

\* Both migrations, and the clouds they share, keep their types.
PairTypeOK == One!TypeOK /\ Two!TypeOK

\* A run is cutting over from its first call to the source until it ends or
\* has undone everything but its ports.
Cutting(l, done) ==
  \/ l \in {"C1", "C1k", "C2", "C2k", "C2b", "C2bset", "C2bk", "C2c", "C2wait",
            "C2ck", "C3", "C3k", "C4", "C4wait", "C4k", "C5", "C5k", "enterV",
            "verify", "V1k", "V2k", "complete", "Completed"}
  \/ /\ "C1" \in done
     /\ l \in {"except", "Adot", "Aattach", "Astart", "Bdelete", "Bunmanage",
               "Bmanage", "Bport", "Bcreate"}

\* Two migrations of a VM never cut over at once, a rollback counted until it
\* has only ports left to release, and none does after the other has completed
\* (migrations.py:42-50, staging.py:11).
OneAtATime == ~(Cutting(pc1, saved1) /\ Cutting(pc2, saved2))

Owns(m) == \A n \in Nics : dst.ports[n] = m

\* What a run may change while the other one has a port.
Servers == <<src, dst.vm, dst.dot, dst.vol, lost>>

\* A run changes a server or a volume of either cloud only while every staged
\* port is its own: the one that lost the race for the ports touches nothing,
\* not even in its rollback (runner.py:55, rollback.py:12-31 with no checkpoint).
OwnerActs ==
  [][/\ StepOfOne /\ Servers' # Servers => Owns(m1)
     /\ StepOfTwo /\ Servers' # Servers => Owns(m2)]_pairVars

Standing(l, P) ==
  l = "Completed" /\ P = Volumes
    => /\ dst.vm = "active" /\ src.vm = "gone" /\ ~src.rebuilt
       /\ \A v \in Volumes : dst.vol[v] = "in-use"

\* A migration that completed with all the volumes of the VM stays completed:
\* nothing the other one does later, its rollback included, takes the server,
\* a volume or its data away (runner.py:46).
CompletedStands ==
  /\ Standing(pc1, plan1) /\ Standing(pc2, plan2)
  /\ "Completed" \in {pc1, pc2} => lost = {}

\* When both migrations end rolled back, and no cancel took from either rollback
\* the record that the source server had been stopped, the VM is on the source with
\* its root volume, and there is nothing of it on the destination (runner.py:39, 59).
BothRolledBack ==
  pc1 = "RolledBack" /\ pc2 = "RolledBack" /\ One!StopShown /\ Two!StopShown
    => /\ src.vm # "gone" \/ src.rebuilt
       /\ src.vol[Root] = "in-use" /\ dst.vm = "none" /\ lost = {}

\* The two clouds never both have a server of the VM, nor does the source have
\* two: neither run creates one before the other gave its own up (cutover.py:28).
NeverTwoServers ==
  /\ src.vm # "gone" => ~src.rebuilt
  /\ src.vm # "gone" \/ src.rebuilt => dst.vm = "none"

\* The destination has a volume in hand, and under whatever status, only after
\* the source was asked to let go of it and of its server, whichever run asked
\* (cutover.py:36); and the source does not take it back under its old id.
HandedOver ==
  \A v \in Volumes :
    dst.vol[v] # "absent" => src.vm = "gone" /\ src.vol[v] \in {"unmanaging", "gone"}

=============================================================================
