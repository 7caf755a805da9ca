------------------------------- MODULE Clouds -------------------------------
(***************************************************************************)
(* The two OpenStack clouds as the migration POD sees them: Nova, Cinder   *)
(* and Neutron of the source and of the destination, which share one       *)
(* storage array.  The state is what the calls of app/osclients can change *)
(* or observe; the operators give the effect of each call, and the actions *)
(* at the end are what the clouds do on their own after a call returned.   *)
(*                                                                         *)
(* Assumed of OpenStack, as the engine's code assumes it:                  *)
(*   - a call on a server or volume that no longer exists is refused;      *)
(*   - Cinder refuses to unmanage an attached volume (cutover.py:29);      *)
(*   - Nova refuses to boot from a volume Cinder does not hold available;  *)
(*   - manage gives the volume a NEW id and renames its file               *)
(*     (rollback.py:55); unmanage drops the record and keeps the file;     *)
(*   - Neutron refuses a second port with the fixed IP another one has on  *)
(*     the network, so an entry of the network map has one port at a time; *)
(*   - a detach, a delete of a server, an unmanage and a manage return     *)
(*     before their effect is complete.                                    *)
(***************************************************************************)
CONSTANTS
  Volumes,   \* the volumes attached to the VM before its first migration
  Root,      \* the boot volume (plan.root_volume_id)
  Nics,      \* the entries of plan.network_map
  Mids,      \* the migrations of the VM, which may overlap
  RootDot    \* delete_on_termination of the root volume before the migration

ASSUME CloudAssumption ==
  Root \in Volumes /\ RootDot \in BOOLEAN /\ "free" \notin Mids

VARIABLES
  src,   \* the source cloud
  dst,   \* the destination cloud
  lost   \* volumes whose data on the array has been deleted

cloudVars == <<src, dst, lost>>

(***************************************************************************)
(* src.vm      the original server                                         *)
(* src.dot     delete_on_termination of the root attachment                *)
(* src.vol[v]  Cinder's record of v under its original id                  *)
(* src.back    volumes managed again on the source, under NEW ids          *)
(* src.rebuilt the server a reverse migration creates                      *)
(* src.ports   ports a reverse migration creates                           *)
(* dst.ports   the migration that made the port of each NIC, or "free"     *)
(***************************************************************************)
SrcState == [vm : {"running", "stopped", "gone"},
             dot : BOOLEAN,
             vol : [Volumes -> {"in-use", "detaching", "available",
                                "unmanaging", "gone"}],
             back : SUBSET Volumes,
             rebuilt : BOOLEAN,
             ports : SUBSET Nics]

DstState == [vm : {"none", "building", "active", "error", "deleting", "gone"},
             dot : BOOLEAN,
             vol : [Volumes -> {"absent", "managing", "error", "available",
                                "in-use", "unmanaging", "released", "deleted"}],
             ports : [Nics -> Mids \cup {"free"}]]

CloudTypeOK == src \in SrcState /\ dst \in DstState /\ lost \in SUBSET Volumes

CloudInit ==
  /\ src = [vm |-> "running", dot |-> RootDot,
            vol |-> [v \in Volumes |-> "in-use"],
            back |-> {}, rebuilt |-> FALSE, ports |-> {}]
  /\ dst = [vm |-> "none", dot |-> FALSE,
            vol |-> [v \in Volumes |-> "absent"],
            ports |-> [n \in Nics |-> "free"]]
  /\ lost = {}

-----------------------------------------------------------------------------
(* Source calls: the state of the source after the call took effect.       *)

\* What Nova may list as attached to the source server: the volumes in use,
\* and any that are still being detached.
Listed(P) ==
  /\ \A v \in Volumes : src.vol[v] = "in-use" => v \in P
  /\ \A v \in P : src.vol[v] \in {"in-use", "detaching"}

Stopped(s) == [s EXCEPT !.vm = "stopped"]
Started(s) == [s EXCEPT !.vm = "running"]
Detached(s, v) == [s EXCEPT !.vol[v] = "detaching"]
Attached(s, v) == [s EXCEPT !.vol[v] = "in-use"]
\* Mutant: the flag is not written.
WithDotIgnored(s, b) == s
WithDot(s, b) == [s EXCEPT !.dot = b]

\* Mutant: the volumes are detached and the server is left.
DeletedNot(s) ==
  [s EXCEPT !.vol = [v \in Volumes |-> IF @[v] = "in-use" THEN "detaching"
                                       ELSE @[v]]]

\* Deleting the server detaches what is still attached, asynchronously.
Deleted(s) ==
  [s EXCEPT !.vm = "gone",
            !.vol = [v \in Volumes |-> IF @[v] = "in-use" THEN "detaching"
                                       ELSE @[v]]]

\* The volumes Nova deletes together with a server whose root attachment has
\* delete_on_termination = dot.  Data volumes never have the flag here.
DeletedWith(dot) == IF dot THEN {Root} ELSE {}

\* CinderOps.unmanage returns when the record is gone, and ALSO when its
\* attempts are spent, or a read of the status failed, and the record is still
\* there ("unmanaging"): CinderUnmanage has the loop, VolumeRelease this view.
Unmanaged(s, v, left) == [s EXCEPT !.vol[v] = left]

\* The file has the name of the destination's volume once the destination
\* managed it, whether or not it manages it still.
Renamed(v) == dst.vol[v] \in {"available", "in-use", "unmanaging", "released"}

\* manage by file name: Cinder finds the file only under its current name
\* (renamed tells which of the two names the caller passes).
Findable(v, renamed) == v \notin lost /\ renamed = Renamed(v)
Remanaged(s, v) == [s EXCEPT !.back = @ \cup {v}]

SourcePort(s, n) == [s EXCEPT !.ports = @ \cup {n}]

\* Booting a server from the original ids of the volumes P attaches them.
Bootable(P) == \A v \in P : src.vol[v] = "available"
Recreated(s, P) ==
  [s EXCEPT !.rebuilt = TRUE,
            !.vol = [v \in Volumes |-> IF v \in P THEN "in-use" ELSE @[v]]]

-----------------------------------------------------------------------------
(* Destination calls.                                                      *)

Managing(d, v) == [d EXCEPT !.vol[v] = "managing"]

\* Migration m makes the port of NIC n, or deletes the one it made.
Staged(d, n, m) == [d EXCEPT !.ports[n] = m]
Unstaged(d, n, m) == [d EXCEPT !.ports[n] = IF @ = m THEN "free" ELSE @]

DestBootable(P) == \A v \in P : dst.vol[v] = "available"
Created(d, dot, P) ==
  [d EXCEPT !.vm = "building", !.dot = dot,
            !.vol = [v \in Volumes |-> IF v \in P THEN "in-use" ELSE @[v]]]

Deleting(d) == [d EXCEPT !.vm = IF @ = "gone" THEN @ ELSE "deleting"]

Releasable(v) == dst.vol[v] \in {"available", "error"}
Releasing(d, v) == [d EXCEPT !.vol[v] = "unmanaging"]

-----------------------------------------------------------------------------
(* What the clouds do on their own.                                        *)

\* A detached volume becomes available some time later (cutover.py:29).  One
\* that Nova deletes with its server is gone instead, and its data with it.
SourceDetaches ==
  /\ \E v \in Volumes :
       /\ src.vol[v] = "detaching"
       /\ IF src.vm = "gone" /\ v \in DeletedWith(src.dot)
            THEN /\ src' = [src EXCEPT !.vol[v] = "gone"]
                 /\ lost' = lost \cup {v}
            ELSE /\ src' = [src EXCEPT !.vol[v] = "available"]
                 /\ UNCHANGED lost
  /\ UNCHANGED dst

\* An unmanage the caller gave up on may still finish.
SourceUnmanages ==
  /\ \E v \in Volumes : /\ src.vol[v] = "unmanaging"
                        /\ src' = [src EXCEPT !.vol[v] = "gone"]
  /\ UNCHANGED <<dst, lost>>

\* A manage on the destination settles, well or badly.
DestManages ==
  /\ \E v \in Volumes, s \in {"available", "error"} :
        /\ dst.vol[v] = "managing"
        /\ dst' = [dst EXCEPT !.vol[v] = s]
  /\ UNCHANGED <<src, lost>>

DestUnmanages ==
  /\ \E v \in Volumes : /\ dst.vol[v] = "unmanaging"
                        /\ dst' = [dst EXCEPT !.vol[v] = "released"]
  /\ UNCHANGED <<src, lost>>

DestBoots ==
  /\ dst.vm = "building"
  /\ \E s \in {"active", "error"} : dst' = [dst EXCEPT !.vm = s]
  /\ UNCHANGED <<src, lost>>

\* The destination server is gone: its volumes are detached, and Nova has
\* Cinder delete the root volume if the attachment's flag says so.
DestDeletes ==
  /\ dst.vm = "deleting"
  /\ dst' = [dst EXCEPT
       !.vm = "gone",
       !.vol = [v \in Volumes |->
                  IF @[v] # "in-use" THEN @[v]
                  ELSE IF v \in DeletedWith(dst.dot) THEN "deleted"
                  ELSE "available"]]
  /\ lost' = lost \cup DeletedWith(dst.dot)
  /\ UNCHANGED src

CloudStep == \/ SourceDetaches \/ SourceUnmanages
             \/ DestManages \/ DestUnmanages \/ DestBoots \/ DestDeletes

=============================================================================
