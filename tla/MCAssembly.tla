------------------------------ MODULE MCAssembly ------------------------------
(* Small instances of Assembly for TLC: a root and a data volume on two      *)
(* exports, one NIC, two flavors, and the VMs and destinations that differ   *)
(* in what the assembly asks of them.                                        *)
EXTENDS Assembly, TLC

CONSTANTS root, data, e1, e2, nic, f1, f2

Whole == [attached |-> <<data, root>>, root |-> root, bootable |-> {root},
          shows |-> "device", export |-> (root :> e1 @@ data :> e2),
          nics |-> {nic}, specs |-> TRUE, same |-> f1, dot |-> TRUE,
          tells |-> TRUE, admin |-> TRUE]

\* A root volume that Nova shows; one whose flag it does not show; one that nothing tells from another; one
\* without the flag and with a flavor of unknown size, which only Cinder's flag
\* tells; and a VM booted from an image, with a volume, and without one or the role.
MCVMs ==
  {Whole, [Whole EXCEPT !.tells = FALSE], [Whole EXCEPT !.shows = "nothing", !.bootable = {root, data}],
   [Whole EXCEPT !.shows = "nothing", !.dot = FALSE, !.specs = FALSE],
   [Whole EXCEPT !.attached = <<data>>, !.root = None, !.bootable = {}],
   [Whole EXCEPT !.attached = <<>>, !.root = None, !.admin = FALSE]}

Ready == [up |-> TRUE, mounts |-> {e1}, fits |-> {nic}, flavors |-> {f1}]

MCDestinations ==
  {Ready, [Ready EXCEPT !.up = FALSE], [Ready EXCEPT !.mounts = {e2}],
   [Ready EXCEPT !.fits = {}, !.flavors = {f2}]}

MCBodies == {[override |-> None, maps |-> {nic}], [override |-> f2, maps |-> {nic}]}
AnyFault == {"refused", "timeout", "crash"}
=============================================================================
