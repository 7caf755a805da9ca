------------------------------- MODULE Assembly -------------------------------
(***************************************************************************)
(* How the background task of a migration comes to its plan and to the     *)
(* verdict of its preflight: engine/assembly.py, with the assessment       *)
(* (discovery.py, assess.py), the resolver (wiring.py) and the checks      *)
(* (preflight.py).  It reads the two clouds one fact after another, most   *)
(* of them more than once, while they change; the destination it needs may *)
(* still be being registered (DestinationStore).                           *)
(*                                                                         *)
(* A read either raises, which ends the assembly before run() is entered,  *)
(* or its failure is absorbed into a default; blind says which were.  The  *)
(* flag of a volume that Nova does not list, or lists without it, is read  *)
(* as off and nothing fails; that is "unseen" in blind.                    *)
(*                                                                         *)
(* Simplified: a server is read at one moment; the storage is its exports, *)
(* of which the destination mounts some (SharedBackend has the match); the *)
(* IPs of the launch body are those of the VM; quota, MACs and detachable  *)
(* volumes are left out, since assess passes them unread.                  *)
(***************************************************************************)
EXTENDS DestinationStore, Sequences

CONSTANTS
  Volumes, Exports, Nics, Flavors,
  None,           \* Python's None
  VMs,            \* what the VM may be
  Destinations,   \* what the destination cloud may be
  Bodies,         \* what may be launched
  MaxChanges      \* bound on the changes of the clouds

\* attached is in Nova's order; bootable are the volumes Cinder calls so;
\* shows is how Nova shows the root volume; root is None for a VM booted from
\* an image; export[v] is where v is stored; a data volume never has the flag
\* delete_on_termination; tells is whether Nova shows the flag at all, which it
\* does from microversion 2.79 on.
VMState == [attached : Seq(Volumes), root : Volumes \cup {None},
            bootable : SUBSET Volumes, shows : {"mapping", "device", "nothing"},
            export : [Volumes -> Exports], nics : SUBSET Nics,
            specs : BOOLEAN, same : Flavors, dot : BOOLEAN, tells : BOOLEAN,
            admin : BOOLEAN]

\* fits are the NICs whose mapped network has a subnet that holds their IP.
CloudState == [up : BOOLEAN, mounts : SUBSET Exports, fits : SUBSET Nics,
               flavors : SUBSET Flavors]

\* The flavor that was chosen, if any, and the NICs given a network.
Body == [override : Flavors \cup {None}, maps : SUBSET Nics]

ASSUME AssemblyAssumption ==
  /\ None \notin Volumes \cup Exports \cup Flavors
  /\ VMs \subseteq VMState /\ Destinations \subseteq CloudState
  /\ Bodies \subseteq Body /\ MaxChanges \in Nat
  /\ \A v \in VMs : v.root # None => \E i \in DOMAIN v.attached : v.attached[i] = v.root

VARIABLES
  vm, cloud, body,   \* the source VM, the destination, what was launched
  changes,           \* how often the clouds have changed
  step,              \* the next read
  pass,              \* which of its two runs the resolver is in
  blind,             \* reads that failed and were absorbed, or saw nothing
  got                \* what was read

envVars == <<vm, cloud, body, changes>>
taskVars == <<step, pass, blind, got>>
vars == <<storeVars, envVars, taskVars>>

Ends == {"verdict", "raised"}
Steps == {"idle", "token", "profile", "assess", "connect", "authorize",
          "catalog", "source", "dest", "flags", "match", "clients"} \cup Ends

Tags == {"root", "authorize", "admin", "dot", "dot again", "unseen"}

\* What one run of the resolver finds out.
NoResult == [root |-> None, pool |-> None, admin |-> FALSE,
             dot |-> FALSE, dotRead |-> FALSE]
NoProfile == [attached |-> <<>>, root |-> None, backed |-> FALSE,
              nics |-> {}, specs |-> None]

Init ==
  /\ StoreInit
  /\ vm \in VMs /\ cloud \in Destinations /\ body \in Bodies /\ changes = 0
  /\ step = "idle" /\ pass = 1 /\ blind = {}
  /\ got = [profile |-> NoProfile, assessed |-> NoProfile, reach |-> FALSE,
            fits |-> {}, flavors |-> {}, flavor |-> None,
            res |-> [i \in 1 .. 2 |-> NoResult]]

-----------------------------------------------------------------------------
(* What a read of the server says.                                         *)

Attached(v) == {v.attached[i] : i \in DOMAIN v.attached}

\* The first bootable volume, else the first of all.
Guess(v, B) ==
  IF v.attached = <<>> THEN None
  ELSE IF B \cap Attached(v) = {} THEN v.attached[1]
  ELSE v.attached[CHOOSE i \in DOMAIN v.attached :
                    /\ v.attached[i] \in B
                    /\ \A j \in DOMAIN v.attached : v.attached[j] \in B => i <= j]

\* Mutant: attached[0], without looking further.
RootFirst(v, failed) == IF v.attached = <<>> THEN None ELSE v.attached[1]

\* _root_volume, when the reads in failed failed: they are absorbed, and the
\* next way to find it is tried.
RootFound(v, failed) ==
  IF v.root # None /\ (v.shows = "mapping"
                       \/ (v.shows = "device" /\ "attachments" \notin failed))
    THEN v.root
  ELSE Guess(v, IF "volumes" \in failed THEN {} ELSE v.bootable)

\* Does the root volume show, whatever way is taken to find it?
Detectable(v) == v.shows # "nothing" \/ v.bootable \cap Attached(v) = {v.root}

Profile(v, failed) ==
  [attached |-> v.attached, root |-> RootFound(v, failed),
   backed |-> v.attached # <<>> /\ v.root # None, nics |-> v.nics,
   specs |-> IF v.specs THEN v.same ELSE None]

Absorbable == IF "refused" \in Faults THEN SUBSET {"attachments", "volumes"} ELSE {{}}
RootBlind(failed) == IF failed = {} THEN {} ELSE {"root"}

-----------------------------------------------------------------------------
(* The reads.                                                              *)

\* A read that raises: it can be done iff can, and leaves the task with g.
Fetch(here, can, g, next) ==
  /\ step = here
  /\ \/ can /\ got' = g /\ step' = next
     \/ (~can \/ "refused" \in Faults) /\ step' = "raised" /\ UNCHANGED got

Keep == UNCHANGED <<pass, blind>>

\* POST /migrations names a destination that is listed.
Launch == step = "idle" /\ resource /\ step' = "token" /\ UNCHANGED <<pass, blind, got>>

ReadToken == Fetch("token", TRUE, got, "profile") /\ Keep

ReadProfile ==
  \E failed \in Absorbable :
    /\ Fetch("profile", TRUE, [got EXCEPT !.profile = Profile(vm, failed)], "assess")
    /\ blind' = blind \cup RootBlind(failed) /\ UNCHANGED pass

\* assess reads a profile of its own; its root volume is not used.
Assess == Fetch("assess", TRUE, [got EXCEPT !.assessed = Profile(vm, {})], "connect") /\ Keep

Connect == Fetch("connect", Readable, got, "authorize") /\ Keep

\* A destination that cannot be reached has no networks and no flavors.
Authorize ==
  /\ step = "authorize"
  /\ \/ cloud.up /\ step' = "catalog" /\ got' = [got EXCEPT !.reach = TRUE]
        /\ UNCHANGED blind
     \/ (~cloud.up \/ "refused" \in Faults) /\ step' = "source" /\ UNCHANGED got
        /\ blind' = blind \cup {"authorize"}
  /\ UNCHANGED pass

Catalog ==
  /\ Fetch("catalog", cloud.up,
           [got EXCEPT !.fits = cloud.fits, !.flavors = cloud.flavors], "source")
  /\ Keep

-----------------------------------------------------------------------------
(* The resolver, run once for the preflight and once for the plan.         *)

\* A VM without volumes raises here.
Source ==
  \E failed \in Absorbable :
    LET r == RootFound(vm, failed)
    IN  /\ Fetch("source", r # None, [got EXCEPT !.res[pass].root = r], "dest")
        /\ blind' = blind \cup RootBlind(failed) /\ UNCHANGED pass

\* The destination's pool that mounts the export of the root volume.
Dest ==
  LET e == vm.export[got.res[pass].root]
  IN  /\ Fetch("dest", Readable /\ cloud.up,
               [got EXCEPT !.res[pass].pool = IF e \in cloud.mounts THEN e ELSE None],
               "flags")
      /\ Keep

\* The role as the second resolution finds it is not used.
Asked == IF pass = 1 THEN {"admin", "dot"} ELSE {"dot"}
Tagged(failed) == IF pass = 1 \/ failed = {} THEN failed ELSE {"dot again"}

\* _is_admin: a role that cannot be read is none.
RoleRead(failed) == vm.admin /\ "admin" \in Asked \ failed

\* ProdNova.attachment_dot: a volume that is not listed, or listed without the
\* flag, has it off; that it was missed goes unnoticed.
Unseen(v) == v \notin Attached(vm) \/ ~vm.tells
ShownDot(v) == ~Unseen(v) /\ v = vm.root /\ vm.dot
Missed(failed) ==
  IF "dot" \notin failed /\ Unseen(got.res[pass].root) THEN {"unseen"} ELSE {}

\* Mutants: a flag that cannot be read is taken for one that is off; or its
\* value is left unset.
FlagsAssumed(r, failed) ==
  [r EXCEPT !.admin = RoleRead(failed), !.dotRead = TRUE,
            !.dot = ShownDot(r.root) /\ "dot" \notin failed]
FlagsUnset(r, failed) ==
  [r EXCEPT !.admin = RoleRead(failed),
            !.dotRead = "dot" \notin failed,
            !.dot = IF "dot" \in failed THEN None ELSE ShownDot(r.root)]

\* The role, and delete_on_termination of the volume taken for the root; a
\* read that raises gives the value that blocks.
FlagsRead(r, failed) ==
  [r EXCEPT !.admin = RoleRead(failed),
            !.dotRead = "dot" \notin failed,
            !.dot = ShownDot(r.root) /\ "dot" \notin failed]

Flags ==
  /\ step = "flags"
  /\ \E failed \in SUBSET Asked :
       /\ failed = {} \/ "refused" \in Faults
       /\ got' = [got EXCEPT !.res[pass] = FlagsRead(@, failed)]
       /\ blind' = blind \cup Tagged(failed) \cup Missed(failed)
  /\ step' = IF pass = 1 THEN "match" ELSE "clients"
  /\ UNCHANGED pass

-----------------------------------------------------------------------------
(* The rest of assemble_runner.                                            *)

MatchFlavor(flavors, specs) == IF specs \in flavors THEN specs ELSE None

\* Mutant: the flavor of the same size is not looked up.
MatchForgotten ==
  /\ step = "match" /\ step' = "source"
  /\ got' = [got EXCEPT !.flavor = body.override]
  /\ pass' = 2 /\ UNCHANGED blind

\* The override, or the flavor of the same size, looked up once more.
Match ==
  /\ \/ /\ step = "match" /\ step' = "source"
        /\ body.override # None \/ got.profile.specs = None
        /\ got' = [got EXCEPT !.flavor = body.override]
     \/ /\ body.override = None /\ got.profile.specs # None
        /\ Fetch("match", Readable /\ cloud.up,
                 [got EXCEPT !.flavor = MatchFlavor(cloud.flavors, got.profile.specs)],
                 "source")
  /\ pass' = 2 /\ UNCHANGED blind

Clients == Fetch("clients", Readable, got, "verdict") /\ Keep

\* build_plan, with the launch body's NICs.
Plan == [volumes |-> got.profile.attached, root |-> got.profile.root,
         pool |-> got.res[2].pool, dot |-> got.res[2].dot,
         flavor |-> got.flavor, nics |-> body.maps]

\* score_profile: each NIC has a network with a subnet that holds its IP.
NicsFit == got.assessed.nics \subseteq got.fits \cap body.maps

FlavorMatch ==
  body.override # None \/ MatchFlavor(got.flavors, got.assessed.specs) # None

\* run_preflight, from the first resolution: P1 to P6 and P9.
Passed ==
  /\ got.res[1].admin /\ got.reach /\ got.assessed.backed
  /\ got.res[1].pool # None /\ FlavorMatch /\ NicsFit
  /\ got.res[1].dotRead

\* Anything may change under a task that has begun to read.
Change ==
  /\ step \notin {"idle", "token", "profile"} \cup Ends
  /\ changes < MaxChanges /\ changes' = changes + 1
  /\ \/ vm' \in VMs /\ UNCHANGED cloud
     \/ cloud' \in Destinations /\ UNCHANGED vm
  /\ UNCHANGED <<body, storeVars, taskVars>>

Task ==
  /\ \/ ReadToken \/ ReadProfile \/ Assess \/ Connect \/ Authorize \/ Catalog
     \/ Source \/ Dest \/ Flags \/ Match \/ Clients
  /\ UNCHANGED <<storeVars, envVars>>

Next == \/ StoreNext /\ UNCHANGED <<envVars, taskVars>>
        \/ Launch /\ UNCHANGED <<storeVars, envVars>>
        \/ Task \/ Change

Spec == Init /\ [][Next]_vars

-----------------------------------------------------------------------------
(* Properties.                                                             *)

ProfileOK(p) ==
  /\ \E v \in VMs : p.attached = v.attached \/ p = NoProfile
  /\ p.root \in Volumes \cup {None} /\ p.backed \in BOOLEAN
  /\ p.nics \in SUBSET Nics /\ p.specs \in Flavors \cup {None}

TypeOK ==
  /\ StoreTypeOK
  /\ vm \in VMs /\ cloud \in Destinations /\ body \in Bodies
  /\ changes \in 0 .. MaxChanges /\ step \in Steps /\ pass \in 1 .. 2
  /\ blind \in SUBSET Tags
  /\ ProfileOK(got.profile) /\ ProfileOK(got.assessed)
  /\ got.reach \in BOOLEAN /\ got.fits \in SUBSET Nics
  /\ got.flavors \in SUBSET Flavors /\ got.flavor \in Flavors \cup {None}
  /\ \A i \in 1 .. 2 :
       got.res[i] \in [root : Volumes \cup {None}, pool : Exports \cup {None},
                       admin : BOOLEAN, dot : BOOLEAN, dotRead : BOOLEAN]

\* Safe by default (discovery.py:56-59): a preflight never passes when a read of
\* the role, of the destination or of the flag raised, although none of those
\* failures stops the assessment.  The flag of a volume that Nova shows none for
\* passes for off (prod_clients.py:129-135, wiring.py:123-127), which takes a Nova
\* that never shows the flag, or a volume that left the VM after it was found.
PassedMeansRead ==
  step = "verdict" /\ Passed
    => /\ blind \cap {"authorize", "admin", "dot"} = {}
       /\ "unseen" \in blind => changes > 0 \/ ~vm.tells

\* A preflight that passed while nothing changed is about the plan that will be
\* carried out, although the facts of the two were read apart: the plan takes
\* every volume and the right root, into a pool that mounts its export, with a
\* flavor the destination has, the flag the volume has, and a network that fits
\* for each NIC.  Provided that the root volume shows or no read of it failed,
\* that the second resolution could read the flag too, and that a flavor chosen
\* by hand exists, and that Nova shows the flag of a volume it lists: nothing
\* checks these (assembly.py:26-38, wiring.py:120-129, prod_clients.py:133-135).
PassedPlanWorks ==
  /\ step = "verdict" /\ Passed /\ changes = 0
  /\ Detectable(vm) /\ vm.tells /\ blind \cap {"root", "dot again"} = {}
  /\ body.override \in cloud.flavors \cup {None}
  => /\ Plan.volumes = vm.attached /\ Plan.root = vm.root
     /\ Plan.pool = vm.export[vm.root] /\ Plan.pool \in cloud.mounts
     /\ Plan.flavor \in cloud.flavors /\ Plan.dot = vm.dot
     /\ vm.nics \subseteq Plan.nics \cap cloud.fits

\* The plan of a passed preflight lacks its pool or its flavor only if the
\* destination changed, or the root volume was guessed, between the reading for
\* the preflight and the reading for the plan (assembly.py:30-38).
IncompleteOnlyIfChanged ==
  step = "verdict" /\ Passed /\ (Plan.pool = None \/ Plan.flavor = None)
    => changes > 0 \/ "root" \in blind
=============================================================================
