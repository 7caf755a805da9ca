---------------------------- MODULE AssemblyProofs ----------------------------
(***************************************************************************)
(* What a passed preflight says of the plan, and what a registration       *)
(* leaves behind, for any VMs, destinations, launches, failures and number *)
(* of changes.                                                             *)
(***************************************************************************)
EXTENDS Assembly, LeastElement

-----------------------------------------------------------------------------
(* The destination store.                                                  *)

\* Where the registration is says what is there of the two.
StoreInv ==
  /\ StoreTypeOK
  /\ reachable => resource
  /\ reg \in {"create", "replace", "resource"} => ~resource
  /\ reg = "create" => ~secret
  /\ reg \in {"replace", "cleanup"} => faults >= 1
  /\ reg \in {"resource", "registered"} => secret
  /\ reg = "registered" => resource
  /\ reg \in {"cleanup", "failed"} => (resource => unanswered)
  /\ reg = "failed" /\ faults <= 1 => ~secret
  /\ resource /\ ~unanswered => secret

LEMMA StoreInitially == StoreInit => StoreInv
<1> SUFFICES ASSUME StoreInit PROVE StoreInv
  OBVIOUS
<1>1. ~resource /\ ~secret /\ ~reachable /\ ~unanswered
  BY Zenon DEF StoreInit
<1>2. /\ resource \in BOOLEAN /\ secret \in BOOLEAN
      /\ reachable \in BOOLEAN /\ unanswered \in BOOLEAN
  BY Zenon DEF StoreInit
<1> QED
  BY <1>1, <1>2 DEF StoreInit, StoreInv, StoreTypeOK, Registering, RegEnded, MaxFaults

\* The three ways a call to Kubernetes ends.
Answered(r, s, next) ==
  /\ (resource' <=> r) /\ (secret' <=> s) /\ reg' = next
  /\ faults' = faults /\ (unanswered' <=> unanswered)
Unanswered(r, s, next) ==
  /\ (resource' <=> r) /\ (secret' <=> s) /\ reg' = next
  /\ faults' = Worse /\ (unanswered' <=> (unanswered \/ (r /\ ~resource)))
NotDone(can, next) ==
  /\ (resource' <=> resource) /\ (secret' <=> secret) /\ reg' = next
  /\ (can => faults' = Worse) /\ (~can => faults' = faults)
  /\ (unanswered' <=> unanswered)
Effect(can, r, s, onward, otherwise) ==
  /\ resource' \in BOOLEAN /\ secret' \in BOOLEAN /\ unanswered' \in BOOLEAN
  /\ \/ can /\ Answered(r, s, onward)
     \/ can /\ Unanswered(r, s, otherwise)
     \/ NotDone(can, otherwise)

LEMMA KubeEffect ==
  ASSUME StoreTypeOK, NEW can, NEW r \in BOOLEAN, NEW s \in BOOLEAN,
         NEW onward, NEW otherwise, Kube(can, r, s, onward, otherwise)
  PROVE  Effect(can, r, s, onward, otherwise)
<1>1. /\ resource \in BOOLEAN /\ secret \in BOOLEAN /\ unanswered \in BOOLEAN
  BY DEF StoreTypeOK
<1>2. ASSUME can, resource' = r, secret' = s, reg' = onward,
             UNCHANGED <<faults, unanswered>>
      PROVE  Effect(can, r, s, onward, otherwise)
  BY <1>1, <1>2, Zenon DEF Effect, Answered
<1>3. ASSUME can, resource' = r, secret' = s, reg' = otherwise, faults' = Worse,
             unanswered' = (unanswered \/ (r /\ ~resource))
      PROVE  Effect(can, r, s, onward, otherwise)
  BY <1>1, <1>3, Zenon DEF Effect, Unanswered
<1>4. ASSUME reg' = otherwise, faults' = IF can THEN Worse ELSE faults,
             UNCHANGED <<resource, secret, unanswered>>
      PROVE  Effect(can, r, s, onward, otherwise)
  BY <1>1, <1>4, Zenon DEF Effect, NotDone
<1> QED BY <1>2, <1>3, <1>4, Zenon DEF Kube

LEMMA StoreStep == StoreInv /\ [StoreNext]_storeVars => StoreInv'
<1> SUFFICES ASSUME StoreInv, [StoreNext]_storeVars PROVE StoreInv'
  OBVIOUS
<1>1. CASE Register
  <2>1. /\ StoreTypeOK /\ reachable' = reachable
        /\ resource \in BOOLEAN /\ secret \in BOOLEAN
        /\ TRUE \in BOOLEAN /\ FALSE \in BOOLEAN
    BY <1>1 DEF Register, StoreInv, StoreTypeOK
  <2> USE DEF StoreInv, StoreTypeOK, Registering, RegEnded, MaxFaults, Worse
  <2>2. CASE reg = "create"
    <3>1. Kube(TRUE, resource, TRUE, "resource", "replace")
      BY <1>1, <2>2 DEF Register
    <3>2. Effect(TRUE, resource, TRUE, "resource", "replace")
      BY <2>1, <3>1, KubeEffect, Zenon
    <3> QED BY <2>1, <2>2, <3>2 DEF Effect, Answered, Unanswered, NotDone
  <2>3. CASE reg = "replace"
    <3>1. Kube(secret, resource, secret, "resource", "failed")
      BY <1>1, <2>3 DEF Register
    <3>2. Effect(secret, resource, secret, "resource", "failed")
      BY <2>1, <3>1, KubeEffect, Zenon
    <3> QED BY <2>1, <2>3, <3>2 DEF Effect, Answered, Unanswered, NotDone
  <2>4. CASE reg = "resource"
    <3>1. Kube(TRUE, TRUE, secret, "registered", "cleanup")
      BY <1>1, <2>4 DEF Register
    <3>2. Effect(TRUE, TRUE, secret, "registered", "cleanup")
      BY <2>1, <3>1, KubeEffect, Zenon
    <3> QED BY <2>1, <2>4, <3>2 DEF Effect, Answered, Unanswered, NotDone
  <2>5. CASE reg = "cleanup"
    <3>1. Kube(TRUE, resource, FALSE, "failed", "failed")
      BY <1>1, <2>5 DEF Register
    <3>2. Effect(TRUE, resource, FALSE, "failed", "failed")
      BY <2>1, <3>1, KubeEffect, Zenon
    <3> QED BY <2>1, <2>5, <3>2 DEF Effect, Answered, Unanswered, NotDone
  <2> QED BY <1>1, <2>2, <2>3, <2>4, <2>5 DEF Register
<1> USE DEF StoreInv, StoreTypeOK, Registering, RegEnded, MaxFaults
<1>2. CASE Crash
  BY <1>2 DEF Crash
<1>3. CASE Test
  BY <1>3 DEF Test, Readable
<1>4. CASE UNCHANGED storeVars
  BY <1>4 DEF storeVars
<1> QED BY <1>1, <1>2, <1>3, <1>4 DEF StoreNext

LEMMA StoreAlone == Next => [StoreNext]_storeVars
BY DEF Next, Launch, Task, Change, storeVars

LEMMA StoreSafe == Spec => []StoreInv
<1>1. Init => StoreInv
  BY StoreInitially DEF Init
<1>2. StoreInv /\ [Next]_vars => StoreInv'
  <2>1. [Next]_vars => [StoreNext]_storeVars
    BY StoreAlone DEF vars
  <2> QED BY <2>1, StoreStep
<1> QED BY <1>1, <1>2, PTL DEF Spec

\* A listed destination has its credentials, whatever fails and whenever the
\* POD crashes, unless the answer to the creation of its resource was lost.
THEOREM ListedIsUsableHolds == Spec => []ListedIsUsable
<1>1. StoreInv => ListedIsUsable
  BY DEF StoreInv, ListedIsUsable, Readable
<1> QED BY <1>1, StoreSafe, PTL

\* A registration of which one call fails leaves all or nothing.
THEOREM RegistrationAllOrNothingHolds == Spec => []RegistrationAllOrNothing
<1>1. StoreInv => RegistrationAllOrNothing
  BY DEF StoreInv, RegistrationAllOrNothing, Readable
<1> QED BY <1>1, StoreSafe, PTL

-----------------------------------------------------------------------------
(* Types.                                                                  *)

Profiles == [attached : Seq(Volumes), root : Volumes \cup {None},
             backed : BOOLEAN, nics : SUBSET Nics, specs : Flavors \cup {None}]
Results == [root : Volumes \cup {None}, pool : Exports \cup {None},
            admin : BOOLEAN, dot : BOOLEAN, dotRead : BOOLEAN]
Got == [profile : Profiles, assessed : Profiles, reach : BOOLEAN,
        fits : SUBSET Nics, flavors : SUBSET Flavors,
        flavor : Flavors \cup {None}, res : [1 .. 2 -> Results]]

\* A profile is one of a VM, or none was read.
Known(p) == \E v \in VMs : p.attached = v.attached \/ p = NoProfile

TypeInv ==
  /\ StoreInv
  /\ vm \in VMs /\ cloud \in Destinations /\ body \in Bodies
  /\ changes \in 0 .. MaxChanges /\ step \in Steps /\ pass \in 1 .. 2
  /\ blind \in SUBSET Tags
  /\ got \in Got /\ Known(got.profile) /\ Known(got.assessed)

\* The guess is an attached volume, and a bootable one if there is any.
LEMMA GuessAttached ==
  ASSUME NEW v \in VMState, NEW B, v.attached # <<>>
  PROVE  /\ Guess(v, B) \in Attached(v)
         /\ B \cap Attached(v) # {} => Guess(v, B) \in B \cap Attached(v)
<1> DEFINE a == v.attached
           I == {i \in DOMAIN a : a[i] \in B}
<1>1. a \in Seq(Volumes) /\ a # <<>>
  BY DEF VMState
<1>2. DOMAIN a = 1 .. Len(a) /\ Len(a) \in Nat /\ 1 \in DOMAIN a /\ I \subseteq Nat
  BY <1>1
<1>3. CASE B \cap Attached(v) = {}
  BY <1>1, <1>2, <1>3 DEF Guess, Attached
<1>4. CASE B \cap Attached(v) # {}
  <2>1. I # {}
    BY <1>4 DEF Attached
  <2>2. \E i \in I : \A j \in I : i <= j
    BY <1>2, <2>1, Least
  <2>3. \E i \in DOMAIN a : a[i] \in B /\ \A j \in DOMAIN a : a[j] \in B => i <= j
    BY <2>2
  <2>4. PICK i \in DOMAIN a : a[i] \in B /\ Guess(v, B) = a[i]
    BY <1>1, <1>4, <2>3 DEF Guess
  <2> QED BY <2>4 DEF Attached
<1> QED BY <1>3, <1>4

\* What is taken for the root volume is a volume, or None.
LEMMA RootTyped ==
  ASSUME NEW v \in VMState, NEW failed
  PROVE  RootFound(v, failed) \in Volumes \cup {None}
<1>1. v.root \in Volumes \cup {None} /\ Attached(v) \subseteq Volumes
  BY DEF VMState, Attached
<1>2. \A B : Guess(v, B) \in Volumes \cup {None}
  <2> SUFFICES ASSUME NEW B PROVE Guess(v, B) \in Volumes \cup {None}
    OBVIOUS
  <2>1. CASE v.attached = <<>>
    BY <2>1 DEF Guess
  <2>2. CASE v.attached # <<>>
    BY <1>1, <2>2, GuessAttached
  <2> QED BY <2>1, <2>2
<1> QED BY <1>1, <1>2 DEF RootFound

\* Whatever reads of it fail, what is taken for the root volume is attached.
LEMMA RootAttached ==
  ASSUME NEW v \in VMs, NEW failed, RootFound(v, failed) # None
  PROVE  RootFound(v, failed) \in Attached(v)
<1>1. v \in VMState /\ (v.root # None => v.root \in Attached(v))
  BY AssemblyAssumption DEF Attached
<1> DEFINE B == IF "volumes" \in failed THEN {} ELSE v.bootable
<1>2. CASE RootFound(v, failed) = v.root
  BY <1>1, <1>2
<1>3. CASE RootFound(v, failed) = Guess(v, B)
  <2>1. v.attached # <<>>
    BY <1>3 DEF Guess
  <2> HIDE DEF B
  <2> QED BY <1>1, <1>3, <2>1, GuessAttached
<1> QED BY <1>2, <1>3 DEF RootFound

\* A root volume that shows is found when no read of it fails, whatever way of
\* finding it is taken (connections.py:152-177).
LEMMA RootFoundRight ==
  ASSUME NEW v \in VMs, v.root # None, Detectable(v)
  PROVE  RootFound(v, {}) = v.root
<1>1. v \in VMState /\ v.root \in Attached(v) /\ v.attached # <<>>
  BY AssemblyAssumption DEF Attached, VMState
<1>2. CASE v.shows = "nothing"
  <2>1. v.bootable \cap Attached(v) = {v.root}
    BY <1>2 DEF Detectable
  <2>2. Guess(v, v.bootable) = v.root
    BY <1>1, <2>1, GuessAttached
  <2> QED BY <1>2, <2>2 DEF RootFound
<1>3. CASE v.shows # "nothing"
  BY <1>1, <1>3 DEF RootFound, VMState
<1> QED BY <1>2, <1>3

LEMMA ProfileTyped ==
  ASSUME NEW v \in VMs, NEW failed
  PROVE  Profile(v, failed) \in Profiles /\ Known(Profile(v, failed))
<1>1. v \in VMState
  BY AssemblyAssumption
<1> QED BY <1>1, RootTyped DEF Profile, Profiles, Known, VMState

LEMMA TypeInitially == Init => TypeInv
<1> SUFFICES ASSUME Init PROVE TypeInv
  OBVIOUS
<1>1. StoreInv
  BY StoreInitially DEF Init
<1>2. NoProfile \in Profiles /\ NoResult \in Results
  BY DEF NoProfile, NoResult, Profiles, Results
<1>3. got \in Got
  BY <1>2 DEF Init, Got
<1>4. Known(got.profile) /\ Known(got.assessed)
  BY DEF Init, Known
<1> QED
  BY <1>1, <1>3, <1>4, AssemblyAssumption DEF Init, TypeInv, Steps, Ends

\* What a step of the task leaves as it was.
LEMMA TaskFrame ==
  ASSUME TypeInv, Task
  PROVE  /\ UNCHANGED <<storeVars, vm, cloud, body, changes>>
         /\ StoreInv' /\ vm \in VMState /\ cloud \in CloudState /\ body \in Body
         /\ vm' \in VMs /\ cloud' \in Destinations /\ body' \in Bodies
         /\ changes' \in 0 .. MaxChanges
<1>1. UNCHANGED <<storeVars, vm, cloud, body, changes>>
  BY DEF Task, envVars
<1>2. StoreInv'
  BY <1>1, StoreStep DEF TypeInv
<1> QED BY <1>1, <1>2, AssemblyAssumption DEF TypeInv

\* One field of what was read, replaced by a value of its type.
LEMMA GotFields ==
  ASSUME NEW g \in Got, NEW i \in 1 .. 2
  PROVE  /\ \A p \in Profiles : [g EXCEPT !.profile = p] \in Got
         /\ \A p \in Profiles : [g EXCEPT !.assessed = p] \in Got
         /\ [g EXCEPT !.reach = TRUE] \in Got
         /\ \A F \in SUBSET Nics, G \in SUBSET Flavors :
              [g EXCEPT !.fits = F, !.flavors = G] \in Got
         /\ \A f \in Flavors \cup {None} : [g EXCEPT !.flavor = f] \in Got
         /\ \A r \in Volumes \cup {None} : [g EXCEPT !.res[i].root = r] \in Got
         /\ \A e \in Exports \cup {None} : [g EXCEPT !.res[i].pool = e] \in Got
         /\ \A r \in Results : [g EXCEPT !.res[i] = r] \in Got
BY DEF Got, Results

\* The flags as they are read are flags.
LEMMA FlagsTyped ==
  ASSUME NEW r \in Results, NEW failed, vm \in VMState
  PROVE  FlagsRead(r, failed) \in Results
<1>1. /\ RoleRead(failed) \in BOOLEAN /\ ("dot" \notin failed) \in BOOLEAN
      /\ (ShownDot(r.root) /\ "dot" \notin failed) \in BOOLEAN
  BY Zenon DEF RoleRead
<1> QED BY <1>1 DEF FlagsRead, Results

LEMMA TaskType == TypeInv /\ Task => TypeInv'
<1> SUFFICES ASSUME TypeInv, Task PROVE TypeInv'
  OBVIOUS
<1> DEFINE Blinds == SUBSET Tags
           Good == /\ step' \in Steps /\ pass' \in 1 .. 2 /\ blind' \in Blinds
                   /\ got' \in Got /\ Known(got'.profile) /\ Known(got'.assessed)
<1>0. /\ got \in Got /\ Known(got.profile) /\ Known(got.assessed)
      /\ pass \in 1 .. 2 /\ blind \in Blinds
  BY DEF TypeInv
<1>a. \A i \in 1 .. 2 : got.res[i] \in Results
  BY <1>0 DEF Got
<1> SUFFICES Good
  BY TaskFrame DEF TypeInv, Known
<1> HIDE DEF Blinds
<1>b. /\ \A failed : blind \cup RootBlind(failed) \in Blinds
      /\ blind \cup {"authorize"} \in Blinds
      /\ \A failed \in SUBSET Asked : blind \cup Tagged(failed) \cup Missed(failed) \in Blinds
  BY <1>0 DEF Blinds, Tags, RootBlind, Tagged, Missed, Asked
<1> USE DEF Steps, Ends
<1>1. CASE ReadToken \/ Connect \/ Clients
  BY <1>0, <1>1 DEF ReadToken, Connect, Clients, Fetch, Keep
<1>2. CASE ReadProfile
  <2>1. PICK failed \in Absorbable :
          /\ Fetch("profile", TRUE, [got EXCEPT !.profile = Profile(vm, failed)], "assess")
          /\ blind' = blind \cup RootBlind(failed) /\ UNCHANGED pass
    BY <1>2 DEF ReadProfile
  <2>2. Profile(vm, failed) \in Profiles /\ Known(Profile(vm, failed))
    BY ProfileTyped DEF TypeInv
  <2>3. /\ [got EXCEPT !.profile = Profile(vm, failed)] \in Got
        /\ [got EXCEPT !.profile = Profile(vm, failed)].profile = Profile(vm, failed)
        /\ [got EXCEPT !.profile = Profile(vm, failed)].assessed = got.assessed
    BY <1>0, <2>2, GotFields DEF Got
  <2> QED BY <1>0, <1>b, <2>1, <2>2, <2>3 DEF Fetch
<1>3. CASE Assess
  <2>1. Profile(vm, {}) \in Profiles /\ Known(Profile(vm, {}))
    BY ProfileTyped DEF TypeInv
  <2>2. /\ [got EXCEPT !.assessed = Profile(vm, {})] \in Got
        /\ [got EXCEPT !.assessed = Profile(vm, {})].assessed = Profile(vm, {})
        /\ [got EXCEPT !.assessed = Profile(vm, {})].profile = got.profile
    BY <1>0, <2>1, GotFields DEF Got
  <2> QED BY <1>0, <1>3, <2>1, <2>2 DEF Assess, Fetch, Keep
<1>4. CASE Authorize
  <2>1. /\ [got EXCEPT !.reach = TRUE] \in Got
        /\ [got EXCEPT !.reach = TRUE].profile = got.profile
        /\ [got EXCEPT !.reach = TRUE].assessed = got.assessed
    BY <1>0, GotFields DEF Got
  <2> QED BY <1>0, <1>b, <1>4, <2>1 DEF Authorize
<1>5. CASE Catalog
  <2> DEFINE g == [got EXCEPT !.fits = cloud.fits, !.flavors = cloud.flavors]
  <2>1. cloud.fits \in SUBSET Nics /\ cloud.flavors \in SUBSET Flavors
    BY TaskFrame DEF CloudState
  <2>2. g \in Got /\ g.profile = got.profile /\ g.assessed = got.assessed
    BY <1>0, <2>1, GotFields DEF Got
  <2> QED BY <1>0, <1>5, <2>2 DEF Catalog, Fetch, Keep
<1>6. CASE Source
  <2> DEFINE g(f) == [got EXCEPT !.res[pass].root = RootFound(vm, f)]
  <2>1. PICK failed \in Absorbable :
          /\ Fetch("source", RootFound(vm, failed) # None, g(failed), "dest")
          /\ blind' = blind \cup RootBlind(failed) /\ UNCHANGED pass
    BY <1>6 DEF Source
  <2>2. g(failed) \in Got
    BY <1>0, TaskFrame, RootTyped, GotFields
  <2>3. g(failed).profile = got.profile /\ g(failed).assessed = got.assessed
    BY <1>0 DEF Got
  <2> QED BY <1>0, <1>b, <2>1, <2>2, <2>3 DEF Fetch
<1>7. CASE Dest
  <2> DEFINE e == vm.export[got.res[pass].root]
             pool == IF e \in cloud.mounts THEN e ELSE None
             g == [got EXCEPT !.res[pass].pool = pool]
  <2>1. pool \in Exports \cup {None}
    BY TaskFrame DEF CloudState
  <2>2. g \in Got /\ g.profile = got.profile /\ g.assessed = got.assessed
    <3> HIDE DEF pool
    <3> QED BY <1>0, <2>1, GotFields DEF Got
  <2>3. Fetch("dest", Readable /\ cloud.up, g, "flags") /\ Keep
    BY <1>7 DEF Dest
  <2> HIDE DEF g
  <2> QED BY <1>0, <2>2, <2>3 DEF Fetch, Keep
<1>8. CASE Flags
  <2> DEFINE g(f) == [got EXCEPT !.res[pass] = FlagsRead(got.res[pass], f)]
  <2>1. PICK failed \in SUBSET Asked :
          got' = g(failed) /\ blind' = blind \cup Tagged(failed) \cup Missed(failed)
    BY <1>8 DEF Flags
  <2>2. FlagsRead(got.res[pass], failed) \in Results
    BY <1>0, <1>a, FlagsTyped, TaskFrame
  <2>3. /\ g(failed) \in Got
        /\ g(failed).profile = got.profile /\ g(failed).assessed = got.assessed
    BY <1>0, <2>2, GotFields DEF Got
  <2>4. step' \in {"match", "clients"} /\ pass' = pass
    BY <1>8 DEF Flags
  <2> QED BY <1>0, <1>b, <2>1, <2>3, <2>4
<1>9. CASE Match
  <2> DEFINE g(f) == [got EXCEPT !.flavor = f]
  <2>1. /\ step' \in Steps /\ pass' = 2 /\ UNCHANGED blind
        /\ got' = got \/ \E f \in Flavors \cup {None} : got' = g(f)
    <3>1. body.override \in Flavors \cup {None}
      BY TaskFrame DEF Body
    <3>2. MatchFlavor(cloud.flavors, got.profile.specs) \in Flavors \cup {None}
      BY TaskFrame DEF MatchFlavor, CloudState
    <3> QED BY <1>9, <3>1, <3>2 DEF Match, Fetch
  <2>2. \A f \in Flavors \cup {None} :
          /\ g(f) \in Got
          /\ g(f).profile = got.profile /\ g(f).assessed = got.assessed
    BY <1>0, GotFields DEF Got
  <2>3. got' \in Got /\ got'.profile = got.profile /\ got'.assessed = got.assessed
    <3>1. CASE got' = got
      BY <1>0, <3>1
    <3>2. CASE \E f \in Flavors \cup {None} : got' = g(f)
      <4> PICK f \in Flavors \cup {None} : got' = g(f)
        BY <3>2
      <4> QED BY <2>2
    <3> QED BY <2>1, <3>1, <3>2
  <2> HIDE DEF g
  <2> QED BY <1>0, <2>1, <2>3
<1> QED
  BY <1>1, <1>2, <1>3, <1>4, <1>5, <1>6, <1>7, <1>8, <1>9 DEF Task

LEMMA TypeStep == TypeInv /\ [Next]_vars => TypeInv'
<1> SUFFICES ASSUME TypeInv, [Next]_vars PROVE TypeInv'
  OBVIOUS
<1>1. CASE StoreNext /\ UNCHANGED <<envVars, taskVars>>
  BY <1>1, StoreStep DEF TypeInv, envVars, taskVars, Known
<1>2. CASE Launch /\ UNCHANGED <<storeVars, envVars>>
  BY <1>2, StoreStep DEF Launch, TypeInv, envVars, Known, Steps, Ends
<1>3. CASE Task
  BY <1>3, TaskType
<1>4. CASE Change
  <2>1. StoreInv'
    BY <1>4, StoreStep DEF Change, TypeInv
  <2>2. changes' \in 0 .. MaxChanges
    <3>1. MaxChanges \in Nat
      BY AssemblyAssumption
    <3>2. changes \in 0 .. MaxChanges /\ changes < MaxChanges /\ changes' = changes + 1
      BY <1>4 DEF Change, TypeInv
    <3> QED BY <3>1, <3>2
  <2>3. vm' \in VMs /\ cloud' \in Destinations /\ body' \in Bodies
    BY <1>4 DEF Change, TypeInv
  <2>4. UNCHANGED <<step, pass, blind, got>>
    BY <1>4 DEF Change, taskVars
  <2> QED BY <2>1, <2>2, <2>3, <2>4 DEF TypeInv, Known
<1>5. CASE UNCHANGED vars
  BY <1>5, StoreStep DEF vars, TypeInv, envVars, taskVars, Known
<1> QED BY <1>1, <1>2, <1>3, <1>4, <1>5 DEF Next

LEMMA Typed == Spec => []TypeInv
BY TypeInitially, TypeStep, PTL DEF Spec

\* Every variable keeps its type, whatever fails and whatever changes.
THEOREM AssemblyTypeCorrect == Spec => []TypeOK
<1>1. TypeInv => TypeOK
  BY DEF TypeInv, StoreInv, TypeOK, Got, Profiles, Results, ProfileOK, Known
<1> QED BY <1>1, Typed, PTL

-----------------------------------------------------------------------------
(* What was read, and what it says once it has been.                       *)

Assessing == {"idle", "token", "profile", "assess", "connect", "authorize", "catalog"}

\* A read that failed and was absorbed left the value that blocks.
BlindInv ==
  /\ "authorize" \in blind => ~got.reach
  /\ "admin" \in blind => ~got.res[1].admin
  /\ "dot" \in blind => ~got.res[1].dotRead
  /\ step \in Assessing \ {"catalog"} => "authorize" \notin blind /\ ~got.reach
  /\ step \in Assessing \cup {"match"} => pass = 1
  /\ step \in {"clients", "verdict"} => pass = 2
  /\ pass = 1 /\ step \in Assessing \cup {"source", "dest", "flags"}
       => "admin" \notin blind /\ "dot" \notin blind

\* Has resolution i found the root volume, and the pool?
RootKnown(i) ==
  i < pass \/ (i = pass /\ step \in {"dest", "flags", "match", "clients", "verdict"})
PoolKnown(i) ==
  i < pass \/ (i = pass /\ step \in {"flags", "match", "clients", "verdict"})

Mounted(e) == IF e \in cloud.mounts THEN e ELSE None
FlavorOf(specs) ==
  IF body.override # None \/ specs = None THEN body.override
  ELSE MatchFlavor(cloud.flavors, specs)

ProfileInv ==
  /\ step \in Steps \ {"idle", "token", "profile", "raised"} /\ "root" \notin blind
       => got.profile = Profile(vm, {})
  /\ step \in Steps \ {"idle", "token", "profile", "assess", "raised"}
       => got.assessed = Profile(vm, {})
  /\ got.fits \subseteq cloud.fits /\ got.flavors \subseteq cloud.flavors

ResolverInv ==
  \A i \in 1 .. 2 :
    /\ RootKnown(i) /\ "root" \notin blind => got.res[i].root = RootFound(vm, {})
    /\ PoolKnown(i) => got.res[i].pool = Mounted(vm.export[got.res[i].root])

PlanInv ==
  /\ step \in {"clients", "verdict"} /\ "dot again" \notin blind
       => (got.res[2].dot <=> ShownDot(got.res[2].root))
  /\ pass = 2 /\ step # "raised" => got.flavor = FlavorOf(got.profile.specs)

\* What was taken for the root is attached, so its flag shows if any does.
AttachedInv ==
  /\ \A i \in 1 .. 2 : RootKnown(i) => got.res[i].root \in Attached(vm)
  /\ "unseen" \in blind => ~vm.tells

\* While nothing changes, what was read is what there is.
FactsInv == changes = 0 => ProfileInv /\ ResolverInv /\ PlanInv /\ AttachedInv

-----------------------------------------------------------------------------
(* A passed preflight was read.                                            *)

\* The fields of what was read, after one of them was replaced.
LEMMA GotAfter ==
  ASSUME NEW g \in Got, NEW i \in 1 .. 2
  PROVE  /\ \A p : LET h == [g EXCEPT !.profile = p]
                 IN  /\ h.profile = p /\ h.assessed = g.assessed
                     /\ h.reach = g.reach /\ h.fits = g.fits
                     /\ h.flavors = g.flavors /\ h.flavor = g.flavor /\ h.res = g.res
         /\ \A p : LET h == [g EXCEPT !.assessed = p]
                 IN  /\ h.assessed = p /\ h.profile = g.profile
                     /\ h.reach = g.reach /\ h.fits = g.fits
                     /\ h.flavors = g.flavors /\ h.flavor = g.flavor /\ h.res = g.res
         /\ LET h == [g EXCEPT !.reach = TRUE]
            IN  /\ h.assessed = g.assessed /\ h.profile = g.profile
                /\ h.fits = g.fits
                /\ h.flavors = g.flavors /\ h.flavor = g.flavor /\ h.res = g.res
         /\ \A F, G : LET h == [g EXCEPT !.fits = F, !.flavors = G]
                    IN  /\ h.assessed = g.assessed /\ h.profile = g.profile
                        /\ h.reach = g.reach /\ h.fits = F
                        /\ h.flavors = G /\ h.flavor = g.flavor /\ h.res = g.res
         /\ \A f : LET h == [g EXCEPT !.flavor = f]
                 IN  /\ h.assessed = g.assessed /\ h.profile = g.profile
                     /\ h.reach = g.reach /\ h.fits = g.fits
                     /\ h.flavors = g.flavors /\ h.flavor = f /\ h.res = g.res
         /\ \A r : LET h == [g EXCEPT !.res[i] = r]
                 IN  /\ h.assessed = g.assessed /\ h.profile = g.profile
                     /\ h.reach = g.reach /\ h.fits = g.fits
                     /\ h.flavors = g.flavors /\ h.flavor = g.flavor
                     /\ h.res[i] = r
                     /\ \A j \in (1 .. 2) \ {i} : h.res[j] = g.res[j]
BY DEF Got

\* Replacing a field of a resolution replaces the resolution.
LEMMA ResultAfter ==
  ASSUME NEW g \in Got, NEW i \in 1 .. 2, NEW x
  PROVE  /\ [g EXCEPT !.res[i].root = x]
              = [g EXCEPT !.res[i] = [g.res[i] EXCEPT !.root = x]]
         /\ [g EXCEPT !.res[i].pool = x]
              = [g EXCEPT !.res[i] = [g.res[i] EXCEPT !.pool = x]]
BY DEF Got

LEMMA ResultFields ==
  ASSUME NEW r \in Results, NEW x
  PROVE  /\ LET q == [r EXCEPT !.root = x]
            IN  /\ q.root = x /\ q.pool = r.pool /\ q.admin = r.admin
                /\ q.dot = r.dot /\ q.dotRead = r.dotRead
         /\ LET q == [r EXCEPT !.pool = x]
            IN  /\ q.pool = x /\ q.root = r.root /\ q.admin = r.admin
                /\ q.dot = r.dot /\ q.dotRead = r.dotRead
         /\ \A failed :
              LET q == FlagsRead(r, failed)
              IN  /\ q.root = r.root /\ q.pool = r.pool
                  /\ q.admin = RoleRead(failed)
                  /\ q.dotRead = ("dot" \notin failed)
                  /\ q.dot = (ShownDot(r.root) /\ "dot" \notin failed)
BY DEF Results, FlagsRead

\* The resolver's three steps, as far as the two resolutions go.
Others == \A j \in (1 .. 2) \ {pass} : got'.res[j] = got.res[j]
SameFacts ==
  /\ got'.profile = got.profile /\ got'.assessed = got.assessed
  /\ got'.reach = got.reach /\ got'.fits = got.fits
  /\ got'.flavors = got.flavors /\ got'.flavor = got.flavor

LEMMA SourceReads ==
  ASSUME TypeInv, Source
  PROVE  \/ step' = "raised" /\ UNCHANGED <<got, pass>>
            /\ blind \subseteq blind' /\ blind' \subseteq blind \cup {"root"}
         \/ /\ step = "source" /\ step' = "dest" /\ UNCHANGED pass
            /\ blind \subseteq blind' /\ blind' \subseteq blind \cup {"root"}
            /\ SameFacts /\ Others
            /\ got'.res[pass].admin = got.res[pass].admin
            /\ got'.res[pass].dotRead = got.res[pass].dotRead
            /\ "root" \notin blind' => got'.res[pass].root = RootFound(vm, {})
            /\ got'.res[pass].root # None
            /\ \E failed : got'.res[pass].root = RootFound(vm, failed)
<1> DEFINE r == got.res[pass]
           q(x) == [r EXCEPT !.root = x]
<1>0. got \in Got /\ pass \in 1 .. 2 /\ r \in Results
  BY DEF TypeInv, Got
<1>1. PICK failed \in Absorbable :
        /\ Fetch("source", RootFound(vm, failed) # None,
                 [got EXCEPT !.res[pass].root = RootFound(vm, failed)], "dest")
        /\ blind' = blind \cup RootBlind(failed) /\ UNCHANGED pass
  BY DEF Source
<1>2. /\ blind \subseteq blind' /\ blind' \subseteq blind \cup {"root"}
      /\ "root" \notin blind' => failed = {}
  BY <1>1 DEF RootBlind
<1>3. CASE step' = "raised" /\ UNCHANGED got
  BY <1>1, <1>2, <1>3
<1>4. CASE got' = [got EXCEPT !.res[pass].root = RootFound(vm, failed)] /\ step' = "dest"
  <2>1. got' = [got EXCEPT !.res[pass] = q(RootFound(vm, failed))]
    BY <1>0, <1>4, ResultAfter
  <2>2. SameFacts /\ Others /\ got'.res[pass] = q(RootFound(vm, failed))
    <3> HIDE DEF q
    <3> QED BY <1>0, <2>1, GotAfter DEF SameFacts, Others
  <2>3. /\ got'.res[pass].root = RootFound(vm, failed)
        /\ got'.res[pass].admin = r.admin /\ got'.res[pass].dotRead = r.dotRead
    BY <1>0, <2>2, ResultFields
  <2> QED BY <1>1, <1>2, <1>4, <2>2, <2>3 DEF Fetch
<1> QED BY <1>1, <1>3, <1>4 DEF Fetch

LEMMA DestReads ==
  ASSUME TypeInv, Dest
  PROVE  /\ UNCHANGED <<blind, pass>>
         /\ \/ step' = "raised" /\ UNCHANGED got
            \/ /\ step = "dest" /\ step' = "flags" /\ SameFacts /\ Others
               /\ got'.res[pass].root = got.res[pass].root
               /\ got'.res[pass].admin = got.res[pass].admin
               /\ got'.res[pass].dotRead = got.res[pass].dotRead
               /\ got'.res[pass].pool = Mounted(vm.export[got.res[pass].root])
<1> DEFINE r == got.res[pass]
           m == Mounted(vm.export[r.root])
           q == [r EXCEPT !.pool = m]
<1>0. got \in Got /\ pass \in 1 .. 2 /\ r \in Results
  BY DEF TypeInv, Got
<1>1. Fetch("dest", Readable /\ cloud.up, [got EXCEPT !.res[pass].pool = m], "flags") /\ Keep
  BY DEF Dest, Mounted
<1> HIDE DEF m
<1>2. CASE step' = "raised" /\ UNCHANGED got
  BY <1>1, <1>2 DEF Keep
<1>3. CASE got' = [got EXCEPT !.res[pass].pool = m] /\ step' = "flags"
  <2>1. got' = [got EXCEPT !.res[pass] = q]
    BY <1>0, <1>3, ResultAfter
  <2>2. SameFacts /\ Others /\ got'.res[pass] = q
    <3> HIDE DEF q
    <3> QED BY <1>0, <2>1, GotAfter DEF SameFacts, Others
  <2>3. /\ q.pool = m /\ q.root = r.root
        /\ q.admin = r.admin /\ q.dotRead = r.dotRead
    BY <1>0, ResultFields
  <2> QED BY <1>1, <1>3, <2>2, <2>3 DEF Fetch, Keep, m
<1> QED BY <1>1, <1>2, <1>3 DEF Fetch

\* What the flags say once they were read for the preflight, and for the plan.
FirstRead ==
  /\ "admin" \in blind' => "admin" \in blind \/ ~got'.res[1].admin
  /\ "dot" \in blind' => "dot" \in blind \/ ~got'.res[1].dotRead
SecondRead ==
  /\ blind' \subseteq blind \cup {"dot again", "unseen"}
  /\ "dot again" \notin blind'
       => (got'.res[2].dot <=> ShownDot(got.res[2].root))

LEMMA FlagsReads ==
  ASSUME TypeInv, Flags
  PROVE  /\ step = "flags" /\ step' = IF pass = 1 THEN "match" ELSE "clients"
         /\ UNCHANGED pass /\ SameFacts /\ Others
         /\ got'.res[pass].root = got.res[pass].root
         /\ got'.res[pass].pool = got.res[pass].pool
         /\ blind \subseteq blind' /\ blind' \subseteq blind \cup {"admin", "dot", "dot again", "unseen"}
         /\ (pass = 1 => FirstRead) /\ (pass = 2 => SecondRead)
         /\ "unseen" \in blind' => "unseen" \in blind \/ Unseen(got.res[pass].root)
<1> DEFINE r == got.res[pass]
           q(f) == FlagsRead(r, f)
<1>0. got \in Got /\ pass \in 1 .. 2 /\ r \in Results
  BY DEF TypeInv, Got
<1>1. PICK failed \in SUBSET Asked :
        /\ got' = [got EXCEPT !.res[pass] = FlagsRead(@, failed)]
        /\ blind' = blind \cup Tagged(failed) \cup Missed(failed)
  BY DEF Flags
<1>m. /\ Missed(failed) \subseteq {"unseen"}
      /\ "unseen" \in Missed(failed) => Unseen(got.res[pass].root)
  BY DEF Missed
<1>2. got' = [got EXCEPT !.res[pass] = q(failed)]
  BY <1>0, <1>1 DEF Got
<1>3. SameFacts /\ Others /\ got'.res[pass] = q(failed)
  <2> HIDE DEF q
  <2> QED BY <1>0, <1>2, GotAfter DEF SameFacts, Others
<1>4. /\ q(failed).root = r.root /\ q(failed).pool = r.pool
      /\ q(failed).admin = RoleRead(failed)
      /\ q(failed).dotRead = ("dot" \notin failed)
      /\ q(failed).dot = (ShownDot(r.root) /\ "dot" \notin failed)
  BY <1>0, ResultFields
<1>b. step = "flags" /\ step' = (IF pass = 1 THEN "match" ELSE "clients") /\ UNCHANGED pass
  BY DEF Flags
<1>c. got'.res[pass].root = got.res[pass].root /\ got'.res[pass].pool = got.res[pass].pool
  BY <1>3, <1>4
<1> HIDE DEF q, r
<1>5. CASE pass = 1
  <2>1. Tagged(failed) = failed /\ failed \subseteq {"admin", "dot"}
    BY <1>5 DEF Tagged, Asked
  <2>2. "admin" \in failed => ~q(failed).admin
    BY <1>4, Zenon DEF RoleRead
  <2>3. "dot" \in failed => ~q(failed).dotRead
    BY <1>4, Zenon
  <2>4. "admin" \in blind' => "admin" \in blind \/ ~got'.res[1].admin
    BY <1>1, <1>3, <1>5, <1>m, <2>1, <2>2
  <2>5. "dot" \in blind' => "dot" \in blind \/ ~got'.res[1].dotRead
    BY <1>1, <1>3, <1>5, <1>m, <2>1, <2>3
  <2>6. blind \subseteq blind' /\ blind' \subseteq blind \cup {"admin", "dot", "dot again", "unseen"}
    BY <1>1, <1>m, <2>1
  <2>7. FirstRead
    BY <2>4, <2>5 DEF FirstRead
  <2>8. pass # 2
    BY <1>5
  <2>9. "unseen" \in blind' => "unseen" \in blind \/ Unseen(got.res[pass].root)
    BY <1>1, <1>m, <2>1
  <2> QED BY <1>3, <1>b, <1>c, <2>6, <2>7, <2>8, <2>9, Zenon
<1>6. CASE pass = 2
  <2>1. failed = {} \/ failed = {"dot"}
    <3>1. failed \subseteq {"dot"}
      BY <1>1, <1>6 DEF Asked
    <3> QED BY <3>1
  <2>2. Tagged(failed) \subseteq {"dot again"} /\ (failed # {} => "dot again" \in Tagged(failed))
    <3>1. CASE failed = {}
      BY <3>1 DEF Tagged
    <3>2. CASE failed = {"dot"}
      <4>1. ~(pass = 1 \/ failed = {})
        BY <1>6, <3>2
      <4>2. Tagged(failed) = {"dot again"}
        BY <4>1, Zenon DEF Tagged
      <4> QED BY <4>2
    <3> QED BY <2>1, <3>1, <3>2
  <2>3. failed = {} => q(failed).dot = ShownDot(r.root)
    <3> SUFFICES ASSUME failed = {} PROVE q(failed).dot = ShownDot(r.root)
      OBVIOUS
    <3>1. "dot" \notin failed
      OBVIOUS
    <3>2. (ShownDot(r.root) /\ "dot" \notin failed) = ShownDot(r.root)
      BY <3>1, Zenon DEF ShownDot
    <3> QED BY <1>4, <3>2, Zenon
  <2>4. /\ blind \subseteq blind' /\ blind' \subseteq blind \cup {"dot again", "unseen"}
        /\ "dot again" \notin blind' => failed = {}
    BY <1>1, <1>m, <2>2
  <2>5. "dot again" \notin blind' => got'.res[2].dot = ShownDot(got.res[2].root)
    BY <1>3, <1>6, <2>3, <2>4 DEF r
  <2>6. SecondRead
    BY <2>4, <2>5, Zenon DEF SecondRead
  <2>7. pass # 1
    BY <1>6
  <2>8. blind' \subseteq blind \cup {"admin", "dot", "dot again", "unseen"}
    BY <2>4
  <2>9. "unseen" \in blind' => "unseen" \in blind \/ Unseen(got.res[pass].root)
    BY <1>1, <1>m, <2>2
  <2> QED BY <1>3, <1>b, <1>c, <2>4, <2>6, <2>7, <2>8, <2>9, Zenon
<1>7. pass = 1 \/ pass = 2
  BY <1>0
<1> QED BY <1>5, <1>6, <1>7, Zenon

\* The other reads, each of which replaces a field of what was read.
Raised == step' = "raised" /\ UNCHANGED got

LEMMA ProfileReads ==
  ASSUME TypeInv, ReadProfile
  PROVE  /\ UNCHANGED pass /\ blind \subseteq blind' /\ blind' \subseteq blind \cup {"root"}
         /\ \/ Raised
            \/ /\ step = "profile" /\ step' = "assess"
               /\ "root" \notin blind' => got'.profile = Profile(vm, {})
               /\ got'.reach = got.reach /\ got'.fits = got.fits
               /\ got'.flavors = got.flavors /\ got'.res = got.res
<1>0. got \in Got
  BY DEF TypeInv
<1>1. PICK failed \in Absorbable :
        /\ Fetch("profile", TRUE, [got EXCEPT !.profile = Profile(vm, failed)], "assess")
        /\ blind' = blind \cup RootBlind(failed) /\ UNCHANGED pass
  BY DEF ReadProfile
<1>2. /\ blind \subseteq blind' /\ blind' \subseteq blind \cup {"root"}
      /\ "root" \notin blind' => failed = {}
  BY <1>1 DEF RootBlind
<1>3. CASE Raised
  BY <1>1, <1>2, <1>3
<1>4. CASE /\ step = "profile" /\ step' = "assess"
           /\ got' = [got EXCEPT !.profile = Profile(vm, failed)]
  BY <1>0, <1>1, <1>2, <1>4, GotAfter
<1> QED BY <1>1, <1>3, <1>4 DEF Fetch, Raised

LEMMA AssessReads ==
  ASSUME TypeInv, Assess
  PROVE  /\ UNCHANGED <<pass, blind>>
         /\ \/ Raised
            \/ /\ step = "assess" /\ step' = "connect"
               /\ got'.assessed = Profile(vm, {}) /\ got'.profile = got.profile
               /\ got'.reach = got.reach /\ got'.fits = got.fits
               /\ got'.flavors = got.flavors /\ got'.res = got.res
<1>0. got \in Got
  BY DEF TypeInv
<1>1. /\ UNCHANGED <<pass, blind>>
      /\ \/ Raised
         \/ /\ step = "assess" /\ step' = "connect"
            /\ got' = [got EXCEPT !.assessed = Profile(vm, {})]
  BY DEF Assess, Fetch, Keep, Raised
<1>2. CASE Raised
  BY <1>1, <1>2
<1>3. CASE got' = [got EXCEPT !.assessed = Profile(vm, {})]
  <2> DEFINE h == [got EXCEPT !.assessed = Profile(vm, {})]
  <2>1. /\ h.assessed = Profile(vm, {}) /\ h.profile = got.profile
        /\ h.reach = got.reach /\ h.fits = got.fits
        /\ h.flavors = got.flavors /\ h.res = got.res
    BY <1>0, GotAfter
  <2> QED BY <1>1, <1>3, <2>1
<1> QED BY <1>1, <1>2, <1>3

LEMMA CatalogReads ==
  ASSUME TypeInv, Catalog
  PROVE  /\ UNCHANGED <<pass, blind>>
         /\ \/ Raised
            \/ /\ step = "catalog" /\ step' = "source"
               /\ got'.fits = cloud.fits /\ got'.flavors = cloud.flavors
               /\ got'.profile = got.profile /\ got'.assessed = got.assessed
               /\ got'.reach = got.reach /\ got'.res = got.res
<1>0. got \in Got
  BY DEF TypeInv
<1>1. /\ UNCHANGED <<pass, blind>>
      /\ \/ Raised
         \/ /\ step = "catalog" /\ step' = "source"
            /\ got' = [got EXCEPT !.fits = cloud.fits, !.flavors = cloud.flavors]
  BY DEF Catalog, Fetch, Keep, Raised
<1>2. CASE Raised
  BY <1>1, <1>2
<1>3. CASE got' = [got EXCEPT !.fits = cloud.fits, !.flavors = cloud.flavors]
  <2> DEFINE h == [got EXCEPT !.fits = cloud.fits, !.flavors = cloud.flavors]
  <2>1. /\ h.fits = cloud.fits /\ h.flavors = cloud.flavors
        /\ h.profile = got.profile /\ h.assessed = got.assessed
        /\ h.reach = got.reach /\ h.res = got.res
    BY <1>0, GotAfter
  <2> QED BY <1>1, <1>3, <2>1
<1> QED BY <1>1, <1>2, <1>3

LEMMA AuthorizeReads ==
  ASSUME TypeInv, Authorize
  PROVE  /\ UNCHANGED pass /\ step = "authorize"
         /\ \/ step' = "catalog" /\ UNCHANGED blind
            \/ step' = "source" /\ UNCHANGED got /\ blind' = blind \cup {"authorize"}
         /\ got'.profile = got.profile /\ got'.assessed = got.assessed
         /\ got'.fits = got.fits /\ got'.flavors = got.flavors /\ got'.res = got.res
<1>0. got \in Got
  BY DEF TypeInv
<1>1. /\ UNCHANGED pass /\ step = "authorize"
      /\ \/ step' = "catalog" /\ UNCHANGED blind /\ got' = [got EXCEPT !.reach = TRUE]
         \/ step' = "source" /\ UNCHANGED got /\ blind' = blind \cup {"authorize"}
  BY DEF Authorize
<1>2. CASE UNCHANGED got
  BY <1>1, <1>2
<1>3. CASE got' = [got EXCEPT !.reach = TRUE]
  <2> DEFINE h == [got EXCEPT !.reach = TRUE]
  <2>1. /\ h.profile = got.profile /\ h.assessed = got.assessed
        /\ h.fits = got.fits /\ h.flavors = got.flavors /\ h.res = got.res
    BY <1>0, GotAfter
  <2> QED BY <1>1, <1>3, <2>1
<1> QED BY <1>1, <1>2, <1>3

LEMMA MatchReads ==
  ASSUME TypeInv, Match
  PROVE  /\ step = "match" /\ pass' = 2 /\ UNCHANGED blind
         /\ \/ Raised
            \/ /\ step' = "source"
               /\ got'.flavor = FlavorOf(got.profile.specs)
               /\ got'.profile = got.profile /\ got'.assessed = got.assessed
               /\ got'.reach = got.reach /\ got'.fits = got.fits
               /\ got'.flavors = got.flavors /\ got'.res = got.res
<1>0. got \in Got
  BY DEF TypeInv
<1>1. /\ step = "match" /\ pass' = 2 /\ UNCHANGED blind
      /\ \/ Raised
         \/ /\ step' = "source"
            /\ got' = [got EXCEPT !.flavor = FlavorOf(got.profile.specs)]
  BY DEF Match, Fetch, Raised, FlavorOf
<1>2. CASE Raised
  BY <1>1, <1>2
<1>3. CASE got' = [got EXCEPT !.flavor = FlavorOf(got.profile.specs)]
  <2> DEFINE h == [got EXCEPT !.flavor = FlavorOf(got.profile.specs)]
  <2>1. /\ h.flavor = FlavorOf(got.profile.specs)
        /\ h.profile = got.profile /\ h.assessed = got.assessed
        /\ h.reach = got.reach /\ h.fits = got.fits
        /\ h.flavors = got.flavors /\ h.res = got.res
    BY <1>0, GotAfter
  <2> QED BY <1>1, <1>3, <2>1
<1> QED BY <1>1, <1>2, <1>3

LEMMA BlindInitially == Init => BlindInv
BY DEF Init, BlindInv, Assessing, NoResult

LEMMA BlindTask == TypeInv /\ BlindInv /\ Task => BlindInv'
<1> SUFFICES ASSUME TypeInv, BlindInv, Task PROVE BlindInv'
  OBVIOUS
<1>0. pass \in 1 .. 2 /\ step \in Steps
  BY DEF TypeInv
<1> USE DEF BlindInv, Assessing, Raised
<1>1. CASE ReadToken \/ Connect \/ Clients
  BY <1>0, <1>1 DEF ReadToken, Connect, Clients, Fetch, Keep
<1>2. CASE ReadProfile
  BY <1>0, <1>2, ProfileReads
<1>3. CASE Assess
  BY <1>0, <1>3, AssessReads
<1>4. CASE Authorize
  BY <1>0, <1>4, AuthorizeReads
<1>5. CASE Catalog
  BY <1>0, <1>5, CatalogReads
<1>6. CASE Source
  BY <1>0, <1>6, SourceReads DEF SameFacts, Others
<1>7. CASE Dest
  BY <1>0, <1>7, DestReads DEF SameFacts, Others
<1>8. CASE Flags
  <2>1. SameFacts /\ Others /\ (pass = 1 => FirstRead) /\ (pass = 2 => SecondRead)
    BY <1>8, FlagsReads, Zenon
  <2>2. /\ step = "flags" /\ UNCHANGED pass /\ blind \subseteq blind'
        /\ step' = (IF pass = 1 THEN "match" ELSE "clients")
        /\ blind' \subseteq blind \cup {"admin", "dot", "dot again", "unseen"}
    BY <1>8, FlagsReads, Zenon
  <2>3. "authorize" \in blind' => ~got'.reach
    BY <2>1, <2>2 DEF SameFacts
  <2>4. CASE pass = 1
    <3>1. FirstRead
      BY <2>1, <2>4, Zenon
    <3> QED BY <2>2, <2>3, <2>4, <3>1 DEF FirstRead
  <2>5. CASE pass = 2
    <3>1. blind' \subseteq blind \cup {"dot again", "unseen"}
      BY <2>1, <2>5, Zenon DEF SecondRead
    <3>2. \A j \in (1 .. 2) \ {pass} : got'.res[j] = got.res[j]
      BY <2>1, Zenon DEF Others
    <3>3. got'.res[1] = got.res[1]
      BY <2>5, <3>2
    <3> QED BY <2>2, <2>3, <2>5, <3>1, <3>3
  <2> QED BY <1>0, <2>4, <2>5
<1>9. CASE Match
  BY <1>0, <1>9, MatchReads
<1> QED
  BY <1>1, <1>2, <1>3, <1>4, <1>5, <1>6, <1>7, <1>8, <1>9 DEF Task

LEMMA BlindSafe == Spec => [](TypeInv /\ BlindInv)
<1>1. TypeInv /\ BlindInv /\ [Next]_vars => BlindInv'
  <2> SUFFICES ASSUME TypeInv, BlindInv, [Next]_vars PROVE BlindInv'
    OBVIOUS
  <2>1. CASE UNCHANGED taskVars
    BY <2>1 DEF taskVars, BlindInv
  <2>2. CASE Launch /\ UNCHANGED <<storeVars, envVars>>
    BY <2>2 DEF Launch, BlindInv, Assessing
  <2>3. CASE Task
    BY <2>3, BlindTask
  <2> QED BY <2>1, <2>2, <2>3 DEF Next, Change, vars
<1> QED BY <1>1, BlindInitially, Typed, PTL DEF Spec

-----------------------------------------------------------------------------
(* A passed preflight is about the plan.                                   *)

\* What each step of the task keeps true, since it leaves the VM, the clouds and
\* the launch body alone.
LEMMA ProfileTask == TypeInv /\ BlindInv /\ ProfileInv /\ Task => ProfileInv'
<1> SUFFICES ASSUME TypeInv, BlindInv, ProfileInv, Task PROVE ProfileInv'
  OBVIOUS
<1>0. step \in Steps /\ vm' = vm /\ cloud' = cloud
  BY TaskFrame DEF TypeInv
<1> USE DEF ProfileInv, Raised, Steps, Ends
<1>1. CASE ReadToken \/ Connect \/ Clients
  BY <1>0, <1>1 DEF ReadToken, Connect, Clients, Fetch, Keep
<1>2. CASE ReadProfile
  BY <1>0, <1>2, ProfileReads
<1>3. CASE Assess
  BY <1>0, <1>3, AssessReads
<1>4. CASE Authorize
  BY <1>0, <1>4, AuthorizeReads
<1>5. CASE Catalog
  BY <1>0, <1>5, CatalogReads
<1>6. CASE Source
  BY <1>0, <1>6, SourceReads DEF SameFacts
<1>7. CASE Dest
  BY <1>0, <1>7, DestReads DEF SameFacts
<1>8. CASE Flags
  <2>1. SameFacts
    BY <1>8, FlagsReads, Zenon
  <2>2. /\ step = "flags" /\ blind \subseteq blind'
        /\ step' = (IF pass = 1 THEN "match" ELSE "clients")
    BY <1>8, FlagsReads, Zenon
  <2> QED BY <1>0, <2>1, <2>2 DEF SameFacts
<1>9. CASE Match
  BY <1>0, <1>9, MatchReads
<1> QED
  BY <1>1, <1>2, <1>3, <1>4, <1>5, <1>6, <1>7, <1>8, <1>9 DEF Task

LEMMA ResolverTask == TypeInv /\ BlindInv /\ ResolverInv /\ Task => ResolverInv'
<1> SUFFICES ASSUME TypeInv, BlindInv, ResolverInv, Task, NEW i \in 1 .. 2
             PROVE  /\ (RootKnown(i) /\ "root" \notin blind
                           => got.res[i].root = RootFound(vm, {}))'
                    /\ (PoolKnown(i)
                           => got.res[i].pool = Mounted(vm.export[got.res[i].root]))'
  BY DEF ResolverInv
<1>0. /\ step \in Steps /\ pass \in 1 .. 2 /\ vm' = vm /\ cloud' = cloud
      /\ step \in Assessing \cup {"match"} => pass = 1
      /\ RootKnown(i) /\ "root" \notin blind => got.res[i].root = RootFound(vm, {})
      /\ PoolKnown(i) => got.res[i].pool = Mounted(vm.export[got.res[i].root])
  BY TaskFrame DEF TypeInv, BlindInv, ResolverInv
<1> USE DEF Raised, RootKnown, PoolKnown, Mounted, Assessing
<1>1. CASE ReadToken \/ Connect \/ Clients
  BY <1>0, <1>1 DEF ReadToken, Connect, Clients, Fetch, Keep
<1>2. CASE ReadProfile
  BY <1>0, <1>2, ProfileReads
<1>3. CASE Assess
  BY <1>0, <1>3, AssessReads
<1>4. CASE Authorize
  BY <1>0, <1>4, AuthorizeReads
<1>5. CASE Catalog
  BY <1>0, <1>5, CatalogReads
<1>6. CASE Source
  BY <1>0, <1>6, SourceReads DEF Others
<1>7. CASE Dest
  BY <1>0, <1>7, DestReads DEF Others
<1>8. CASE Flags
  <2>1. \A j \in (1 .. 2) \ {pass} : got'.res[j] = got.res[j]
    BY <1>8, FlagsReads, Zenon DEF Others
  <2>2. /\ step = "flags" /\ blind \subseteq blind' /\ pass' = pass
        /\ step' = (IF pass = 1 THEN "match" ELSE "clients")
        /\ got'.res[pass].root = got.res[pass].root
        /\ got'.res[pass].pool = got.res[pass].pool
    BY <1>8, FlagsReads, Zenon
  <2> QED BY <1>0, <2>1, <2>2
<1>9. CASE Match
  BY <1>0, <1>9, MatchReads
<1> QED
  BY <1>1, <1>2, <1>3, <1>4, <1>5, <1>6, <1>7, <1>8, <1>9 DEF Task

LEMMA PlanTask == TypeInv /\ BlindInv /\ PlanInv /\ Task => PlanInv'
<1> SUFFICES ASSUME TypeInv, BlindInv, PlanInv, Task PROVE PlanInv'
  OBVIOUS
<1>0. /\ step \in Steps /\ pass \in 1 .. 2
      /\ vm' = vm /\ cloud' = cloud /\ body' = body
      /\ step \in Assessing \cup {"match"} => pass = 1
  BY TaskFrame DEF TypeInv, BlindInv
<1>a. ASSUME step' \notin {"clients", "verdict"}, pass' # 2 \/ step' = "raised"
      PROVE  PlanInv'
  BY <1>a DEF PlanInv
<1>b. ASSUME pass = 1, step' \notin {"clients", "verdict"}, pass' = pass
      PROVE  PlanInv'
  BY <1>a, <1>b
<1> USE DEF Raised, Assessing
<1>1. CASE ReadToken \/ Connect \/ Clients
  BY <1>0, <1>1 DEF ReadToken, Connect, Clients, Fetch, Keep, PlanInv, FlavorOf,
                     ShownDot, Unseen, Attached
<1>2. CASE ReadProfile
  <2>1. step' = "raised" \/ (pass = 1 /\ pass' = pass /\ step' \notin {"clients", "verdict"})
    BY <1>0, <1>2, ProfileReads
  <2> QED BY <1>a, <1>b, <2>1
<1>3. CASE Assess
  <2>1. step' = "raised" \/ (pass = 1 /\ pass' = pass /\ step' \notin {"clients", "verdict"})
    BY <1>0, <1>3, AssessReads
  <2> QED BY <1>a, <1>b, <2>1
<1>4. CASE Authorize
  <2>1. step' = "raised" \/ (pass = 1 /\ pass' = pass /\ step' \notin {"clients", "verdict"})
    BY <1>0, <1>4, AuthorizeReads
  <2> QED BY <1>a, <1>b, <2>1
<1>5. CASE Catalog
  <2>1. step' = "raised" \/ (pass = 1 /\ pass' = pass /\ step' \notin {"clients", "verdict"})
    BY <1>0, <1>5, CatalogReads
  <2> QED BY <1>a, <1>b, <2>1
<1>6. CASE Source
  BY <1>0, <1>6, SourceReads DEF SameFacts, PlanInv, FlavorOf
<1>7. CASE Dest
  BY <1>0, <1>7, DestReads DEF SameFacts, PlanInv, FlavorOf
<1>8. CASE Flags
  <2>1. SameFacts
    BY <1>8, FlagsReads, Zenon
  <2>2. /\ step = "flags" /\ pass' = pass
        /\ step' = (IF pass = 1 THEN "match" ELSE "clients")
        /\ got'.res[pass].root = got.res[pass].root
    BY <1>8, FlagsReads, Zenon
  <2>3. pass = 2 /\ "dot again" \notin blind'
          => (got'.res[2].dot <=> ShownDot(got.res[2].root))
    BY <1>8, FlagsReads, Zenon DEF SecondRead
  <2>4. CASE pass = 1
    BY <1>b, <2>2, <2>4
  <2>5. CASE pass = 2
    <3>1. step' = "clients" /\ step # "raised"
      BY <2>2, <2>5
    <3>2. got'.flavor = got.flavor /\ got'.profile = got.profile
      BY <2>1 DEF SameFacts
    <3>3. got'.res[2].root = got.res[2].root
      BY <2>2, <2>5
    <3> QED BY <1>0, <2>2, <2>3, <2>5, <3>1, <3>2, <3>3
       DEF PlanInv, FlavorOf, ShownDot, Unseen, Attached
  <2> QED BY <1>0, <2>4, <2>5
<1>9. CASE Match
  BY <1>0, <1>9, MatchReads DEF PlanInv, FlavorOf
<1> QED
  BY <1>1, <1>2, <1>3, <1>4, <1>5, <1>6, <1>7, <1>8, <1>9 DEF Task

LEMMA AttachedTask == TypeInv /\ BlindInv /\ AttachedInv /\ Task => AttachedInv'
<1> SUFFICES ASSUME TypeInv, BlindInv, AttachedInv, Task PROVE AttachedInv'
  OBVIOUS
<1>0. /\ step \in Steps /\ pass \in 1 .. 2 /\ vm' = vm /\ vm \in VMs
      /\ step \in Assessing \cup {"match"} => pass = 1
  BY TaskFrame DEF TypeInv, BlindInv
<1> USE DEF Raised, RootKnown, Assessing, AttachedInv, Steps, Ends
<1>a. Attached(vm)' = Attached(vm)
  BY <1>0 DEF Attached
<1>1. CASE ReadToken \/ Connect \/ Clients
  BY <1>0, <1>a, <1>1 DEF ReadToken, Connect, Clients, Fetch, Keep
<1>2. CASE ReadProfile
  BY <1>0, <1>a, <1>2, ProfileReads
<1>3. CASE Assess
  BY <1>0, <1>a, <1>3, AssessReads
<1>4. CASE Authorize
  BY <1>0, <1>a, <1>4, AuthorizeReads
<1>5. CASE Catalog
  BY <1>0, <1>a, <1>5, CatalogReads
<1>6. CASE Source
  BY <1>0, <1>a, <1>6, SourceReads, RootAttached DEF Others
<1>7. CASE Dest
  BY <1>0, <1>a, <1>7, DestReads DEF Others
<1>8. CASE Flags
  <2>1. \A j \in (1 .. 2) \ {pass} : got'.res[j] = got.res[j]
    BY <1>8, FlagsReads, Zenon DEF Others
  <2>2. /\ step = "flags" /\ pass' = pass
        /\ step' = (IF pass = 1 THEN "match" ELSE "clients")
        /\ got'.res[pass].root = got.res[pass].root
        /\ "unseen" \in blind' => "unseen" \in blind \/ Unseen(got.res[pass].root)
    BY <1>8, FlagsReads, Zenon
  <2>3. got.res[pass].root \in Attached(vm)
    BY <1>0, <2>2
  <2>4. "unseen" \in blind' => ~vm'.tells
    BY <1>0, <2>2, <2>3 DEF Unseen
  <2> QED BY <1>0, <1>a, <2>1, <2>2, <2>4
<1>9. CASE Match
  BY <1>0, <1>a, <1>9, MatchReads
<1> QED
  BY <1>1, <1>2, <1>3, <1>4, <1>5, <1>6, <1>7, <1>8, <1>9 DEF Task

LEMMA FactsInitially == Init => FactsInv
<1> SUFFICES ASSUME Init PROVE ProfileInv /\ ResolverInv /\ PlanInv /\ AttachedInv
  BY DEF FactsInv
<1>1. ProfileInv /\ PlanInv
  BY DEF Init, ProfileInv, PlanInv
<1>2. ASSUME NEW i \in 1 .. 2 PROVE ~RootKnown(i) /\ ~PoolKnown(i)
  BY DEF Init, RootKnown, PoolKnown
<1>3. "unseen" \notin blind
  BY DEF Init
<1> QED BY <1>1, <1>2, <1>3 DEF ResolverInv, AttachedInv

LEMMA FactsStep == TypeInv /\ BlindInv /\ FactsInv /\ [Next]_vars => FactsInv'
<1> SUFFICES ASSUME TypeInv, BlindInv, FactsInv, [Next]_vars, changes' = 0
             PROVE  ProfileInv' /\ ResolverInv' /\ PlanInv' /\ AttachedInv'
  BY DEF FactsInv
<1>1. CASE UNCHANGED <<envVars, taskVars>>
  <2>1. UNCHANGED <<vm, cloud, body, changes, step, pass, blind, got>>
    BY <1>1 DEF envVars, taskVars
  <2>2. ProfileInv /\ ResolverInv /\ PlanInv /\ AttachedInv
    BY <2>1 DEF FactsInv
  <2>3. ProfileInv'
    BY <2>1, <2>2 DEF ProfileInv
  <2>4. ResolverInv'
    BY <2>1, <2>2 DEF ResolverInv, RootKnown, PoolKnown, Mounted
  <2>5. PlanInv'
    BY <2>1, <2>2 DEF PlanInv, FlavorOf, ShownDot, Unseen, Attached
  <2>6. AttachedInv'
    BY <2>1, <2>2 DEF AttachedInv, RootKnown, Attached
  <2> QED BY <2>3, <2>4, <2>5, <2>6
<1>2. CASE Launch /\ UNCHANGED <<storeVars, envVars>>
  <2>1. /\ UNCHANGED <<vm, cloud, body, changes, pass, blind, got>>
        /\ step = "idle" /\ step' = "token"
    BY <1>2 DEF Launch, envVars
  <2>2. ProfileInv /\ ResolverInv /\ PlanInv /\ AttachedInv /\ pass = 1
    BY <2>1 DEF FactsInv, BlindInv, Assessing
  <2>3. ProfileInv'
    BY <2>1, <2>2 DEF ProfileInv
  <2>4. ResolverInv'
    BY <2>1, <2>2 DEF ResolverInv, RootKnown, PoolKnown, Mounted
  <2>5. PlanInv'
    BY <2>1, <2>2 DEF PlanInv
  <2>6. AttachedInv'
    BY <2>1, <2>2 DEF AttachedInv, RootKnown, Attached
  <2> QED BY <2>3, <2>4, <2>5, <2>6
<1>3. CASE Task
  <2>1. ProfileInv /\ ResolverInv /\ PlanInv /\ AttachedInv
    BY <1>3, TaskFrame DEF FactsInv
  <2> QED BY <1>3, <2>1, ProfileTask, ResolverTask, PlanTask, AttachedTask
<1>4. CASE Change
  <2>1. MaxChanges \in Nat
    BY AssemblyAssumption
  <2>2. changes \in 0 .. MaxChanges /\ changes' = changes + 1
    BY <1>4 DEF Change, TypeInv
  <2> QED BY <2>1, <2>2
<1> QED BY <1>1, <1>2, <1>3, <1>4 DEF Next, vars

LEMMA FactsSafe == Spec => [](TypeInv /\ BlindInv /\ FactsInv)
BY FactsInitially, FactsStep, BlindSafe, PTL DEF Spec

LEMMA ProfileFields ==
  ASSUME NEW v \in VMs
  PROVE  /\ Profile(v, {}).attached = v.attached
         /\ Profile(v, {}).root = RootFound(v, {})
         /\ Profile(v, {}).nics = v.nics
         /\ Profile(v, {}).backed => v.root # None
<1> DEFINE b == v.attached # <<>> /\ v.root # None
           s == IF v.specs THEN v.same ELSE None
           r == RootFound(v, {})
           p == [attached |-> v.attached, root |-> r, backed |-> b,
                 nics |-> v.nics, specs |-> s]
<1>1. Profile(v, {}) = p
  BY Zenon DEF Profile
<1>2. b => v.root # None
  OBVIOUS
<1> HIDE DEF b, s, r
<1>3. p.attached = v.attached /\ p.root = r /\ p.nics = v.nics /\ p.backed = b
  OBVIOUS
<1> HIDE DEF p
<1>4. p.backed => v.root # None
  BY <1>2, <1>3, Zenon
<1> QED BY <1>1, <1>3, <1>4, Zenon DEF r

\* What a passed preflight knows, when nothing changed under it.
LEMMA PassedKnows ==
  ASSUME TypeInv, BlindInv, FactsInv, step = "verdict", Passed, changes = 0,
         "root" \notin blind
  PROVE  /\ got.profile = Profile(vm, {}) /\ got.assessed = Profile(vm, {})
         /\ vm \in VMs /\ vm \in VMState /\ vm.root # None
         /\ got.res[2].root = RootFound(vm, {})
         /\ vm.export[RootFound(vm, {})] \in cloud.mounts
         /\ got.res[2].pool = vm.export[RootFound(vm, {})]
         /\ got.res[2].pool # None
<1>1. ProfileInv /\ ResolverInv /\ pass = 2 /\ step \in Steps
  BY DEF FactsInv, BlindInv, TypeInv
<1>2. got.profile = Profile(vm, {}) /\ got.assessed = Profile(vm, {})
  BY <1>1 DEF ProfileInv
<1>3. vm \in VMs /\ vm \in VMState
  BY AssemblyAssumption DEF TypeInv
<1>4. vm.root # None
  BY <1>2, <1>3, ProfileFields DEF Passed
<1>5. ASSUME NEW i \in 1 .. 2
      PROVE  /\ got.res[i].root = RootFound(vm, {})
             /\ got.res[i].pool = Mounted(vm.export[RootFound(vm, {})])
  <2>1. RootKnown(i) /\ PoolKnown(i)
    BY <1>1 DEF RootKnown, PoolKnown
  <2> QED BY <1>1, <2>1 DEF ResolverInv
<1>6. got.res[1].pool # None
  BY DEF Passed
<1>7. 1 \in 1 .. 2 /\ 2 \in 1 .. 2
  OBVIOUS
<1>8. /\ got.res[2].root = RootFound(vm, {})
      /\ got.res[2].pool = Mounted(vm.export[RootFound(vm, {})])
      /\ Mounted(vm.export[RootFound(vm, {})]) # None
  BY <1>5, <1>6, <1>7
<1> QED BY <1>2, <1>3, <1>4, <1>8 DEF Mounted

\* The flavor of its plan.
LEMMA PassedFlavor ==
  ASSUME TypeInv, BlindInv, FactsInv, step = "verdict", Passed, changes = 0,
         "root" \notin blind
  PROVE  got.flavor # None /\ (body.override = None => got.flavor \in cloud.flavors)
                         /\ (body.override # None => got.flavor = body.override)
<1> DEFINE specs == Profile(vm, {}).specs
<1>1. got.profile.specs = specs /\ got.assessed.specs = specs
  BY PassedKnows
<1>2. got.flavor = FlavorOf(specs)
  <2>1. pass = 2 /\ PlanInv
    BY DEF FactsInv, BlindInv
  <2> QED BY <1>1, <2>1 DEF PlanInv
<1>3. None \notin Flavors /\ got.flavors \subseteq cloud.flavors /\ got.flavors \subseteq Flavors
  BY AssemblyAssumption DEF FactsInv, ProfileInv, TypeInv, Got
<1>4. FlavorMatch
  BY DEF Passed
<1> HIDE DEF specs
<1>5. CASE body.override # None
  BY <1>2, <1>5 DEF FlavorOf
<1>6. CASE body.override = None
  <2>1. specs \in got.flavors
    BY <1>1, <1>4, <1>6 DEF FlavorMatch, MatchFlavor
  <2>2. specs # None /\ specs \in cloud.flavors
    BY <1>3, <2>1
  <2> QED BY <1>2, <1>6, <2>2 DEF FlavorOf, MatchFlavor
<1> QED BY <1>5, <1>6

LEMMA FlagsBoolean ==
  ASSUME TypeInv PROVE got.res[2].dot \in BOOLEAN /\ vm.dot \in BOOLEAN
<1>1. got \in Got /\ vm \in VMState
  BY AssemblyAssumption DEF TypeInv
<1>2. got.res[2] \in Results
  BY <1>1 DEF Got
<1> QED BY <1>1, <1>2 DEF Results, VMState

\* A preflight never passes on a read that raised, although such a read does not
\* stop the assessment; and on a flag that nobody saw only if Nova shows none or
\* the volume left the VM meanwhile.
THEOREM PassedMeansReadHolds == Spec => []PassedMeansRead
<1>1. TypeInv /\ BlindInv /\ FactsInv => PassedMeansRead
  <2> SUFFICES ASSUME TypeInv, BlindInv, FactsInv, step = "verdict", Passed
               PROVE  /\ blind \cap {"authorize", "admin", "dot"} = {}
                      /\ "unseen" \in blind => changes > 0 \/ ~vm.tells
    BY DEF PassedMeansRead
  <2>1. blind \cap {"authorize", "admin", "dot"} = {}
    BY DEF TypeInv, BlindInv, Passed
  <2>2. ASSUME "unseen" \in blind, ~(changes > 0) PROVE ~vm.tells
    <3>1. changes = 0
      BY <2>2, AssemblyAssumption DEF TypeInv
    <3> QED BY <2>2, <3>1 DEF FactsInv, AttachedInv
  <2> QED BY <2>1, <2>2
<1> QED BY <1>1, FactsSafe, PTL

\* The plan of a passed preflight takes the VM as it is to a destination that
\* can take it, while nothing changed and the root volume shows.
THEOREM PassedPlanWorksHolds == Spec => []PassedPlanWorks
<1>1. TypeInv /\ BlindInv /\ FactsInv => PassedPlanWorks
  <2> SUFFICES ASSUME TypeInv, BlindInv, FactsInv,
                      step = "verdict", Passed, changes = 0, Detectable(vm), vm.tells,
                      blind \cap {"root", "dot again"} = {},
                      body.override \in cloud.flavors \cup {None}
               PROVE  /\ Plan.volumes = vm.attached /\ Plan.root = vm.root
                      /\ Plan.pool = vm.export[vm.root] /\ Plan.pool \in cloud.mounts
                      /\ Plan.flavor \in cloud.flavors /\ Plan.dot = vm.dot
                      /\ vm.nics \subseteq Plan.nics \cap cloud.fits
    BY DEF PassedPlanWorks
  <2>1. "root" \notin blind /\ "dot again" \notin blind
    OBVIOUS
  <2>2. RootFound(vm, {}) = vm.root
    BY <2>1, PassedKnows, RootFoundRight
  <2>3. Plan.volumes = vm.attached /\ Plan.root = vm.root
    BY <2>1, <2>2, PassedKnows, ProfileFields DEF Plan
  <2>4. Plan.pool = vm.export[vm.root] /\ Plan.pool \in cloud.mounts
    BY <2>1, <2>2, PassedKnows DEF Plan
  <2>5. Plan.flavor \in cloud.flavors
    BY <2>1, PassedFlavor DEF Plan
  <2>6. Plan.dot = vm.dot
    <3>1. got.res[2].dot <=> ShownDot(got.res[2].root)
      BY <2>1 DEF FactsInv, PlanInv
    <3>2. got.res[2].root = vm.root
      BY <2>1, <2>2, PassedKnows
    <3>6. vm.root \in Attached(vm)
      BY <2>1, PassedKnows, AssemblyAssumption DEF Attached
    <3>7. ShownDot(got.res[2].root) <=> vm.dot
      BY <3>2, <3>6, Zenon DEF ShownDot, Unseen
    <3>3. got.res[2].dot \in BOOLEAN /\ vm.dot \in BOOLEAN
      BY FlagsBoolean
    <3>4. got.res[2].dot <=> vm.dot
      BY <3>1, <3>7, Zenon
    <3>5. got.res[2].dot = vm.dot
      <4>1. CASE vm.dot
        BY <3>3, <3>4, <4>1
      <4>2. CASE ~vm.dot
        BY <3>3, <3>4, <4>2
      <4> QED BY <4>1, <4>2
    <3> QED BY <3>5 DEF Plan
  <2>7. vm.nics \subseteq Plan.nics \cap cloud.fits
    <3>1. got.assessed.nics = vm.nics
      BY <2>1, PassedKnows, ProfileFields
    <3>2. got.assessed.nics \subseteq got.fits \cap body.maps /\ got.fits \subseteq cloud.fits
      BY DEF Passed, NicsFit, FactsInv, ProfileInv
    <3> QED BY <3>1, <3>2 DEF Plan
  <2> QED BY <2>3, <2>4, <2>5, <2>6, <2>7
<1> QED BY <1>1, FactsSafe, PTL

\* A plan that a passed preflight leaves without a pool or a flavor comes from a
\* change between the two resolutions, or from a guess.
THEOREM IncompleteOnlyIfChangedHolds == Spec => []IncompleteOnlyIfChanged
<1>1. TypeInv /\ BlindInv /\ FactsInv => IncompleteOnlyIfChanged
  <2> SUFFICES ASSUME TypeInv, BlindInv, FactsInv, step = "verdict", Passed,
                      ~(changes > 0), "root" \notin blind
               PROVE  Plan.pool # None /\ Plan.flavor # None
    BY DEF IncompleteOnlyIfChanged
  <2>1. changes = 0
    <3>1. MaxChanges \in Nat /\ changes \in 0 .. MaxChanges
      BY AssemblyAssumption DEF TypeInv
    <3> QED BY <3>1
  <2> QED BY <2>1, PassedKnows, PassedFlavor DEF Plan
<1> QED BY <1>1, FactsSafe, PTL
=============================================================================
