---------------------------- MODULE SharedBackend ----------------------------
(***************************************************************************)
(* Where a volume is to be managed on the destination: the blueprints of   *)
(* the two clouds tell which NFS export each Cinder pool mounts, and the   *)
(* destination pool is the first one that mounts the export of the source  *)
(* VM's root volume (app/osclients/blueprint.py, app/osclients/shared.py). *)
(* Every volume of the VM is then managed into that pool (production.py:70,*)
(* cutover.py:39-60), after the source has let go of it.                   *)
(*                                                                         *)
(* The resolution is a function; the module is its one-step machine, whose *)
(* initial states are the blueprints and pools the two clouds can have.    *)
(***************************************************************************)
EXTENDS Naturals, Sequences, FiniteSets

CONSTANTS
  Categories,   \* categories of storageBackends, and pool names
  Backends,     \* backend names
  Exports,      \* values of nfs_mount_points
  Volumes, Root,
  Blueprints,   \* the blueprints to consider
  PoolLists     \* the answers of the destination's pools() to consider

None == "none"
NotNfs == "not nfs"   \* a backend without nfs_mount_points
Keys == Categories \X Backends

\* uuid@backend#pool, or uuid@backend without a pool (_split_pool).
Hosts == [backend : Backends, pool : Categories \cup {None}]
NoPool == [backend |-> None, pool |-> None]

ASSUME BackendAssumption ==
  /\ None \notin Categories \cup Backends \cup Exports /\ NotNfs \notin Exports
  /\ None # NotNfs /\ Root \in Volumes
  /\ Blueprints \subseteq UNION {[K -> Exports \cup {NotNfs}] : K \in SUBSET Keys}
  /\ PoolLists \subseteq Seq(Hosts)

VARIABLES
  srcBp, dstBp,   \* storageBackends of the two blueprints
  hosts,          \* os-vol-host-attr:host of each source volume
  pools,          \* the destination's pools, in the order it lists them
  result,         \* what resolve_shared returned
  resolved        \* did it return?

vars == <<srcBp, dstBp, hosts, pools, result, resolved>>

-----------------------------------------------------------------------------
\* {(category, backend): nfs_mount_points}, of the backends that have one.
ParseNfsBackends(bp) ==
  [k \in {k \in DOMAIN bp : bp[k] # NotNfs} |-> bp[k]]

\* Mutant: the backend alone is asked.
ExportByBackend(nfs, h) ==
  LET byBackend == {k \in DOMAIN nfs : k[2] = h.backend}
  IN  IF byBackend # {} THEN nfs[CHOOSE k \in byBackend : TRUE] ELSE None

\* The export a pool mounts: category and backend both match, or else the
\* backend matches one entry only, or else the category does.
ExportForPool(nfs, h) ==
  LET byBackend == {k \in DOMAIN nfs : k[2] = h.backend}
      byPool == {k \in DOMAIN nfs : k[1] = h.pool}
  IN  IF <<h.pool, h.backend>> \in DOMAIN nfs THEN nfs[<<h.pool, h.backend>>]
      ELSE IF Cardinality(byBackend) = 1 THEN nfs[CHOOSE k \in byBackend : TRUE]
      ELSE IF Cardinality(byPool) = 1 THEN nfs[CHOOSE k \in byPool : TRUE]
      ELSE None

\* The first pool that mounts the export.
DestPoolForExport(nfs, hs, export) ==
  LET mounts == {i \in DOMAIN hs : ExportForPool(nfs, hs[i]) = export}
  IN  IF mounts = {} THEN NoPool
      ELSE hs[CHOOSE i \in mounts : \A j \in mounts : i <= j]

\* resolve_shared: the host of the root volume alone is asked for.
ResolveShared ==
  LET export == ExportForPool(ParseNfsBackends(srcBp), hosts[Root])
      pool == IF export = None THEN NoPool
              ELSE DestPoolForExport(ParseNfsBackends(dstBp), pools, export)
  IN  [shared |-> pool # NoPool, pool |-> pool, export |-> export]

-----------------------------------------------------------------------------
Init ==
  /\ srcBp \in Blueprints /\ dstBp \in Blueprints
  /\ hosts \in [Volumes -> Hosts] /\ pools \in PoolLists
  /\ result = [shared |-> FALSE, pool |-> NoPool, export |-> None]
  /\ resolved = FALSE

Resolve ==
  /\ ~resolved /\ resolved' = TRUE
  /\ result' = ResolveShared
  /\ UNCHANGED <<srcBp, dstBp, hosts, pools>>

Spec == Init /\ [][Resolve]_vars

-----------------------------------------------------------------------------
(* Properties.  "In PCD the pool segment matches the blueprint <category>   *)
(* and the backend segment matches <backend>" (blueprint.py:7-8): a pool    *)
(* that a blueprint lists in this way mounts what the blueprint says.       *)

Listed(bp, h) == <<h.pool, h.backend>> \in DOMAIN bp
Mount(bp, h) == bp[<<h.pool, h.backend>>]
ByTheBook == /\ Listed(srcBp, hosts[Root]) /\ Mount(srcBp, hosts[Root]) # NotNfs
             /\ \A i \in DOMAIN pools : /\ Listed(dstBp, pools[i])
                                        /\ Mount(dstBp, pools[i]) # NotNfs

\* If every pool is an NFS backend listed by the convention, the resolution is
\* exact: it finds a destination pool iff one mounts the root volume's export,
\* and the pool it finds does, however often a backend or a category name
\* repeats (blueprint.py:36, 52-58).
ResolvedIsShared ==
  resolved /\ ByTheBook
    => /\ result.shared <=> \E i \in DOMAIN pools :
                              Mount(dstBp, pools[i]) = Mount(srcBp, hosts[Root])
       /\ result.shared => Mount(dstBp, result.pool) = Mount(srcBp, hosts[Root])
=============================================================================
