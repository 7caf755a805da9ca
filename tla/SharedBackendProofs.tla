------------------------- MODULE SharedBackendProofs -------------------------
(***************************************************************************)
(* The resolution of the destination pool is exact for every pair of       *)
(* blueprints and every list of pools, not only those of MCSharedBackend.  *)
(***************************************************************************)
EXTENDS SharedBackend, LeastElement

\* For a pool that the blueprint lists as NFS, the strict match decides: what
\* the fallbacks would say does not matter.
LEMMA StrictMatch ==
  ASSUME NEW bp, NEW h, Listed(bp, h), Mount(bp, h) # NotNfs
  PROVE  ExportForPool(ParseNfsBackends(bp), h) = Mount(bp, h)
<1> DEFINE k == <<h.pool, h.backend>>
           nfs == ParseNfsBackends(bp)
<1>1. k \in DOMAIN nfs /\ nfs[k] = bp[k]
  BY DEF ParseNfsBackends, Listed, Mount
<1> QED BY <1>1 DEF ExportForPool, Mount

\* dest_pool_for_export returns a pool that mounts the export if there is one,
\* and None if there is none.
LEMMA FirstMatch ==
  ASSUME NEW nfs, NEW hs \in Seq(Hosts), NEW export
  PROVE  \/ /\ \A i \in DOMAIN hs : ExportForPool(nfs, hs[i]) # export
            /\ DestPoolForExport(nfs, hs, export) = NoPool
         \/ \E i \in DOMAIN hs :
              /\ ExportForPool(nfs, hs[i]) = export
              /\ DestPoolForExport(nfs, hs, export) = hs[i]
<1> DEFINE mounts == {i \in DOMAIN hs : ExportForPool(nfs, hs[i]) = export}
           least == CHOOSE i \in mounts : \A j \in mounts : i <= j
<1>1. CASE mounts = {}
  BY <1>1 DEF DestPoolForExport
<1>2. CASE mounts # {}
  <2>1. mounts \subseteq Nat
    BY DOMAIN hs = 1..Len(hs), Len(hs) \in Nat
  <2>2. \E i \in mounts : \A j \in mounts : i <= j
    BY <1>2, <2>1, Least
  <2>3. least \in mounts
    BY <2>2
  <2>4. DestPoolForExport(nfs, hs, export) = hs[least]
    BY <1>2 DEF DestPoolForExport
  <2> QED BY <2>3, <2>4
<1> QED BY <1>1, <1>2

-----------------------------------------------------------------------------
\* The clouds are as the initial state says, and the result is the function's.
Inv ==
  /\ srcBp \in Blueprints /\ dstBp \in Blueprints
  /\ hosts \in [Volumes -> Hosts] /\ pools \in PoolLists
  /\ resolved => result = ResolveShared

\* The result, once returned, is what resolve_shared computes.
LEMMA InvHolds == Spec => []Inv
<1>1. Init => Inv
  BY DEF Init, Inv
<1>2. Inv /\ [Resolve]_vars => Inv'
  BY DEF Inv, Resolve, vars, ResolveShared
<1> QED BY <1>1, <1>2, PTL DEF Spec

\* The invariant says enough.
LEMMA InvExact == Inv => ResolvedIsShared
<1> SUFFICES ASSUME Inv, resolved, ByTheBook
             PROVE  /\ result.shared <=> \E i \in DOMAIN pools :
                         Mount(dstBp, pools[i]) = Mount(srcBp, hosts[Root])
                    /\ result.shared =>
                         Mount(dstBp, result.pool) = Mount(srcBp, hosts[Root])
  BY DEF ResolvedIsShared
<1> DEFINE export == Mount(srcBp, hosts[Root])
           nfs == ParseNfsBackends(dstBp)
           pool == DestPoolForExport(nfs, pools, export)
<1>1. export # None
  <2>1. srcBp \in UNION {[K -> Exports \cup {NotNfs}] : K \in SUBSET Keys}
    BY BackendAssumption DEF Inv
  <2>2. PICK K \in SUBSET Keys : srcBp \in [K -> Exports \cup {NotNfs}]
    BY <2>1
  <2>3. export \in Exports \cup {NotNfs}
    BY <2>2 DEF ByTheBook, Listed, Mount
  <2> QED BY <2>3, BackendAssumption
<1>2. ExportForPool(ParseNfsBackends(srcBp), hosts[Root]) = export
  BY StrictMatch DEF ByTheBook
<1>3. \A i \in DOMAIN pools : ExportForPool(nfs, pools[i]) = Mount(dstBp, pools[i])
  BY StrictMatch DEF ByTheBook
<1>4. result = [shared |-> pool # NoPool, pool |-> pool, export |-> export]
  BY <1>1, <1>2 DEF Inv, ResolveShared
<1>5. pools \in Seq(Hosts)
  BY BackendAssumption DEF Inv
<1>6. \A i \in DOMAIN pools : pools[i] # NoPool
  <2> SUFFICES ASSUME NEW i \in DOMAIN pools PROVE pools[i] # NoPool
    OBVIOUS
  <2>1. pools[i] \in Hosts
    BY <1>5
  <2>2. pools[i].backend \in Backends
    BY <2>1 DEF Hosts
  <2> QED BY <2>2, BackendAssumption DEF NoPool
<1>7. \/ /\ \A i \in DOMAIN pools : ExportForPool(nfs, pools[i]) # export
         /\ pool = NoPool
      \/ \E i \in DOMAIN pools : /\ ExportForPool(nfs, pools[i]) = export
                                /\ pool = pools[i]
  BY <1>5, FirstMatch
<1>8. CASE pool = NoPool
  BY <1>3, <1>4, <1>6, <1>7, <1>8
<1>9. CASE pool # NoPool
  BY <1>3, <1>4, <1>7, <1>9
<1> QED BY <1>8, <1>9

\* For all blueprints in which the pools are listed by the convention, the
\* destination pool found is one that mounts the root volume's export, and one
\* is found whenever there is one.
THEOREM ResolutionExact == Spec => []ResolvedIsShared
<1> QED BY InvHolds, InvExact, PTL
=============================================================================
