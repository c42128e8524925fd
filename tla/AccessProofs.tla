---------------------------- MODULE AccessProofs ----------------------------
(***************************************************************************)
(* Theorems about JitLeases, for any number of projects, tools, leases,    *)
(* processes and faults; and about DeviceGate, for any calls,              *)
(* keys, servers and sessions: the nonce makes a delivered call run once,  *)
(* and a session has one owner.                                            *)
(***************************************************************************)
EXTENDS JitLeases, DeviceGate, TLAPS

(***************************************************************************)
(* JitLeases                                                               *)
(***************************************************************************)

\* What a process is about to grant is a lease that was committed.
GrantsAreLeased ==
  \A p \in Procs : place[p] = "grant" =>
    /\ granting[p] \in Bridged
    /\ \E l \in Leases : lease[l] # None /\ lease[l].tool = granting[p]

\* While nothing has failed or overlapped: a tool that is shown, or is about to
\* be granted, has an active lease, or else a process is about to remove it.
\* Nobody is in the second attempt of a revocation.
CleanHolds ==
  clean =>
    /\ exposed \in Tools =>
         \/ \E l \in Leases : Active(l) /\ lease[l].tool = exposed
         \/ \E p \in Procs : place[p] \in {"revoke", "remove"}
    /\ \A p \in Procs : place[p] = "grant" =>
         \E l \in Leases : Active(l) /\ lease[l].tool = granting[p]
    /\ \A p \in Procs : place[p] # "clear"

LeaseInv ==
  TypeOK /\ LeasedHasLease /\ NothingUnleasedExposed /\ GrantsAreLeased /\ CleanHolds

----------------------------------------------------------------------------

\* A lease that is written has the type of one.
LEMMA RowType == ASSUME TypeOK, NEW l \in Leases, lease[l] # None PROVE lease[l] \in LeaseRow
  BY DEF TypeOK

\* Initially nothing is leased and nothing is shown.
LEMMA InitHolds == LeaseInit => LeaseInv
<1> SUFFICES ASSUME LeaseInit PROVE LeaseInv
  OBVIOUS
<1>1. TypeOK
  BY MaxFaultsAssumption DEF LeaseInit, TypeOK, Hidden
<1>2. exposed \notin Tools
  BY HiddenAssumption DEF LeaseInit, Hidden
<1> QED
  BY <1>1, <1>2 DEF LeaseInit, LeaseInv, LeasedHasLease, NothingUnleasedExposed,
    GrantsAreLeased, CleanHolds

\* A step that leaves the leases and profiles alone and shows nothing new.
LEMMA GatewayStep ==
  ASSUME LeaseInv, NEW p \in Procs, Grant(p) \/ RevokeRead(p) \/ RevokeRemove(p)
                                    \/ RevokeClear(p) \/ Kill(p)
  PROVE  LeaseInv'
<1>1. UNCHANGED <<lease, due, profile>>
  BY DEF Grant, RevokeRead, RevokeRemove, RevokeClear, Kill
<1>2. TypeOK'
  <2>1. (Fault \/ NoFault) => faults' \in 0..MaxFaults /\ clean' \in BOOLEAN
    <3>1. faults \in 0..MaxFaults /\ clean \in BOOLEAN
      BY DEF LeaseInv, TypeOK
    <3>2. Fault => faults' \in 0..MaxFaults
      BY <3>1, MaxFaultsAssumption DEF Fault
    <3>3. Fault => clean' \in BOOLEAN
      BY DEF Fault
    <3>4. NoFault => faults' \in 0..MaxFaults /\ clean' \in BOOLEAN
      BY <3>1 DEF NoFault
    <3> QED BY <3>2, <3>3, <3>4
  <2>2. CASE Grant(p)
    BY <1>1, <2>1, <2>2 DEF LeaseInv, GrantsAreLeased, TypeOK, Grant, Goto
  <2>3. CASE RevokeRead(p)
    BY <1>1, <2>1, <2>3 DEF LeaseInv, TypeOK, RevokeRead, Goto
  <2>4. CASE RevokeRemove(p)
    BY <1>1, <2>1, <2>4 DEF LeaseInv, TypeOK, RevokeRemove, Goto, Hidden
  <2>5. CASE RevokeClear(p)
    BY <1>1, <2>1, <2>5 DEF LeaseInv, TypeOK, RevokeClear, Goto, Hidden, Emptied
  <2>6. CASE Kill(p)
    BY <1>1, <2>1, <2>6 DEF LeaseInv, TypeOK, Kill, Goto
  <2> QED BY <2>2, <2>3, <2>4, <2>5, <2>6
<1>3. LeasedHasLease'
  BY <1>1 DEF LeaseInv, LeasedHasLease, Leased
<1>4. NothingUnleasedExposed'
  BY <1>1, HiddenAssumption DEF LeaseInv, NothingUnleasedExposed, GrantsAreLeased, TypeOK,
    Grant, RevokeRead, RevokeRemove, RevokeClear, Kill, Hidden, Emptied
<1>5. GrantsAreLeased'
  BY <1>1 DEF LeaseInv, GrantsAreLeased, TypeOK, Grant, RevokeRead, RevokeRemove,
    RevokeClear, Kill, Goto
<1>6. CleanHolds'
  <2> SUFFICES ASSUME clean' PROVE CleanHolds'
    BY DEF CleanHolds
  <2>1. clean /\ UNCHANGED faults
    BY DEF Grant, RevokeRead, RevokeRemove, RevokeClear, Kill, Fault, NoFault
  <2>2. CASE Grant(p)
    BY <1>1, <2>1, <2>2 DEF LeaseInv, CleanHolds, TypeOK, Grant, Goto, Fault, Active
  <2>3. CASE RevokeRead(p)
    BY <1>1, <2>1, <2>3, HiddenAssumption DEF LeaseInv, CleanHolds, TypeOK, RevokeRead, Goto,
      Fault, Active, Hidden
  <2>4. CASE RevokeRemove(p)
    BY <1>1, <2>1, <2>4, HiddenAssumption DEF LeaseInv, CleanHolds, TypeOK, RevokeRemove,
      Goto, Fault, Active, Hidden
  <2>5. CASE RevokeClear(p)
    BY <2>1, <2>5 DEF LeaseInv, CleanHolds, RevokeClear
  <2>6. CASE Kill(p)
    BY <2>1, <2>6 DEF Kill, Fault
  <2> QED BY <2>2, <2>3, <2>4, <2>5, <2>6
<1> QED BY <1>2, <1>3, <1>4, <1>5, <1>6 DEF LeaseInv

----------------------------------------------------------------------------

\* A new lease: the profile and, unless the transaction fails, the gateway follow.
LEMMA CreateLeaseStep ==
  ASSUME LeaseInv, NEW p \in Procs, NEW k \in Leases, NEW j \in Projects, NEW t \in Tools,
         CreateLease(p, k, j, t)
  PROVE  LeaseInv'
<1> DEFINE row == [project |-> j, tool |-> t, status |-> "active"]
<1>1. row \in LeaseRow /\ row # None /\ row.tool = t /\ row.status = "active"
  BY NoneAssumption DEF LeaseRow
<1>2. UNCHANGED <<due, exposed, faults>> /\ lease[k] = None /\ place[p] = "idle"
      /\ clean' = (clean /\ Quiet)
  BY DEF CreateLease, Begins
<1>3. CASE lease' = [lease EXCEPT ![k] = row]
           /\ profile' = [profile EXCEPT ![j][t] = "jit_leased"]
           /\ Asks(p, t, IF IsBridged(t) THEN "grant" ELSE "idle")
  <2> HIDE DEF row
  <2>1. TypeOK'
    BY <1>1, <1>2, <1>3 DEF LeaseInv, TypeOK, Asks, Goto, IsBridged
  <2>2. LeasedHasLease'
    <3> SUFFICES ASSUME NEW i \in Projects, NEW u \in Tools, profile'[i][u] = "jit_leased"
                 PROVE  \E l \in Leases : Leased(l, i, u, "active")' \/ Leased(l, i, u, "expired")'
      BY DEF LeasedHasLease, Leased
    <3>1. CASE i = j /\ u = t
      BY <1>3, <3>1 DEF LeaseInv, TypeOK, Leased, row
    <3>2. CASE ~(i = j /\ u = t)
      <4>1. profile[i][u] = "jit_leased"
        BY <1>3, <3>2 DEF LeaseInv, TypeOK
      <4>2. PICK l \in Leases : Leased(l, i, u, "active") \/ Leased(l, i, u, "expired")
        BY <4>1 DEF LeaseInv, LeasedHasLease
      <4>3. l # k
        BY <1>2, <4>2, NoneAssumption DEF Leased, LeaseRow
      <4> QED BY <1>3, <4>2, <4>3 DEF LeaseInv, TypeOK, Leased
    <3> QED BY <3>1, <3>2
  <2>3. NothingUnleasedExposed'
    BY <1>1, <1>2, <1>3 DEF LeaseInv, NothingUnleasedExposed, TypeOK
  <2>4. GrantsAreLeased'
    BY <1>1, <1>2, <1>3 DEF LeaseInv, GrantsAreLeased, TypeOK, Asks, Goto, IsBridged
  <2>5. CleanHolds'
    BY <1>1, <1>2, <1>3 DEF LeaseInv, CleanHolds, TypeOK, Asks, Goto, Quiet, Active
  <2> QED BY <2>1, <2>2, <2>3, <2>4, <2>5 DEF LeaseInv
<1>4. CASE UNCHANGED <<lease, profile>> /\ Asks(p, t, AfterRollback(t))
  <2>1. place' = place /\ granting' = granting
    BY <1>2, <1>4 DEF LeaseInv, TypeOK, Asks, Goto, AfterRollback
  <2> QED
    BY <1>2, <1>4, <2>1 DEF LeaseInv, TypeOK, LeasedHasLease, Leased,
      NothingUnleasedExposed, GrantsAreLeased, CleanHolds, Quiet, Active
<1> QED BY <1>3, <1>4 DEF CreateLease

\* A lease runs out.
LEMMA RunsOutStep == ASSUME LeaseInv, NEW k \in Leases, RunsOut(k) PROVE LeaseInv'
  BY DEF RunsOut, LeaseInv, TypeOK, LeasedHasLease, Leased, NothingUnleasedExposed,
    GrantsAreLeased, CleanHolds, Active

\* Expiry changes the status of the lapsed leases and nothing else of a lease.
LEMMA ExpiredRows ==
  ASSUME TypeOK, NEW J \in SUBSET Projects, NEW l \in Leases
  PROVE  /\ Expired(J)[l] \in LeaseRow \cup {None}
         /\ (Expired(J)[l] = None) = (lease[l] = None)
         /\ lease[l] # None => Expired(J)[l].tool = lease[l].tool
         /\ l \notin Lapsed(J) => Expired(J)[l] = lease[l]
         /\ l \in Lapsed(J) => Expired(J)[l] = [lease[l] EXCEPT !.status = "expired"]
  BY NoneAssumption DEF TypeOK, Expired, Lapsed, Active, LeaseRow

\* What the three expiries have in common: the types, and what the leases of
\* the shown tools are.
LEMMA ExpiryCommon ==
  ASSUME LeaseInv, NEW J \in SUBSET Projects, lease' = Expired(J), UNCHANGED <<due, exposed>>
  PROVE  /\ lease' \in [Leases -> LeaseRow \cup {None}]
         /\ due' \subseteq {l \in Leases : lease'[l] # None}
         /\ NothingUnleasedExposed'
         /\ \A t \in Tools : (\E l \in Leases : lease[l] # None /\ lease[l].tool = t)
              => (\E l \in Leases : lease'[l] # None /\ lease'[l].tool = t)
         /\ Lapsed(J) = {} => lease' = lease
<1>1. \A l \in Leases : (lease'[l] = None) = (lease[l] = None)
  BY ExpiredRows DEF LeaseInv
<1>2. \A l \in Leases : lease'[l] \in LeaseRow \cup {None}
  BY ExpiredRows DEF LeaseInv
<1>3. \A l \in Leases : lease[l] # None => lease'[l].tool = lease[l].tool
  BY ExpiredRows DEF LeaseInv
<1>4. lease' \in [Leases -> LeaseRow \cup {None}]
  BY <1>2 DEF Expired
<1>5. due' \subseteq {l \in Leases : lease'[l] # None}
  BY <1>1 DEF LeaseInv, TypeOK
<1>6. Lapsed(J) = {} => lease' = lease
  BY DEF Expired, LeaseInv, TypeOK
<1>7. NothingUnleasedExposed'
  BY <1>1, <1>3 DEF LeaseInv, NothingUnleasedExposed
<1> QED BY <1>1, <1>3, <1>4, <1>5, <1>6, <1>7

\* A tool that is leased has, after the expiry, a lease that is active or expired.
LEMMA ExpiryKeepsLeases ==
  ASSUME LeaseInv, NEW J \in SUBSET Projects, lease' = Expired(J),
         NEW i \in Projects, NEW u \in Tools, profile[i][u] = "jit_leased"
  PROVE  \E l \in Leases : Leased(l, i, u, "active")' \/ Leased(l, i, u, "expired")'
<1>1. PICK l \in Leases : Leased(l, i, u, "active") \/ Leased(l, i, u, "expired")
  BY DEF LeaseInv, LeasedHasLease
<1>2. lease[l] \in LeaseRow
  BY <1>1 DEF Leased, LeaseRow
<1>3. CASE l \in Lapsed(J)
  <2>1. lease'[l] = [lease[l] EXCEPT !.status = "expired"]
    BY <1>3, ExpiredRows DEF LeaseInv
  <2>2. Leased(l, i, u, "expired")'
    BY <1>1, <2>1 DEF Leased
  <2> QED BY <2>2
<1>4. CASE l \notin Lapsed(J)
  <2>1. lease'[l] = lease[l]
    BY <1>4, ExpiredRows DEF LeaseInv
  <2> QED BY <1>1, <2>1 DEF Leased
<1> QED BY <1>3, <1>4

\* expire_wf_jit_leases keeps the profiles right.
LEMMA ExpireLeasesProfiles ==
  ASSUME LeaseInv, NEW j \in Projects, ExpireLeases(j)
  PROVE  /\ profile' \in [Projects -> [Tools -> {"dormant", "jit_leased"}]]
         /\ LeasedHasLease'
<1>1. profile' \in [Projects -> [Tools -> {"dormant", "jit_leased"}]]
  BY DEF LeaseInv, TypeOK, ExpireLeases
<1>2. \A i \in Projects, u \in Tools :
        profile'[i][u] = "jit_leased" => profile[i][u] = "jit_leased"
  BY DEF LeaseInv, TypeOK, ExpireLeases
<1>3. ASSUME NEW i \in Projects, NEW u \in Tools, profile'[i][u] = "jit_leased"
      PROVE  \E l \in Leases : Leased(l, i, u, "active")' \/ Leased(l, i, u, "expired")'
  BY <1>2, <1>3, ExpiryKeepsLeases DEF ExpireLeases
<1> QED BY <1>1, <1>3 DEF LeasedHasLease, Leased

\* Expiry by the workflow, which asks the gateway if a lease has expired.
LEMMA ExpireStep ==
  ASSUME LeaseInv, NEW p \in Procs, NEW j \in Projects, Expire(p, j)
  PROVE  LeaseInv'
<1>1. lease' = Expired({j}) /\ UNCHANGED <<due, exposed, granting, faults>>
      /\ place[p] = "idle" /\ place' = [place EXCEPT ![p] = AfterExpiry(j)]
      /\ clean' = (clean /\ Quiet)
  BY DEF Expire, ExpireLeases, Begins, Goto
<1>2. AfterExpiry(j) \in {"idle", "revoke"} /\ (AfterExpiry(j) = "idle" => Lapsed({j}) = {})
  BY DEF AfterExpiry
<1>3. LeasedHasLease' /\ profile' \in [Projects -> [Tools -> {"dormant", "jit_leased"}]]
  BY ExpireLeasesProfiles DEF Expire
<1>4. TypeOK'
  BY <1>1, <1>2, <1>3, ExpiryCommon DEF LeaseInv, TypeOK
<1>5. GrantsAreLeased'
  BY <1>1, <1>2, ExpiryCommon, BridgedAssumption DEF LeaseInv, GrantsAreLeased, TypeOK
<1>6. CleanHolds'
  <2> SUFFICES ASSUME clean' PROVE CleanHolds'
    BY DEF CleanHolds
  <2>1. clean /\ Quiet
    BY <1>1
  <2>2. CASE AfterExpiry(j) = "revoke"
    <3>1. place'[p] = "revoke" /\ \A q \in Procs : place'[q] \in {"idle", "revoke"}
      BY <1>1, <2>1, <2>2 DEF LeaseInv, TypeOK, Quiet
    <3> QED BY <3>1 DEF CleanHolds
  <2>3. CASE AfterExpiry(j) = "idle"
    <3>1. place' = place
      BY <1>1, <2>3 DEF LeaseInv, TypeOK
    <3>2. lease' = lease
      <4>1. {j} \in SUBSET Projects /\ Lapsed({j}) = {}
        BY <1>2, <2>3
      <4> QED BY <1>1, <4>1 DEF Expired, LeaseInv, TypeOK
    <3>3. exposed' = exposed /\ granting' = granting /\ clean
      BY <1>1, <2>1
    <3> QED BY <3>1, <3>2, <3>3 DEF LeaseInv, CleanHolds, Active
  <2> QED BY <1>2, <2>2, <2>3
<1> QED BY <1>1, <1>3, <1>4, <1>5, <1>6, ExpiryCommon DEF LeaseInv

\* Expiry by the memory server and by the recovery, which ask nobody.
LEMMA OthersExpireStep ==
  ASSUME LeaseInv, NEW J \in SUBSET Projects, lease' = Expired(J), clean' = (clean /\ Lapsed(J) = {}),
         UNCHANGED <<due, exposed, place, granting, faults>>, LeasedHasLease',
         profile' \in [Projects -> [Tools -> {"dormant", "jit_leased"}]]
  PROVE  LeaseInv'
<1>1. TypeOK'
  BY ExpiryCommon DEF LeaseInv, TypeOK
<1>2. GrantsAreLeased'
  BY ExpiryCommon, BridgedAssumption DEF LeaseInv, GrantsAreLeased, TypeOK
<1>3. CleanHolds'
  <2> SUFFICES ASSUME clean' PROVE CleanHolds'
    BY DEF CleanHolds
  <2>1. clean /\ lease' = lease
    BY ExpiryCommon
  <2> QED BY <2>1 DEF LeaseInv, CleanHolds, Active
<1> QED BY <1>1, <1>2, <1>3, ExpiryCommon DEF LeaseInv

\* The memory server expires the leases of one project.
LEMMA ServerExpireStep ==
  ASSUME LeaseInv, NEW j \in Projects, ServerExpire(j) PROVE LeaseInv'
  BY ExpireLeasesProfiles, OthersExpireStep DEF ServerExpire, ExpireLeases

\* The recovery expires those of all projects.
LEMMA RecoverExpireStep == ASSUME LeaseInv, RecoverExpire PROVE LeaseInv'
<1>1. lease' = Expired(Projects) /\ profile' = profile
  BY DEF RecoverExpire
<1>2. LeasedHasLease'
  BY <1>1, ExpiryKeepsLeases DEF LeasedHasLease, Leased
<1>3. profile' \in [Projects -> [Tools -> {"dormant", "jit_leased"}]]
  BY <1>1 DEF LeaseInv, TypeOK
<1> QED BY <1>2, <1>3, OthersExpireStep DEF RecoverExpire

\* A revocation.
LEMMA RevokeStep ==
  ASSUME LeaseInv, NEW p \in Procs, NEW k \in Leases, Revoke(p, k)
  PROVE  LeaseInv'
<1> DEFINE j == lease[k].project
           t == lease[k].tool
           where == IF IsBridged(t) THEN "revoke" ELSE "idle"
<1>1. lease[k] \in LeaseRow /\ lease[k] # None /\ j \in Projects /\ t \in Tools
  BY RowType DEF Revoke, LeaseInv, LeaseRow
<1>2. /\ lease' = [lease EXCEPT ![k].status = "revoked"]
      /\ profile' = [profile EXCEPT ![j][t] = "dormant"]
      /\ place[p] = "idle" /\ place' = [place EXCEPT ![p] = where]
      /\ UNCHANGED <<due, exposed, granting, faults>>
      /\ clean' = (clean /\ Quiet)
  BY DEF Revoke, AfterRevocation, Begins, Goto
<1>3. lease'[k] \in LeaseRow /\ lease'[k] # None /\ lease'[k].tool = t
      /\ \A l \in Leases : l # k => lease'[l] = lease[l]
  BY <1>1, <1>2, NoneAssumption DEF LeaseInv, TypeOK, LeaseRow
<1>4. TypeOK'
  BY <1>1, <1>2, <1>3 DEF LeaseInv, TypeOK
<1>5. LeasedHasLease'
  <2> SUFFICES ASSUME NEW i \in Projects, NEW u \in Tools, profile'[i][u] = "jit_leased"
               PROVE  \E l \in Leases : Leased(l, i, u, "active")' \/ Leased(l, i, u, "expired")'
    BY DEF LeasedHasLease, Leased
  <2>1. profile[i][u] = "jit_leased" /\ ~(i = j /\ u = t)
    BY <1>1, <1>2 DEF LeaseInv, TypeOK
  <2>2. PICK l \in Leases : Leased(l, i, u, "active") \/ Leased(l, i, u, "expired")
    BY <2>1 DEF LeaseInv, LeasedHasLease
  <2>3. l # k
    BY <2>1, <2>2 DEF Leased
  <2> QED BY <1>3, <2>2, <2>3 DEF Leased
<1>6. NothingUnleasedExposed'
  BY <1>1, <1>2, <1>3 DEF LeaseInv, NothingUnleasedExposed
<1>7. GrantsAreLeased'
  BY <1>1, <1>2, <1>3 DEF LeaseInv, GrantsAreLeased, TypeOK
<1>8. CleanHolds'
  <2> SUFFICES ASSUME clean' PROVE CleanHolds'
    BY DEF CleanHolds
  <2>1. clean /\ Quiet
    BY <1>2
  <2>2. CASE IsBridged(t)
    <3>1. place'[p] = "revoke" /\ \A q \in Procs : place'[q] \in {"idle", "revoke"}
      BY <1>2, <2>1, <2>2 DEF LeaseInv, TypeOK, Quiet
    <3> QED BY <3>1 DEF CleanHolds
  <2>3. CASE ~IsBridged(t)
    <3>1. place' = place
      BY <1>2, <2>3 DEF LeaseInv, TypeOK
    <3>2. exposed \in Tools => exposed # t
      BY <2>3, HiddenAssumption DEF LeaseInv, TypeOK, IsBridged
    <3>3. exposed \in Tools => \E l \in Leases : Active(l) /\ lease[l].tool = exposed
      BY <2>1 DEF LeaseInv, CleanHolds, Quiet
    <3>4. exposed' \in Tools => \E l \in Leases : Active(l)' /\ lease'[l].tool = exposed'
      BY <1>2, <1>3, <3>2, <3>3 DEF Active
    <3> QED BY <2>1, <3>1, <3>4 DEF CleanHolds, Quiet
  <2> QED BY <2>2, <2>3
<1> QED BY <1>4, <1>5, <1>6, <1>7, <1>8 DEF LeaseInv

\* Every step keeps the invariant.
LEMMA StepHolds == LeaseInv /\ [LeaseNext]_leaseVars => LeaseInv'
<1> SUFFICES ASSUME LeaseInv, [LeaseNext]_leaseVars PROVE LeaseInv'
  OBVIOUS
<1>1. CASE UNCHANGED leaseVars
  BY <1>1 DEF leaseVars, LeaseInv, TypeOK, LeasedHasLease, Leased, NothingUnleasedExposed,
    GrantsAreLeased, CleanHolds, Active
<1>2. ASSUME NEW p \in Procs, NEW l \in Leases, NEW j \in Projects, NEW t \in Tools,
             CreateLease(p, l, j, t)
      PROVE  LeaseInv'
  BY <1>2, CreateLeaseStep
<1>3. ASSUME NEW p \in Procs, NEW j \in Projects, Expire(p, j) PROVE LeaseInv'
  BY <1>3, ExpireStep
<1>4. ASSUME NEW p \in Procs, NEW l \in Leases, Revoke(p, l) PROVE LeaseInv'
  BY <1>4, RevokeStep
<1>5. ASSUME NEW p \in Procs, Grant(p) \/ RevokeRead(p) \/ RevokeRemove(p)
                              \/ RevokeClear(p) \/ Kill(p)
      PROVE  LeaseInv'
  BY <1>5, GatewayStep
<1>6. ASSUME NEW l \in Leases, RunsOut(l) PROVE LeaseInv'
  BY <1>6, RunsOutStep
<1>7. ASSUME NEW j \in Projects, ServerExpire(j) PROVE LeaseInv'
  BY <1>7, ServerExpireStep
<1>8. CASE RecoverExpire
  BY <1>8, RecoverExpireStep
<1> QED BY <1>1, <1>2, <1>3, <1>4, <1>5, <1>6, <1>7, <1>8 DEF LeaseNext

----------------------------------------------------------------------------

\* The inductive invariant holds throughout.
THEOREM LeaseInvariant == LeaseSpec => []LeaseInv
  BY InitHolds, StepHolds, PTL DEF LeaseSpec

\* The state stays of its types; the gateway is only ever asked about its tools.
THEOREM LeaseTypes == LeaseSpec => []TypeOK
<1>1. LeaseInv => TypeOK
  BY DEF LeaseInv
<1> QED BY <1>1, LeaseInvariant, PTL

\* However leases are created, revoked and expired, and by whomever, a tool that
\* its profile calls leased has a lease by which an expiry can reset it.
THEOREM LeasedToolsHaveLeases == LeaseSpec => []LeasedHasLease
<1>1. LeaseInv => LeasedHasLease
  BY DEF LeaseInv
<1> QED BY <1>1, LeaseInvariant, PTL

\* The gateway never shows a tool for which no lease was committed.
THEOREM NothingUnleasedIsShown == LeaseSpec => []NothingUnleasedExposed
<1>1. LeaseInv => NothingUnleasedExposed
  BY DEF LeaseInv
<1> QED BY <1>1, LeaseInvariant, PTL

\* Without faults, foreign expiries and overlaps, what the gateway shows when
\* nobody is in the middle of a change has an active lease.
THEOREM QuietExposureIsLeased == LeaseSpec => []ExposureHasLease
<1>1. LeaseInv => ExposureHasLease
  BY DEF LeaseInv, CleanHolds, ExposureHasLease, Quiet
<1> QED BY <1>1, LeaseInvariant, PTL

(***************************************************************************)
(* DeviceGate                                                              *)
(***************************************************************************)

\* A server that has consumed the nonce of a signed call and not yet run its tool.
Pending(h) == pc[h] \in {"tool", "open", "upsert"} /\ job[h].key # NoKey

Places == {"idle", "key", "nonce", "commit", "tool", "open", "upsert"}

JobsTyped ==
  /\ pc \in [Handlers -> Places]
  /\ job \in [Handlers -> [call : Calls \union {NoCall}, key : Keys \union {NoKey}]]
  /\ ran \in [Calls -> Nat]
  /\ \A m \in sent : m.call \in Calls /\ m.key \in Keys \union {NoKey}
  /\ \A h \in Handlers : pc[h] # "idle" => job[h].call \in Calls

\* The nonce of a call that is about to run is consumed, and it has not run.
PendingIsNew ==
  \A h \in Handlers : Pending(h) => job[h].call \in nonces /\ ran[job[h].call] = 0

\* No two servers are about to run one call, nor to commit its nonce.
PendingIsUnique ==
  \A g, h \in Handlers : g # h =>
    /\ Pending(g) /\ Pending(h) => job[g].call # job[h].call
    /\ pc[g] = "commit" /\ pc[h] = "commit" => job[g].call # job[h].call

\* What is being committed is not there yet: the index on the nonce.
CommitIsNew == \A h \in Handlers : pc[h] = "commit" => job[h].call \notin nonces

RunOnce == \A c \in Calls : ran[c] <= 1 /\ (ran[c] # 0 => c \in nonces)

GateInv == JobsTyped /\ PendingIsNew /\ PendingIsUnique /\ CommitIsNew /\ RunOnce

LEMMA GateInit == Init => GateInv
<1> SUFFICES ASSUME Init PROVE GateInv
  OBVIOUS
<1>1. JobsTyped
  BY DEF Init, JobsTyped, Places
<1>2. \A h \in Handlers : pc[h] = "idle"
  BY DEF Init
<1>3. PendingIsNew /\ PendingIsUnique /\ CommitIsNew
  BY <1>2 DEF PendingIsNew, PendingIsUnique, CommitIsNew, Pending
<1>4. RunOnce
  BY DEF Init, RunOnce
<1> QED BY <1>1, <1>3, <1>4 DEF GateInv

\* Clients and operators touch neither servers nor nonces.
LEMMA OthersKeep ==
  ASSUME GateInv, UNCHANGED <<pc, job, nonces, ran>>,
         \A m \in sent' : m \in sent \/ (m.call \in Calls /\ m.key \in Keys \union {NoKey})
  PROVE  GateInv'
<1>1. JobsTyped'
  BY DEF GateInv, JobsTyped, Places
<1>2. PendingIsNew'
  BY DEF GateInv, PendingIsNew, Pending
<1>3. PendingIsUnique'
  BY DEF GateInv, PendingIsUnique, Pending
<1>4. CommitIsNew' /\ RunOnce'
  BY DEF GateInv, CommitIsNew, RunOnce
<1> QED BY <1>1, <1>2, <1>3, <1>4 DEF GateInv

LEMMA PostKeeps ==
  ASSUME GateInv, NEW c \in Calls, NEW k \in Keys \union {NoKey}, Post(c, k)
  PROVE  GateInv'
<1>1. \A m \in sent' : m \in sent \/ (m.call \in Calls /\ m.key \in Keys \union {NoKey})
  BY DEF Post
<1>2. UNCHANGED <<pc, job, nonces, ran>>
  BY DEF Post, server
<1> QED BY <1>1, <1>2, OthersKeep

\* A server goes on with its call, to a place where it is not about to run it
\* or was so already.
LEMMA GoesOnKeeps ==
  ASSUME GateInv, NEW h \in Handlers, NEW to \in {"key", "nonce", "open", "upsert"},
         pc' = [pc EXCEPT ![h] = to],
         UNCHANGED <<job, nonces, ran, sent>>,
         pc[h] # "idle",
         to \in {"open", "upsert"} => pc[h] \in {"tool", "open"}
  PROVE  GateInv'
<1>1. JobsTyped'
  BY DEF GateInv, JobsTyped, Places
<1>2. /\ \A g \in Handlers : Pending(g)' => Pending(g)
      /\ \A g \in Handlers : pc'[g] = "commit" => pc[g] = "commit"
  BY DEF GateInv, JobsTyped, Pending
<1>3. PendingIsNew'
  BY <1>2 DEF GateInv, PendingIsNew
<1>4. PendingIsUnique'
  BY <1>2 DEF GateInv, PendingIsUnique
<1>5. CommitIsNew' /\ RunOnce'
  BY <1>2 DEF GateInv, CommitIsNew, RunOnce
<1> QED BY <1>1, <1>3, <1>4, <1>5 DEF GateInv

LEMMA TakeKeeps ==
  ASSUME GateInv, NEW h \in Handlers, NEW m \in sent, Take(h, m)
  PROVE  GateInv'
<1>1. PICK to \in {"key", "tool"} : pc' = [pc EXCEPT ![h] = to] /\ (to = "tool" => m.key = NoKey)
  BY DEF Take
<1>2. /\ job' = [job EXCEPT ![h] = [call |-> m.call, key |-> m.key]]
      /\ UNCHANGED <<nonces, ran, sent>>
  BY DEF Take
<1>3. m.call \in Calls /\ m.key \in Keys \union {NoKey}
  BY DEF GateInv, JobsTyped
<1>4. JobsTyped'
  BY <1>1, <1>2, <1>3 DEF GateInv, JobsTyped, Places
<1>5. \A g \in Handlers : Pending(g)' \/ pc'[g] = "commit" => g # h
  BY <1>1, <1>2 DEF GateInv, JobsTyped, Pending
<1>6. \A g \in Handlers : g # h => job'[g] = job[g] /\ pc'[g] = pc[g]
  BY <1>1, <1>2 DEF GateInv, JobsTyped
<1>7. \A g \in Handlers : Pending(g)' => Pending(g)
  BY <1>5, <1>6 DEF Pending
<1>8. PendingIsNew'
  BY <1>2, <1>5, <1>6, <1>7 DEF GateInv, PendingIsNew
<1>9. PendingIsUnique'
  BY <1>5, <1>6, <1>7 DEF GateInv, PendingIsUnique
<1>10. CommitIsNew' /\ RunOnce'
  BY <1>2, <1>5, <1>6 DEF GateInv, CommitIsNew, RunOnce
<1> QED BY <1>4, <1>8, <1>9, <1>10 DEF GateInv

LEMMA InsertNonceKeeps ==
  ASSUME GateInv, NEW h \in Handlers, InsertNonce(h)
  PROVE  GateInv'
<1>1. /\ pc[h] = "nonce" /\ job[h].call \notin nonces
      /\ \A g \in Handlers : pc[g] = "commit" => job[g].call # job[h].call
      /\ pc' = [pc EXCEPT ![h] = "commit"] /\ UNCHANGED <<job, nonces, ran, sent>>
  BY DEF InsertNonce
<1>2. JobsTyped'
  BY <1>1 DEF GateInv, JobsTyped, Places
<1>3. /\ \A g \in Handlers : g # h => pc'[g] = pc[g]
      /\ pc'[h] = "commit"
  BY <1>1 DEF GateInv, JobsTyped
<1>4. \A g \in Handlers : Pending(g)' => Pending(g)
  BY <1>1, <1>3 DEF Pending
<1>5. PendingIsNew'
  BY <1>1, <1>4 DEF GateInv, PendingIsNew
<1>6. PendingIsUnique'
  BY <1>1, <1>3, <1>4 DEF GateInv, PendingIsUnique
<1>7. CommitIsNew' /\ RunOnce'
  BY <1>1, <1>3 DEF GateInv, CommitIsNew, RunOnce
<1> QED BY <1>2, <1>5, <1>6, <1>7 DEF GateInv

LEMMA CommitNonceKeeps ==
  ASSUME GateInv, NEW h \in Handlers, CommitNonce(h)
  PROVE  GateInv'
<1>1. /\ pc[h] = "commit" /\ pc' = [pc EXCEPT ![h] = "tool"]
      /\ nonces' = nonces \union {job[h].call} /\ UNCHANGED <<job, ran, sent>>
  BY DEF CommitNonce
<1>2. job[h].call \in Calls /\ job[h].call \notin nonces
  BY <1>1 DEF GateInv, JobsTyped, CommitIsNew
<1>3. ran[job[h].call] = 0
  BY <1>2 DEF GateInv, RunOnce
<1>4. JobsTyped'
  BY <1>1, <1>2 DEF GateInv, JobsTyped, Places
<1>5. RunOnce'
  BY <1>1, <1>2 DEF GateInv, RunOnce
<1>6. \A g \in Handlers : g # h => pc'[g] = pc[g]
  BY <1>1 DEF GateInv, JobsTyped
<1>7. pc'[h] = "tool"
  BY <1>1 DEF GateInv, JobsTyped
<1>8. \A g \in Handlers : Pending(g)' => g = h \/ Pending(g)
  BY <1>1, <1>6 DEF Pending
<1>9. PendingIsNew'
  BY <1>1, <1>2, <1>3, <1>8 DEF GateInv, PendingIsNew
<1>10. \A g \in Handlers : Pending(g) => job[g].call # job[h].call
  BY <1>2 DEF GateInv, PendingIsNew
<1>11. PendingIsUnique'
  BY <1>1, <1>6, <1>7, <1>8, <1>10 DEF GateInv, PendingIsUnique
<1>12. CommitIsNew'
  BY <1>1, <1>6, <1>7 DEF GateInv, CommitIsNew, PendingIsUnique
<1> QED BY <1>4, <1>5, <1>9, <1>11, <1>12 DEF GateInv

\* A server that leaves a call is about to run nothing; what it has run, or whose
\* nonce it has committed, is no other server's.
LEMMA LeaveKeeps ==
  ASSUME GateInv, NEW h \in Handlers, NEW ok, Leave(h, ok), UNCHANGED sent,
         \/ UNCHANGED <<nonces, ran>>
         \/ pc[h] = "commit" /\ nonces' = nonces \union {job[h].call} /\ UNCHANGED ran
         \/ pc[h] \in {"tool", "upsert"} /\ Ran(h) /\ UNCHANGED nonces
  PROVE  GateInv'
<1>1. /\ pc[h] # "idle" /\ pc' = [pc EXCEPT ![h] = "idle"]
      /\ job' = [job EXCEPT ![h] = [call |-> NoCall, key |-> NoKey]]
  BY DEF Leave
<1>2. job[h].call \in Calls
  BY <1>1 DEF GateInv, JobsTyped
<1>3. /\ \A g \in Handlers : g # h => pc'[g] = pc[g] /\ job'[g] = job[g]
      /\ pc'[h] = "idle"
  BY <1>1 DEF GateInv, JobsTyped
<1>4. \A g \in Handlers : Pending(g)' => g # h /\ Pending(g)
  BY <1>3 DEF Pending
<1>5. \A g \in Handlers : pc'[g] = "commit" => g # h /\ pc[g] = "commit"
  BY <1>3
<1>6. PendingIsUnique'
  BY <1>3, <1>4, <1>5 DEF GateInv, PendingIsUnique
<1>7. ran' \in [Calls -> Nat] => JobsTyped'
  BY <1>1, <1>3 DEF GateInv, JobsTyped, Places
<1>8. CASE UNCHANGED <<nonces, ran>>
  <2>1. PendingIsNew'
    BY <1>3, <1>4, <1>8 DEF GateInv, PendingIsNew
  <2>2. CommitIsNew'
    BY <1>3, <1>5, <1>8 DEF GateInv, CommitIsNew
  <2> QED BY <1>6, <1>7, <1>8, <2>1, <2>2 DEF GateInv, JobsTyped, RunOnce
<1>9. CASE pc[h] = "commit" /\ nonces' = nonces \union {job[h].call} /\ UNCHANGED ran
  <2>1. PendingIsNew'
    BY <1>3, <1>4, <1>9 DEF GateInv, PendingIsNew
  <2>2. CommitIsNew'
    BY <1>3, <1>5, <1>9 DEF GateInv, CommitIsNew, PendingIsUnique
  <2>3. RunOnce'
    BY <1>9 DEF GateInv, RunOnce
  <2> QED BY <1>6, <1>7, <1>9, <2>1, <2>2, <2>3 DEF GateInv, JobsTyped
<1>10. CASE pc[h] \in {"tool", "upsert"} /\ Ran(h) /\ UNCHANGED nonces
  <2>1. CASE job[h].key = NoKey
    BY <1>8, <1>10, <2>1 DEF Ran
  <2>2. CASE job[h].key # NoKey
    <3>1. ran' = [ran EXCEPT ![job[h].call] = @ + 1]
      BY <1>10, <2>2 DEF Ran
    <3>2. Pending(h)
      BY <1>10, <2>2 DEF Pending
    <3>3. ran[job[h].call] = 0 /\ job[h].call \in nonces
      BY <3>2 DEF GateInv, PendingIsNew
    <3>4. ran' \in [Calls -> Nat] /\ RunOnce'
      BY <1>2, <1>10, <3>1, <3>3 DEF GateInv, JobsTyped, RunOnce
    <3>5. \A g \in Handlers : Pending(g)' => job[g].call # job[h].call
      BY <1>4, <3>2 DEF GateInv, PendingIsUnique
    <3>6. \A c \in Calls : c # job[h].call => ran'[c] = ran[c]
      BY <1>2, <3>1 DEF GateInv, JobsTyped
    <3>7. \A g \in Handlers : Pending(g)' => job[g].call \in Calls
      BY <1>4 DEF GateInv, JobsTyped, Pending
    <3>8. PendingIsNew'
      BY <1>3, <1>4, <1>10, <3>5, <3>6, <3>7 DEF GateInv, PendingIsNew
    <3>9. CommitIsNew'
      BY <1>3, <1>5, <1>10 DEF GateInv, CommitIsNew
    <3> QED BY <1>6, <1>7, <3>4, <3>8, <3>9 DEF GateInv
  <2> QED BY <2>1, <2>2
<1> QED BY <1>8, <1>9, <1>10

\* Every step of the operator, the clients and the servers keeps the invariant.
THEOREM GateInvariant == Spec => []GateInv
<1>1. ASSUME GateInv, [Next]_vars PROVE GateInv'
  <2>1. CASE \/ Tick
             \/ \E k \in Keys : \/ Enroll(k)
                                \/ \E new \in Keys, o \in 0..1 : Rotate(k, new, o)
                                \/ \E s \in {"active", "revoked", "disabled"} : SetKeyStatus(k, s)
             \/ \E legacy \in BOOLEAN, w \in {1} : SetEnforcement(legacy, w)
             \/ \E c \in HostCalls : HostGivesUp(c)
             \/ UNCHANGED vars
    <3>1. UNCHANGED <<pc, job, nonces, ran, sent>>
      BY <2>1 DEF Tick, Enroll, Rotate, SetKeyStatus, SetEnforcement, HostGivesUp, server, vars
    <3> QED BY <1>1, <3>1, OthersKeep
  <2>2. CASE \E c \in Calls, k \in Keys \union {NoKey} : Post(c, k)
    BY <1>1, <2>2, PostKeeps
  <2>3. ASSUME NEW h \in Handlers,
               \/ \E m \in sent : Take(h, m)
               \/ Refuse(h) \/ CheckKey(h) \/ InsertNonce(h) \/ CommitNonce(h) \/ LoseCommit(h)
               \/ LockSession(h) \/ ReadSession(h) \/ UpsertSession(h) \/ Write(h) \/ Retrieve(h)
        PROVE  GateInv'
    <3>1. CASE \E m \in sent : Take(h, m)
      BY <1>1, <3>1, TakeKeeps
    <3>2. CASE Refuse(h)
      BY <1>1, <3>2, LeaveKeeps DEF Refuse
    <3>3. CASE CheckKey(h)
      BY <1>1, <3>3, GoesOnKeeps DEF CheckKey
    <3>4. CASE InsertNonce(h)
      BY <1>1, <3>4, InsertNonceKeeps
    <3>5. CASE CommitNonce(h)
      BY <1>1, <3>5, CommitNonceKeeps
    <3>6. CASE LoseCommit(h)
      BY <1>1, <3>6, LeaveKeeps DEF LoseCommit
    <3>7. CASE LockSession(h)
      BY <1>1, <3>7, GoesOnKeeps DEF LockSession
    <3>8. CASE ReadSession(h)
      BY <1>1, <3>8, GoesOnKeeps DEF ReadSession
    <3>9. CASE UpsertSession(h)
      BY <1>1, <3>9, LeaveKeeps DEF UpsertSession
    <3>10. CASE Write(h)
      BY <1>1, <3>10, LeaveKeeps DEF Write
    <3>11. CASE Retrieve(h)
      BY <1>1, <3>11, LeaveKeeps DEF Retrieve
    <3> QED
      BY <2>3, <3>1, <3>2, <3>3, <3>4, <3>5, <3>6, <3>7, <3>8, <3>9, <3>10, <3>11
  <2>4. CASE \/ \E c \in DOMAIN Requests : \/ SendsUnsigned(c)
                                           \/ \E k \in Keys : CursorSigns(c, k) \/ WorkflowSigns(c, k)
             \/ \E c \in HostCalls, k \in Keys : HostSigns(c, k)
    BY <2>2, <2>4, CallsAssumption DEF SendsUnsigned, CursorSigns, WorkflowSigns, HostSigns, Send
  <2> QED BY <1>1, <2>1, <2>3, <2>4 DEF Next
<1> QED BY <1>1, GateInit, PTL DEF Spec

\* A signed call runs at most once, however often it is delivered, to any number
\* of servers (verify_tool_identity: the nonce is committed before the tool runs).
THEOREM EveryCallRunsOnce == Spec => []OncePerAssertion
<1>1. GateInv => OncePerAssertion
  BY DEF GateInv, RunOnce, OncePerAssertion
<1> QED BY <1>1, GateInvariant, PTL

(******************************** sessions *********************************)
\* What a server has found out about the session of its call, as far as it has
\* come: the lock is its own, what it read under the lock is so still, and a
\* session that its caller may use belongs to the caller's machine.
Holds(h) ==
  /\ pc[h] # "idle" => job[h].call \in DOMAIN Request /\ job[h].key \in Keys \union {NoKey}
  /\ pc[h] \in {"open", "upsert"} => lock[SessionOf(h)] = h
  /\ pc[h] = "upsert" => /\ seen[h] = owner[SessionOf(h)]
                         /\ seen[h] \in {NoOwner, Identity(job[h])}
  /\ pc[h] \in {"key", "nonce", "commit"} => job[h].key # NoKey
  /\ pc[h] \in {"nonce", "commit", "tool"} /\ ToolOf(h) # "session_open" /\ job[h].key # NoKey =>
       BoundTo(SessionOf(h), Identity(job[h]))
  /\ pc[h] = "tool" /\ job[h].key = NoKey => ToolOf(h) \notin WriteTools

StateTyped ==
  /\ pc \in [Handlers -> Places]
  /\ job = [h \in Handlers |-> job[h]]
  /\ seen = [h \in Handlers |-> seen[h]]
  /\ owner = [s \in Sessions |-> owner[s]]
  /\ lock = [s \in Sessions |-> lock[s]]

CallsTyped ==
  /\ exit = [c \in HostCalls |-> exit[c]]
  /\ \A c \in HostCalls : exit[c] = Running => c \in Signed
  /\ \A m \in sent : m.call \in DOMAIN Request /\ m.key \in Keys \union {NoKey}

\* Whoever has written in a session is its owner.
TraceIsOwned ==
  \A e \in trace : e[1] \in Sessions /\ BoundTo(e[1], e[2])

OwnerInv ==
  /\ StateTyped
  /\ CallsTyped
  /\ \A h \in Handlers : Holds(h)
  /\ TraceIsOwned

LEMMA OwnerInit == Init => OwnerInv
<1> SUFFICES ASSUME Init PROVE OwnerInv
  OBVIOUS
<1>1. StateTyped /\ TraceIsOwned
  BY DEF Init, StateTyped, TraceIsOwned, Places
<1>2. CallsTyped
  BY DEF Init, CallsTyped, Running
<1>3. \A h \in Handlers : Holds(h)
  BY DEF Init, Holds
<1> QED BY <1>1, <1>2, <1>3 DEF OwnerInv

\* What a server does to itself, its own lock, and a session it has locked and
\* that has no owner.
Apart(h) ==
  /\ \A g \in Handlers : g # h => pc'[g] = pc[g] /\ job'[g] = job[g] /\ seen'[g] = seen[g]
  /\ \A s \in Sessions : lock'[s] = lock[s] \/ lock[s] \in {h, NoCall}
  /\ \A s \in Sessions : owner'[s] = owner[s] \/ (owner[s] = NoOwner /\ lock[s] = h)

LEMMA OthersHold ==
  ASSUME OwnerInv, NEW h \in Handlers, Apart(h), NEW g \in Handlers, g # h
  PROVE  Holds(g)'
<1>1. pc'[g] = pc[g] /\ job'[g] = job[g] /\ seen'[g] = seen[g] /\ Holds(g) /\ g # NoCall
  BY CallsAssumption DEF Apart, OwnerInv
<1>2. SessionOf(g)' = SessionOf(g) /\ ToolOf(g)' = ToolOf(g) /\ Identity(job[g])' = Identity(job[g])
  BY <1>1 DEF SessionOf, ToolOf, Identity
<1>3. pc[g] # "idle" => SessionOf(g) \in Sessions
  BY <1>1, CallsAssumption DEF Holds, SessionOf
<1>4. pc[g] \in {"open", "upsert"} =>
        lock'[SessionOf(g)] = g /\ owner'[SessionOf(g)] = owner[SessionOf(g)]
  BY <1>1, <1>3 DEF Holds, Apart
<1>5. ASSUME pc[g] # "idle", BoundTo(SessionOf(g), Identity(job[g]))
      PROVE  BoundTo(SessionOf(g), Identity(job[g]))'
  BY <1>2, <1>3, <1>5 DEF BoundTo, Apart
<1> QED BY <1>1, <1>2, <1>4, <1>5 DEF Holds

\* The owner of a session that has one does not change.
LEMMA OwnedStays ==
  ASSUME OwnerInv, NEW h \in Handlers, Apart(h),
         \A e \in trace' : e \in trace \/ (e[1] \in Sessions /\ BoundTo(e[1], e[2])')
  PROVE  TraceIsOwned'
BY DEF OwnerInv, TraceIsOwned, BoundTo, Apart

LEMMA OneServer ==
  ASSUME OwnerInv, NEW h \in Handlers, Apart(h), StateTyped', CallsTyped', Holds(h)',
         \A e \in trace' : e \in trace \/ (e[1] \in Sessions /\ BoundTo(e[1], e[2])')
  PROVE  OwnerInv'
<1>1. \A g \in Handlers : Holds(g)'
  BY OthersHold
<1> QED BY <1>1, OwnedStays DEF OwnerInv

\* A server goes on with the same call and says nothing to a helper.
LEMMA StepKeeps ==
  ASSUME OwnerInv, NEW h \in Handlers, NEW to \in Places, pc' = [pc EXCEPT ![h] = to],
         UNCHANGED <<job, seen, owner, lock, exit, sent, trace>>, Holds(h)'
  PROVE  OwnerInv'
<1>1. StateTyped' /\ CallsTyped'
  BY DEF OwnerInv, StateTyped, CallsTyped
<1>2. Apart(h)
  BY DEF Apart, OwnerInv, StateTyped
<1> QED BY <1>1, <1>2, OneServer

\* A server that leaves its call holds nothing.
LEMMA LeaveHolds ==
  ASSUME OwnerInv, NEW h \in Handlers, NEW ok, Leave(h, ok), UNCHANGED sent,
         owner' = [s \in Sessions |-> owner'[s]],
         \A s \in Sessions : owner'[s] = owner[s] \/ (owner[s] = NoOwner /\ lock[s] = h),
         \A e \in trace' : e \in trace \/ (e[1] \in Sessions /\ BoundTo(e[1], e[2])')
  PROVE  OwnerInv'
<1>1. /\ pc' = [pc EXCEPT ![h] = "idle"]
      /\ job' = [job EXCEPT ![h] = [call |-> NoCall, key |-> NoKey]]
      /\ seen' = [seen EXCEPT ![h] = NoOwner]
      /\ lock' = [s \in Sessions |-> IF lock[s] = h THEN NoCall ELSE lock[s]]
      /\ Answer(job[h].call, ok)
  BY DEF Leave
<1>2. StateTyped'
  BY <1>1 DEF OwnerInv, StateTyped, Places
<1>3. CallsTyped'
  <2>1. CASE exit' = exit
    BY <2>1 DEF OwnerInv, CallsTyped
  <2>2. CASE /\ job[h].call \in HostCalls /\ exit[job[h].call] = Running
             /\ \E code : exit' = [exit EXCEPT ![job[h].call] = code]
    BY <2>2 DEF OwnerInv, CallsTyped
  <2> QED BY <1>1, <2>1, <2>2 DEF Answer, Waits
<1>4. Apart(h)
  BY <1>1 DEF Apart, OwnerInv, StateTyped
<1>5. Holds(h)'
  <2>1. pc'[h] = "idle"
    BY <1>1 DEF OwnerInv, StateTyped
  <2> QED BY <2>1 DEF Holds
<1> QED BY <1>2, <1>3, <1>4, <1>5, OneServer

LEMMA TakeHolds ==
  ASSUME OwnerInv, NEW h \in Handlers, NEW m \in sent, Take(h, m)
  PROVE  OwnerInv'
<1>1. /\ job' = [job EXCEPT ![h] = [call |-> m.call, key |-> m.key]]
      /\ UNCHANGED <<sent, owner, lock, seen, exit, trace>>
      /\ m.call \in DOMAIN Request /\ m.key \in Keys \union {NoKey}
  BY DEF Take, OwnerInv, CallsTyped
<1>2. PICK to \in {"key", "tool"} :
        /\ pc' = [pc EXCEPT ![h] = to]
        /\ to = "key" => m.key # NoKey
        /\ to = "tool" => m.key = NoKey /\ Request[m.call].tool \notin WriteTools
  BY DEF Take
<1>3. StateTyped' /\ CallsTyped'
  BY <1>1, <1>2 DEF OwnerInv, StateTyped, CallsTyped, Places
<1>4. Apart(h)
  BY <1>1, <1>2 DEF Apart, OwnerInv, StateTyped
<1>5. pc'[h] = to /\ job'[h].call = m.call /\ job'[h].key = m.key
  BY <1>1, <1>2 DEF OwnerInv, StateTyped
<1>6. Holds(h)'
  BY <1>1, <1>2, <1>5 DEF Holds, ToolOf
<1> QED BY <1>1, <1>3, <1>4, <1>6, OneServer

\* The session of a call that has passed the gate is a session.
LEMMA SessionIsSession ==
  ASSUME OwnerInv, NEW h \in Handlers, pc[h] # "idle"
  PROVE  /\ SessionOf(h) \in Sessions
         /\ Identity(job[h]) # NoOwner
         /\ Identity(job[h]).project = Request[job[h].call].project
<1>1. job[h].call \in DOMAIN Request /\ job[h].key \in Keys \union {NoKey}
  BY DEF OwnerInv, Holds
<1>2. Identity(job[h]) = Identity([call |-> job[h].call, key |-> job[h].key])
  BY DEF Identity
<1>3. Identity([call |-> job[h].call, key |-> job[h].key]) # NoOwner
  BY <1>1, OwnersAssumption
<1> QED BY <1>1, <1>2, <1>3, CallsAssumption DEF SessionOf, Identity

\* The checks before the tool: the session of a call that names one is the
\* caller's.
LEMMA ChecksHold ==
  ASSUME OwnerInv, NEW h \in Handlers, CheckKey(h) \/ InsertNonce(h) \/ CommitNonce(h)
  PROVE  OwnerInv'
<1>1. PICK from \in {"key", "nonce", "commit"}, to \in {"nonce", "commit", "tool"} :
        /\ pc[h] = from /\ pc' = [pc EXCEPT ![h] = to]
        /\ from = "key" /\ ToolOf(h) # "session_open" => BoundTo(SessionOf(h), Identity(job[h]))
  BY DEF CheckKey, InsertNonce, CommitNonce
<1>2. UNCHANGED <<job, seen, owner, lock, exit, sent, trace>>
  BY DEF CheckKey, InsertNonce, CommitNonce
<1>3. pc'[h] = to
  BY <1>1 DEF OwnerInv, StateTyped
<1>4. /\ job[h].call \in DOMAIN Request /\ job[h].key \in Keys /\ job[h].key # NoKey
      /\ ToolOf(h) # "session_open" => BoundTo(SessionOf(h), Identity(job[h]))
  BY <1>1 DEF OwnerInv, Holds
<1>5. Holds(h)'
  BY <1>1, <1>2, <1>3, <1>4 DEF Holds, ToolOf, SessionOf, Identity, BoundTo
<1> QED BY <1>1, <1>2, <1>5, StepKeeps DEF Places

LEMMA LockHolds ==
  ASSUME OwnerInv, NEW h \in Handlers, LockSession(h)
  PROVE  OwnerInv'
<1>1. /\ pc[h] = "tool" /\ pc' = [pc EXCEPT ![h] = "open"]
      /\ lock[SessionOf(h)] = NoCall /\ lock' = [lock EXCEPT ![SessionOf(h)] = h]
      /\ UNCHANGED <<job, seen, owner, exit, sent, trace>>
  BY DEF LockSession
<1>2. SessionOf(h) \in Sessions
  BY <1>1, SessionIsSession
<1>3. StateTyped' /\ CallsTyped'
  BY <1>1 DEF OwnerInv, StateTyped, CallsTyped, Places
<1>4. Apart(h)
  BY <1>1 DEF Apart, OwnerInv, StateTyped
<1>5. pc'[h] = "open" /\ lock'[SessionOf(h)] = h /\ SessionOf(h)' = SessionOf(h)
  BY <1>1, <1>2 DEF OwnerInv, StateTyped, SessionOf
<1>6. Holds(h)'
  BY <1>1, <1>5 DEF OwnerInv, Holds
<1> QED BY <1>1, <1>3, <1>4, <1>6, OneServer

LEMMA ReadHolds ==
  ASSUME OwnerInv, NEW h \in Handlers, ReadSession(h)
  PROVE  OwnerInv'
<1>1. /\ pc[h] = "open" /\ pc' = [pc EXCEPT ![h] = "upsert"]
      /\ owner[SessionOf(h)] \in {NoOwner, Identity(job[h])}
      /\ seen' = [seen EXCEPT ![h] = owner[SessionOf(h)]]
      /\ UNCHANGED <<job, owner, lock, exit, sent, trace>>
  BY DEF ReadSession, RequireSessionIdentity
<1>2. StateTyped' /\ CallsTyped'
  BY <1>1 DEF OwnerInv, StateTyped, CallsTyped, Places
<1>3. Apart(h)
  BY <1>1 DEF Apart, OwnerInv, StateTyped
<1>4. /\ pc'[h] = "upsert" /\ seen'[h] = owner[SessionOf(h)] /\ SessionOf(h)' = SessionOf(h)
      /\ Identity(job[h])' = Identity(job[h])
  BY <1>1 DEF OwnerInv, StateTyped, SessionOf, Identity
<1>5. Holds(h)'
  BY <1>1, <1>4 DEF OwnerInv, Holds
<1> QED BY <1>1, <1>2, <1>3, <1>5, OneServer

\* The row is as it was read, because nobody else has had the lock.
LEMMA UpsertHolds ==
  ASSUME OwnerInv, NEW h \in Handlers, UpsertSession(h)
  PROVE  OwnerInv'
<1> DEFINE s == SessionOf(h)
           id == Identity(job[h])
<1>1. /\ pc[h] = "upsert" /\ Leave(h, TRUE) /\ sent' = sent
      /\ owner' = IF seen[h] = NoOwner THEN [owner EXCEPT ![s] = id] ELSE owner
      /\ trace' = trace \union {<<s, id>>}
  BY DEF UpsertSession, Entry
<1>2. /\ s \in Sessions /\ id # NoOwner /\ lock[s] = h /\ seen[h] = owner[s]
      /\ owner[s] \in {NoOwner, id}
  BY <1>1, SessionIsSession DEF OwnerInv, Holds
<1> HIDE DEF s, id
<1>3. /\ owner' = [t \in Sessions |-> owner'[t]]
      /\ owner'[s] = id
      /\ \A t \in Sessions : owner'[t] = owner[t] \/ (owner[t] = NoOwner /\ lock[t] = h)
  BY <1>1, <1>2 DEF OwnerInv, StateTyped
<1>4. \A e \in trace' : e \in trace \/ (e[1] \in Sessions /\ BoundTo(e[1], e[2])')
  BY <1>1, <1>2, <1>3 DEF BoundTo
<1> QED BY <1>1, <1>3, <1>4, LeaveHolds

\* What is written in a session is its owner's.
LEMMA WriteHolds ==
  ASSUME OwnerInv, NEW h \in Handlers, Write(h) \/ Retrieve(h)
  PROVE  OwnerInv'
<1> DEFINE s == SessionOf(h)
           id == Identity(job[h])
<1>1. /\ pc[h] = "tool" /\ ToolOf(h) # "session_open" /\ Leave(h, TRUE)
      /\ UNCHANGED <<sent, owner>>
      /\ \A e \in trace' : e \in trace \/ (e = <<s, id>> /\ job[h].key # NoKey)
  BY DEF Write, Retrieve, Entry, Records, OwnerInv, Holds, WriteTools
<1>2. s \in Sessions /\ (job[h].key # NoKey => BoundTo(s, id))
  BY <1>1, SessionIsSession DEF OwnerInv, Holds
<1> HIDE DEF s, id
<1>3. \A e \in trace' : e \in trace \/ (e[1] \in Sessions /\ BoundTo(e[1], e[2])')
  BY <1>1, <1>2 DEF BoundTo
<1>4. owner' = [t \in Sessions |-> owner'[t]]
  BY <1>1 DEF OwnerInv, StateTyped
<1> QED BY <1>1, <1>3, <1>4, LeaveHolds

\* Clients and operators.
LEMMA OthersOwn ==
  ASSUME OwnerInv, UNCHANGED <<pc, job, seen, owner, lock, trace>>, CallsTyped'
  PROVE  OwnerInv'
<1>1. StateTyped' /\ TraceIsOwned'
  BY DEF OwnerInv, StateTyped, TraceIsOwned, BoundTo
<1>2. \A h \in Handlers : Holds(h)'
  BY DEF OwnerInv, Holds, SessionOf, ToolOf, Identity, BoundTo
<1> QED BY <1>1, <1>2 DEF OwnerInv

LEMMA PostOwns ==
  ASSUME OwnerInv, NEW c \in DOMAIN Request, NEW k \in Keys \union {NoKey}, Post(c, k),
         exit' = [d \in HostCalls |-> exit'[d]],
         \A d \in HostCalls : exit'[d] = Running => exit[d] = Running
  PROVE  OwnerInv'
<1>1. CallsTyped'
  BY DEF Post, OwnerInv, CallsTyped
<1> QED BY <1>1, OthersOwn DEF Post, server

\* Every step of the operator, the clients and the servers keeps the invariant.
THEOREM OwnerInvariant == Spec => []OwnerInv
<1>1. ASSUME OwnerInv, [Next]_vars PROVE OwnerInv'
  <2>1. CASE \/ Tick
             \/ \E k \in Keys : \/ Enroll(k)
                                \/ \E new \in Keys, o \in 0..1 : Rotate(k, new, o)
                                \/ \E s \in {"active", "revoked", "disabled"} : SetKeyStatus(k, s)
             \/ \E legacy \in BOOLEAN, w \in {1} : SetEnforcement(legacy, w)
             \/ UNCHANGED vars
    <3>1. UNCHANGED <<pc, job, seen, owner, lock, trace, exit, sent>>
      BY <2>1 DEF Tick, Enroll, Rotate, SetKeyStatus, SetEnforcement, server, vars
    <3>2. CallsTyped'
      BY <1>1, <3>1 DEF OwnerInv, CallsTyped
    <3> QED BY <1>1, <3>1, <3>2, OthersOwn
  <2>2. ASSUME NEW c \in HostCalls, HostGivesUp(c) PROVE OwnerInv'
    <3>1. UNCHANGED <<pc, job, seen, owner, lock, trace, sent>> /\ exit' = [exit EXCEPT ![c] = 1]
      BY <2>2 DEF HostGivesUp, server
    <3>2. CallsTyped'
      BY <1>1, <3>1 DEF OwnerInv, CallsTyped, Running
    <3> QED BY <1>1, <3>1, <3>2, OthersOwn
  <2>3. ASSUME NEW c \in DOMAIN Requests, NEW k \in Keys \union {NoKey}, Send(c, k)
        PROVE  OwnerInv'
    <3>1. c \in DOMAIN Request
      BY DEF Request
    <3>2. /\ exit' = [d \in HostCalls |-> exit'[d]]
          /\ \A d \in HostCalls : exit'[d] = Running => exit[d] = Running
      BY <1>1, <2>3 DEF Send, OwnerInv, CallsTyped
    <3> QED BY <1>1, <2>3, <3>1, <3>2, PostOwns DEF Send
  <2>4. ASSUME NEW c \in HostCalls, NEW k \in Keys, HostSigns(c, k) PROVE OwnerInv'
    <3>1. c \in DOMAIN Request
      BY <1>1, <2>4 DEF HostSigns, OwnerInv, CallsTyped, Request
    <3>2. /\ exit' = [d \in HostCalls |-> exit'[d]]
          /\ \A d \in HostCalls : exit'[d] = Running => exit[d] = Running
      BY <1>1, <2>4 DEF HostSigns, OwnerInv, CallsTyped, Running
    <3> QED BY <1>1, <2>4, <3>1, <3>2, PostOwns DEF HostSigns
  <2>5. CASE \E c \in DOMAIN Requests : \/ SendsUnsigned(c)
                                        \/ \E k \in Keys : CursorSigns(c, k) \/ WorkflowSigns(c, k)
    BY <2>3, <2>5 DEF SendsUnsigned, CursorSigns, WorkflowSigns
  <2>6. ASSUME NEW h \in Handlers, Refuse(h) \/ LoseCommit(h) PROVE OwnerInv'
    <3>1. Leave(h, FALSE) /\ UNCHANGED <<sent, owner, trace>>
      BY <2>6 DEF Refuse, LoseCommit
    <3>2. owner' = [s \in Sessions |-> owner'[s]]
      BY <1>1, <3>1 DEF OwnerInv, StateTyped
    <3> QED BY <1>1, <3>1, <3>2, LeaveHolds
  <2> QED
    BY <1>1, <2>1, <2>2, <2>4, <2>5, <2>6, TakeHolds, ChecksHold, LockHolds, ReadHolds,
       UpsertHolds, WriteHolds DEF Next
<1> QED BY <1>1, OwnerInit, PTL DEF Spec

\* Whoever opens a session key at the same time, whatever is delivered twice and
\* however the keys change: what is written under it comes from one machine and
\* goes to one project (the advisory lock, _require_session_identity,
\* _verify_bound_session).
THEOREM SessionsHaveOneOwner == Spec => []SessionHasOneOwner
<1>1. OwnerInv => SessionHasOneOwner
  BY DEF OwnerInv, TraceIsOwned, BoundTo, SessionHasOneOwner
<1> QED BY <1>1, OwnerInvariant, PTL

(******************************** helpers **********************************)
\* A call of a host helper reaches a server signed, so that the server counts it.
HostCallsAreSigned ==
  /\ \A m \in sent : m.call \in HostCalls => m.key # NoKey
  /\ \A h \in Handlers : pc[h] # "idle" /\ job[h].call \in HostCalls => job[h].key # NoKey

HelperInv == HostCallsAreSigned /\ ExitZeroMeansRan

LEMMA HelperInit == Init => HelperInv
BY DEF Init, HelperInv, HostCallsAreSigned, ExitZeroMeansRan, Running

\* What a tool has run stays run.
LEMMA RanGrows ==
  ASSUME GateInv, GateInv', NEW h \in Handlers, UNCHANGED ran \/ (pc[h] # "idle" /\ Ran(h))
  PROVE  \A c \in Calls : ran[c] = 1 => ran'[c] = 1
<1>1. ran \in [Calls -> Nat] /\ \A c \in Calls : ran'[c] <= 1 /\ ran'[c] \in Nat
  BY DEF GateInv, JobsTyped, RunOnce
<1>2. pc[h] # "idle" => job[h].call \in Calls
  BY DEF GateInv, JobsTyped
<1> QED BY <1>1, <1>2 DEF Ran

\* Steps after which the helpers know what they knew: no server begins a call or
\* answers one.
LEMMA HelpersWait ==
  ASSUME HelperInv, UNCHANGED ran,
         \A g \in Handlers : pc'[g] # "idle" => pc[g] # "idle" /\ job'[g] = job[g],
         \A m \in sent' : m \in sent \/ (m.call \in HostCalls => m.key # NoKey),
         untold \subseteq untold',
         \A c \in HostCalls : exit'[c] = 0 /\ Command[c].action = "call" => exit[c] = 0
  PROVE  HelperInv'
<1>1. HostCallsAreSigned'
  BY DEF HelperInv, HostCallsAreSigned
<1>2. ExitZeroMeansRan'
  BY DEF HelperInv, ExitZeroMeansRan
<1> QED BY <1>1, <1>2 DEF HelperInv

\* Whatever comes back: a helper ends well only after an answer that says so, or
\* one that says nothing.
LEMMA AnswerTells ==
  ASSUME OwnerInv, NEW c, NEW ok \in BOOLEAN, Answer(c, ok), NEW d \in HostCalls
  PROVE  /\ untold \subseteq untold'
         /\ exit'[d] = 0 /\ d \notin untold' => exit[d] = 0 \/ (d = c /\ ok)
<1>1. exit = [e \in HostCalls |-> exit[e]]
  BY DEF OwnerInv, CallsTyped
<1>2. CASE UNCHANGED <<exit, untold>>
  BY <1>2
<1>3. CASE Waits(c) /\ ~UNCHANGED <<exit, untold>>
  <2>1. PICK body \in Replies(Command[c]) :
               /\ exit' = [exit EXCEPT ![c] = ExitCode(body, ok)]
               /\ untold' = IF body = "untold" THEN untold \cup {c} ELSE untold
    BY <1>3 DEF Answer
  <2>2. IF d = c THEN exit'[d] = ExitCode(body, ok) ELSE exit'[d] = exit[d]
    BY <1>1, <2>1
  <2>3. ExitCode(body, ok) = 0 => ok \/ body = "untold"
    <3>1. ExitCode(body, ok) = 0 => ParseToolResult(body, ok)
      BY DEF ExitCode
    <3>2. ParseToolResult(body, ok) => ok \/ body = "untold"
      BY Zenon DEF ParseToolResult
    <3> QED BY <3>1, <3>2
  <2>4. d = c => d \in untold' \/ body # "untold"
    BY <2>1
  <2>5. untold \subseteq untold'
    BY <2>1
  <2>6. exit'[d] = 0 /\ d \notin untold' => exit[d] = 0 \/ (d = c /\ ok)
    BY <2>2, <2>3, <2>4
  <2> QED BY <2>5, <2>6
<1> QED BY <1>2, <1>3 DEF Answer

\* A server leaves a call: with good news only if it has run it.
LEMMA HelperLeave ==
  ASSUME HelperInv, OwnerInv, GateInv, GateInv', NEW h \in Handlers, NEW ok \in BOOLEAN,
         Leave(h, ok), UNCHANGED sent, IF ok THEN Ran(h) ELSE UNCHANGED ran
  PROVE  HelperInv'
<1>1. /\ pc[h] # "idle" /\ Answer(job[h].call, ok)
      /\ pc' = [pc EXCEPT ![h] = "idle"]
      /\ job' = [job EXCEPT ![h] = [call |-> NoCall, key |-> NoKey]]
  BY DEF Leave
<1>2. \A g \in Handlers : pc'[g] # "idle" => pc'[g] = pc[g] /\ job'[g] = job[g]
  BY <1>1 DEF GateInv, JobsTyped
<1>3. HostCallsAreSigned'
  BY <1>2 DEF HelperInv, HostCallsAreSigned
<1>4. ASSUME ok, job[h].call \in HostCalls PROVE ran'[job[h].call] = 1
  <2>1. job[h].key # NoKey /\ job[h].call \in Calls
    BY <1>1, <1>4 DEF HelperInv, HostCallsAreSigned, GateInv, JobsTyped
  <2>2. ran' = [ran EXCEPT ![job[h].call] = @ + 1] /\ ran \in [Calls -> Nat]
    BY <1>4, <2>1 DEF Ran, GateInv, JobsTyped
  <2>3. ran'[job[h].call] <= 1
    BY <2>1 DEF GateInv, RunOnce
  <2> QED BY <2>1, <2>2, <2>3
<1>5. \A c \in Calls : ran[c] = 1 => ran'[c] = 1
  BY <1>1, RanGrows
<1>6. ASSUME NEW c \in HostCalls, c \notin untold', exit'[c] = 0, Command[c].action = "call"
      PROVE  ran'[c] = 1
  <2>1. c \notin untold /\ (exit[c] = 0 \/ (c = job[h].call /\ ok))
    BY <1>1, <1>6, AnswerTells
  <2>2. c \in Calls
    BY CallsAssumption
  <2> QED BY <1>4, <1>5, <1>6, <2>1, <2>2 DEF HelperInv, ExitZeroMeansRan
<1> QED BY <1>3, <1>6 DEF HelperInv, ExitZeroMeansRan

\* Every step of the operator, the clients and the servers keeps the invariant.
THEOREM HelperInvariant == Spec => []HelperInv
<1>1. ASSUME HelperInv, GateInv, GateInv', OwnerInv, [Next]_vars PROVE HelperInv'
  <2>1. CASE \/ Tick
             \/ \E k \in Keys : \/ Enroll(k)
                                \/ \E new \in Keys, o \in 0..1 : Rotate(k, new, o)
                                \/ \E s \in {"active", "revoked", "disabled"} : SetKeyStatus(k, s)
             \/ \E legacy \in BOOLEAN, w \in {1} : SetEnforcement(legacy, w)
             \/ UNCHANGED vars
    <3>1. UNCHANGED <<pc, job, ran, exit, untold, sent>>
      BY <2>1 DEF Tick, Enroll, Rotate, SetKeyStatus, SetEnforcement, server, vars
    <3> QED BY <1>1, <3>1, HelpersWait
  <2>2. ASSUME NEW c \in HostCalls, HostGivesUp(c) PROVE HelperInv'
    <3>1. UNCHANGED <<pc, job, ran, sent, untold>> /\ exit' = [exit EXCEPT ![c] = 1]
      BY <2>2 DEF HostGivesUp, server
    <3>2. \A d \in HostCalls : exit'[d] = 0 => exit[d] = 0
      BY <1>1, <3>1 DEF OwnerInv, CallsTyped
    <3> QED BY <1>1, <3>1, <3>2, HelpersWait
  <2>3. ASSUME NEW c, NEW k, Post(c, k), c \in HostCalls => k # NoKey,
               \A d \in HostCalls : exit'[d] = 0 /\ Command[d].action = "call" => exit[d] = 0
        PROVE  HelperInv'
    <3>1. /\ UNCHANGED <<pc, job, ran, untold>>
          /\ \A m \in sent' : m \in sent \/ (m.call = c /\ m.key = k)
      BY <2>3 DEF Post, server
    <3> QED BY <1>1, <2>3, <3>1, HelpersWait
  <2>4. CASE \E c \in DOMAIN Requests : \/ SendsUnsigned(c)
                                        \/ \E k \in Keys : CursorSigns(c, k) \/ WorkflowSigns(c, k)
    <3>1. PICK c \in DOMAIN Requests, k \in Keys \union {NoKey} : Send(c, k)
      BY <2>4 DEF SendsUnsigned, CursorSigns, WorkflowSigns
    <3>2. c \notin HostCalls
      BY CallsAssumption
    <3> QED BY <2>3, <3>1, <3>2 DEF Send
  <2>5. ASSUME NEW c \in HostCalls, NEW k \in Keys, HostSigns(c, k) PROVE HelperInv'
    <3>1. /\ Post(c, k) /\ k # NoKey
          /\ exit' = IF Command[c].action = "sign" THEN [exit EXCEPT ![c] = 0] ELSE exit
      BY <2>5, CallsAssumption DEF HostSigns
    <3>2. \A d \in HostCalls : exit'[d] = 0 /\ Command[d].action = "call" => exit[d] = 0
      BY <1>1, <3>1 DEF OwnerInv, CallsTyped
    <3> QED BY <2>3, <3>1, <3>2
  <2>6. ASSUME NEW h \in Handlers, NEW m \in sent, Take(h, m) PROVE HelperInv'
    <3>1. /\ job' = [job EXCEPT ![h] = [call |-> m.call, key |-> m.key]]
          /\ UNCHANGED <<sent, ran, exit, untold>>
          /\ \E to : pc' = [pc EXCEPT ![h] = to]
      BY <2>6 DEF Take
    <3>2. /\ job'[h].call = m.call /\ job'[h].key = m.key
          /\ \A g \in Handlers : g # h => pc'[g] = pc[g] /\ job'[g] = job[g]
      BY <1>1, <3>1 DEF GateInv, JobsTyped
    <3>3. HostCallsAreSigned'
      BY <1>1, <3>1, <3>2 DEF HelperInv, HostCallsAreSigned
    <3> QED BY <1>1, <3>1, <3>3 DEF HelperInv, ExitZeroMeansRan
  <2>7. ASSUME NEW h \in Handlers,
               \/ CheckKey(h) \/ InsertNonce(h) \/ CommitNonce(h) \/ LockSession(h) \/ ReadSession(h)
        PROVE  HelperInv'
    <3>1. /\ pc[h] # "idle" /\ UNCHANGED <<job, sent, ran, exit, untold>>
          /\ \E to : pc' = [pc EXCEPT ![h] = to]
      BY <2>7 DEF CheckKey, InsertNonce, CommitNonce, LockSession, ReadSession
    <3>2. \A g \in Handlers : g # h => pc'[g] = pc[g]
      BY <1>1, <3>1 DEF GateInv, JobsTyped
    <3> QED BY <1>1, <3>1, <3>2, HelpersWait
  <2>8. ASSUME NEW h \in Handlers, Refuse(h) \/ LoseCommit(h) PROVE HelperInv'
    <3>1. Leave(h, FALSE) /\ UNCHANGED <<sent, ran>>
      BY <2>8 DEF Refuse, LoseCommit
    <3> QED BY <1>1, <3>1, HelperLeave
  <2>9. ASSUME NEW h \in Handlers, UpsertSession(h) \/ Write(h) \/ Retrieve(h) PROVE HelperInv'
    <3>1. Leave(h, TRUE) /\ Ran(h) /\ UNCHANGED sent
      BY <2>9 DEF UpsertSession, Write, Retrieve
    <3> QED BY <1>1, <3>1, HelperLeave
  <2> QED
    BY <1>1, <2>1, <2>2, <2>4, <2>5, <2>6, <2>7, <2>8, <2>9 DEF Next
<1> QED BY <1>1, HelperInit, GateInvariant, OwnerInvariant, PTL DEF Spec

\* Whatever becomes of messages, answers and servers: a helper that ends with
\* exit code 0 after an answer that told how it went has had its call executed,
\* once (parse_tool_result, main).
THEOREM ExitCodesAreTrue == Spec => []ExitZeroMeansRan
<1>1. HelperInv => ExitZeroMeansRan
  BY DEF HelperInv
<1> QED BY <1>1, HelperInvariant, PTL
=============================================================================
