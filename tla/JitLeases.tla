----------------------------- MODULE JitLeases -----------------------------
(***************************************************************************)
(* Just-in-time leases of tools: the leases and the capability profiles in *)
(* PostgreSQL, and the tools that the gateway shows to the one virtual key *)
(* all projects share.  The two stores have no transaction in common: the  *)
(* workflow commits its lease and then asks the gateway to grant, or to    *)
(* revoke; the memory server and the recovery of the work queue expire     *)
(* leases without asking the gateway anything.  Profiles that are set other *)
(* than by a lease (core_active, operator_only) are not modelled.          *)
(***************************************************************************)
EXTENDS Naturals

CONSTANTS
  Projects,
  Tools,      \* lease names: a tool, or a group of tools
  Bridged,    \* those the gateway knows, the OpenRouter ones
  Leases,     \* rows of capability_leases
  Procs,      \* processes of the workflow
  MaxFaults,  \* how many requests fail and how many processes are killed
  None

ASSUME BridgedAssumption == Bridged \subseteq Tools
\* The virtual key has no openrouter entry, or one without tools.
Hidden == {"absent", "empty"}

ASSUME HiddenAssumption == Hidden \cap Tools = {}
ASSUME MaxFaultsAssumption == MaxFaults \in Nat
LeaseRow ==
  [project : Projects, tool : Tools, status : {"active", "expired", "revoked"}]

ASSUME NoneAssumption ==
  None \notin Tools \cup LeaseRow

VARIABLES
  lease,    \* the rows of capability_leases
  due,      \* leases whose lease_expires_at is past
  profile,  \* capability_profiles.tool_state
  exposed,  \* tools_to_execute of the virtual key's openrouter entry
  place,    \* where each process is
  granting, \* the tool a process is about to grant
  faults,
  clean     \* history: nothing failed, the workflow alone has expired leases,
            \* and no two of its changes overlapped

leaseVars == <<lease, due, profile, exposed, place, granting, faults, clean>>

\* The types: leases, profiles and what the gateway shows.  The gateway is asked
\* about none but its own tools.
TypeOK ==
  /\ lease \in [Leases -> LeaseRow \cup {None}]
  /\ due \subseteq {l \in Leases : lease[l] # None}
  /\ profile \in [Projects -> [Tools -> {"dormant", "jit_leased"}]]
  /\ exposed \in Bridged \cup Hidden
  /\ place \in [Procs -> {"idle", "grant", "revoke", "remove", "clear"}]
  /\ granting \in [Procs -> Tools \cup {None}]
  /\ faults \in 0..MaxFaults
  /\ clean \in BOOLEAN

LeaseInit ==
  /\ lease = [l \in Leases |-> None]
  /\ due = {}
  /\ profile = [j \in Projects |-> [t \in Tools |-> "dormant"]]
  /\ exposed = "absent"
  /\ place = [p \in Procs |-> "idle"]
  /\ granting = [p \in Procs |-> None]
  /\ faults = 0
  /\ clean = TRUE

----------------------------------------------------------------------------

Leased(l, j, t, s) == lease[l] = [project |-> j, tool |-> t, status |-> s]

Active(l) == lease[l] # None /\ lease[l].status = "active"

Goto(p, where) == place' = [place EXCEPT ![p] = where]

Fault ==
  /\ faults < MaxFaults
  /\ faults' = faults + 1
  /\ clean' = FALSE

NoFault == UNCHANGED <<faults, clean>>

\* A process begins a change: cleanly, if no other process is in one.
Quiet == \A p \in Procs : place[p] = "idle"
Begins(p) ==
  /\ place[p] = "idle"
  /\ clean' = (clean /\ Quiet)
  /\ UNCHANGED faults

\* Whether the gateway is asked.
IsBridged(t) == t \in Bridged

\* create_jit_lease: the row and the profile in one transaction, which may
\* fail; the gateway is asked after it.
AfterRollback(t) == "idle"

\* _bridge_grant_for_tool, if that is where the process goes.
Asks(p, t, where) ==
  /\ Goto(p, where)
  /\ granting' = IF where = "grant" THEN [granting EXCEPT ![p] = t] ELSE granting

CreateLease(p, l, j, t) ==
  /\ Begins(p)
  /\ lease[l] = None
  /\ \/ /\ lease' = [lease EXCEPT ![l] =
                       [project |-> j, tool |-> t, status |-> "active"]]
        /\ profile' = [profile EXCEPT ![j][t] = "jit_leased"]
        /\ Asks(p, t, IF IsBridged(t) THEN "grant" ELSE "idle")
     \/ /\ UNCHANGED <<lease, profile>>
        /\ Asks(p, t, AfterRollback(t))
  /\ UNCHANGED <<due, exposed>>

\* grant_tools: the tools of this lease replace those of any other.  A request
\* that fails may have been carried out.
Grant(p) ==
  /\ place[p] = "grant"
  /\ Goto(p, "idle")
  /\ \/ exposed' = granting[p] /\ NoFault
     \/ Fault /\ exposed' \in {exposed, granting[p]}
  /\ granting' = [granting EXCEPT ![p] = None]
  /\ UNCHANGED <<lease, due, profile>>

\* A lease runs out.
RunsOut(l) ==
  /\ Active(l)
  /\ l \notin due
  /\ due' = due \cup {l}
  /\ UNCHANGED <<lease, profile, exposed, place, granting, faults, clean>>

Lapsed(J) == {l \in due : Active(l) /\ lease[l].project \in J}

Expired(J) ==
  [l \in Leases |-> IF l \in Lapsed(J)
                    THEN [lease[l] EXCEPT !.status = "expired"] ELSE lease[l]]

\* The tools put to sleep: those of any lease that has ever expired, not only
\* of those that expire now.  (SleepsNow is a faulty variant.)
SleepsNow(j) == {lease[l].tool : l \in Lapsed({j})}
Sleeps(j) ==
  {t \in Tools : \E l \in Leases :
     Leased(l, j, t, "expired") \/ (l \in Lapsed({j}) /\ lease[l].tool = t)}

\* expire_wf_jit_leases.
ExpireLeases(j) ==
  /\ lease' = Expired({j})
  /\ profile' = [profile EXCEPT ![j] =
       [t \in Tools |-> IF t \in Sleeps(j) THEN "dormant" ELSE @[t]]]
  /\ UNCHANGED <<due, exposed, granting>>

\* expire_jit_leases asks the gateway only if some lease has expired in this
\* very call.  (AfterExpiryLast is a faulty variant.)
AfterExpiryLast(j) ==
  IF Lapsed({j}) # {} /\ \A l \in Leases : Active(l) => l \in Lapsed({j})
  THEN "revoke" ELSE "idle"
AfterExpiry(j) == IF Lapsed({j}) # {} THEN "revoke" ELSE "idle"

Expire(p, j) ==
  /\ Begins(p)
  /\ ExpireLeases(j)
  /\ Goto(p, AfterExpiry(j))

\* get_project_capability_profile of the memory server.
ServerExpire(j) ==
  /\ ExpireLeases(j)
  /\ clean' = (clean /\ Lapsed({j}) = {})
  /\ UNCHANGED <<place, faults>>

\* recover_expired_work expires the leases of all projects and leaves the
\* profiles alone.
RecoverExpire ==
  /\ lease' = Expired(Projects)
  /\ clean' = (clean /\ Lapsed(Projects) = {})
  /\ UNCHANGED <<due, profile, exposed, place, granting, faults>>

\* revoke_lease, whatever the status of the lease; the profile of its tool goes
\* to sleep.
AfterRevocation(s) == "dormant"

Revoke(p, l) ==
  /\ Begins(p)
  /\ lease[l] # None
  /\ lease' = [lease EXCEPT ![l].status = "revoked"]
  /\ profile' = [profile EXCEPT ![lease[l].project][lease[l].tool] = AfterRevocation(@)]
  /\ Goto(p, IF IsBridged(lease[l].tool) THEN "revoke" ELSE "idle")
  /\ UNCHANGED <<due, exposed, granting>>

----------------------------------------------------------------------------
(* revoke_openrouter_tools: read the key; remove the entry, whoever's tools *)
(* it has; if that fails read again and empty the entry.                   *)

RevokeRead(p) ==
  /\ place[p] = "revoke"
  /\ \/ Goto(p, IF exposed = "absent" THEN "idle" ELSE "remove") /\ NoFault
     \/ Fault /\ Goto(p, "idle")
  /\ UNCHANGED <<lease, due, profile, exposed, granting>>

RevokeRemove(p) ==
  /\ place[p] = "remove"
  /\ \/ exposed' = "absent" /\ Goto(p, "idle") /\ NoFault
     \/ Fault /\ Goto(p, "clear") /\ exposed' \in {exposed, "absent"}
  /\ UNCHANGED <<lease, due, profile, granting>>

Emptied == IF exposed = "absent" THEN "absent" ELSE "empty"

RevokeClear(p) ==
  /\ place[p] = "clear"
  /\ Goto(p, "idle")
  /\ \/ exposed' = Emptied /\ NoFault
     \/ Fault /\ exposed' \in {exposed, Emptied}
  /\ UNCHANGED <<lease, due, profile, granting>>

\* The process is killed: what it has committed stays.
Kill(p) ==
  /\ place[p] # "idle"
  /\ Fault
  /\ Goto(p, "idle")
  /\ granting' = [granting EXCEPT ![p] = None]
  /\ UNCHANGED <<lease, due, profile, exposed>>

----------------------------------------------------------------------------

LeaseNext ==
  \/ \E p \in Procs :
       \/ \E l \in Leases, j \in Projects, t \in Tools : CreateLease(p, l, j, t)
       \/ \E j \in Projects : Expire(p, j)
       \/ \E l \in Leases : Revoke(p, l)
       \/ Grant(p) \/ RevokeRead(p) \/ RevokeRemove(p) \/ RevokeClear(p) \/ Kill(p)
  \/ \E l \in Leases : RunsOut(l)
  \/ \E j \in Projects : ServerExpire(j)
  \/ RecoverExpire

LeaseSpec == LeaseInit /\ [][LeaseNext]_leaseVars

\* The server expires leases whenever a client asks for its startup context.
FairSpec == LeaseSpec /\ \A j \in Projects : WF_leaseVars(ServerExpire(j))

----------------------------------------------------------------------------

\* A tool the profile says is leased has a lease that is active, or one that
\* has expired and by which the next expiry finds it: no other way leads the
\* profile back.
LeasedHasLease ==
  \A j \in Projects, t \in Tools :
    profile[j][t] = "jit_leased" =>
      \E l \in Leases : Leased(l, j, t, "active") \/ Leased(l, j, t, "expired")

\* The gateway never shows a tool for which no lease was ever committed,
\* whatever fails and whoever is killed.
NothingUnleasedExposed ==
  exposed \in Tools => \E l \in Leases : lease[l] # None /\ lease[l].tool = exposed

\* A tool all of whose leases have ended does not stay leased in the profile,
\* whoever expired them.
ProfilesLapse ==
  \A j \in Projects, t \in Tools :
    profile[j][t] = "jit_leased" /\ (\A l \in Leases : ~Leased(l, j, t, "active"))
      ~> profile[j][t] = "dormant" \/ \E l \in Leases : Leased(l, j, t, "active")

\* When nobody is in the middle of a change, the gateway shows only the tools
\* of a lease that is active in PostgreSQL, as long as no request has failed,
\* no process has died, nobody else has expired leases, and no two changes
\* have overlapped; no weaker condition will do.
ExposureHasLease ==
  clean /\ Quiet /\ exposed \in Tools => \E l \in Leases : Active(l) /\ lease[l].tool = exposed

\* "Failure leaves tools hidden": when nobody is in the middle of a change, a
\* tool all of whose leases were revoked is not shown, although requests to the
\* gateway fail and processes are killed after the revocation was committed.
\* The code does not keep it (README, section 5).
RevokedIsHidden ==
  Quiet /\ exposed \in Tools =>
    \E l \in Leases : lease[l] # None /\ lease[l].tool = exposed /\ lease[l].status # "revoked"

\* "No expired PostgreSQL leases still retaining Bifrost exposure": when nobody
\* is in the middle of a change, a tool of an expired lease is shown only if
\* another one of its leases is active, whoever has expired it.  The code does
\* not keep it (README, section 5).
ExpiredIsHidden ==
  \A l \in Leases : Quiet /\ lease[l] # None /\ lease[l].status = "expired" /\ lease[l].tool = exposed
    => \E m \in Leases : Active(m) /\ lease[m].tool = exposed

=============================================================================
