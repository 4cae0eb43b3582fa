------------------------------- MODULE Storage -------------------------------
(***************************************************************************)
(* Persistent storage: the volume manager (persistent_volume.c), the claim  *)
(* manager (persistent_volume_claim.c) and the storage classes              *)
(* (storage_class.c), each a table behind a mutex of its own.               *)
(*                                                                          *)
(* No function of theirs binds both sides.  The threads that call them,     *)
(* which are not in the repository, look for a volume, bind the volume to   *)
(* the claim and bind the claim to the volume in three calls; one more      *)
(* thread releases volumes whose claim has gone.  A row that is not in its  *)
(* table has phase "none".                                                  *)
(***************************************************************************)
EXTENDS Integers, FiniteSets

CONSTANTS
    StVolumes,  \* names of volumes
    StClaims,   \* (namespace, name) pairs of claims
    StClasses,  \* names of storage classes besides "default"
    StClassRows,\* the fields callers give to classes
    StPolicies, \* reclaim policies, "Delete" among them
    StBinders,  \* threads that bind claims
    MaxVolumes  \* 500 in the code: size of the table of volumes

VARIABLES
    pvPhase,    \* phase of a volume, "none" if it is not in the table
    pvClaim,    \* bound_pvc_namespace and bound_pvc_name, or NoClaim
    pvPolicy,   \* reclaim_policy
    pvcPhase,   \* phase of a claim, "none" if it is not in the table
    pvcVolume,  \* bound_pv_name, or NoVolume
    pvcUsed,    \* claims that have ever been in the table
    classes,    \* storage classes: NoClass, or their fields
    binder,     \* where a binder is
    releaser    \* the volume and claim the releaser has found, or <<>>

stVars == <<pvPhase, pvClaim, pvPolicy, pvcPhase, pvcVolume, pvcUsed,
            classes, binder, releaser>>

NoClaim == "no claim"
NoVolume == "no volume"
NoClass == [policy |-> "none", is_default |-> FALSE, hostpath |-> FALSE]
StIdle == <<>>

pv_phase_t == {"Available", "Bound", "Released", "Failed", "Pending"}
pvc_phase_t == {"Pending", "Bound", "Lost", "Failed"}
ClassNames == StClasses \cup {"default"}
AllPolicies == {"Delete", "Retain", "Recycle"}
storage_class_t == [policy : AllPolicies, is_default : BOOLEAN, hostpath : BOOLEAN]

ASSUME StAssumption ==
    /\ NoClaim \notin StClaims
    /\ NoVolume \notin StVolumes
    /\ {"Delete"} \subseteq StPolicies /\ StPolicies \subseteq AllPolicies
    /\ StClassRows \subseteq storage_class_t
    /\ MaxVolumes \in Nat

StTypeOK ==
    /\ pvPhase \in [StVolumes -> pv_phase_t \cup {"none"}]
    /\ pvClaim \in [StVolumes -> StClaims \cup {NoClaim}]
    /\ pvPolicy \in [StVolumes -> StPolicies]
    /\ pvcPhase \in [StClaims -> pvc_phase_t \cup {"none"}]
    /\ pvcVolume \in [StClaims -> StVolumes \cup {NoVolume}]
    /\ pvcUsed \subseteq StClaims
    /\ classes \in [ClassNames -> storage_class_t \cup {NoClass}]
    /\ binder \in [StBinders -> {StIdle} \cup ({"found", "held"} \X StClaims \X StVolumes)]
    /\ releaser \in {StIdle} \cup (StVolumes \X StClaims)

find_pv_index(v) == pvPhase[v] # "none"
find_pvc_index(c) == pvcPhase[c] # "none"
find_sc_index(s) == classes[s] # NoClass

\* pv_manager_init, pvc_manager_init and sc_manager_init.
StInit ==
    /\ pvPhase = [v \in StVolumes |-> "none"]
    /\ pvClaim = [v \in StVolumes |-> NoClaim]
    /\ pvPolicy = [v \in StVolumes |-> "Delete"]
    /\ pvcPhase = [c \in StClaims |-> "none"]
    /\ pvcVolume = [c \in StClaims |-> NoVolume]
    /\ pvcUsed = {}
    /\ classes = [s \in ClassNames |->
         IF s = "default" THEN [policy |-> "Delete", is_default |-> TRUE, hostpath |-> TRUE]
         ELSE NoClass]
    /\ binder = [b \in StBinders |-> StIdle]
    /\ releaser = StIdle

claimVars == <<pvcPhase, pvcVolume, pvcUsed>>
callerVars == <<binder, releaser>>

-----------------------------------------------------------------------------
\* Volumes.
pv_create(v, policy) ==
    /\ ~find_pv_index(v)
    /\ Cardinality({w \in StVolumes : find_pv_index(w)}) < MaxVolumes
    /\ pvPhase' = [pvPhase EXCEPT ![v] = "Available"]
    /\ pvClaim' = [pvClaim EXCEPT ![v] = NoClaim]
    /\ pvPolicy' = [pvPolicy EXCEPT ![v] = policy]
    /\ UNCHANGED <<claimVars, classes, callerVars>>

\* pv_update overwrites the row with what the caller passes; the callers pass
\* the row they have just read, with another policy.
pv_update(v, policy) ==
    /\ find_pv_index(v)
    /\ pvPolicy' = [pvPolicy EXCEPT ![v] = policy]
    /\ UNCHANGED <<pvPhase, pvClaim, claimVars, classes, callerVars>>

pv_delete(v) ==
    /\ find_pv_index(v)
    /\ ~(pvPhase[v] = "Bound" /\ pvClaim[v] # NoClaim)
    /\ pvPhase' = [pvPhase EXCEPT ![v] = "none"]
    /\ pvClaim' = [pvClaim EXCEPT ![v] = NoClaim]
    /\ pvPolicy' = [pvPolicy EXCEPT ![v] = "Delete"]
    /\ UNCHANGED <<claimVars, classes, callerVars>>

pv_set_phase(v, phase) ==
    /\ find_pv_index(v)
    /\ pvPhase' = [pvPhase EXCEPT ![v] = phase]
    /\ UNCHANGED <<pvClaim, pvPolicy>>

pv_is_available(v) == pvPhase[v] = "Available"
pv_get_bound_pvc(v) == IF pvPhase[v] = "Bound" THEN pvClaim[v] ELSE NoClaim

\* Mutant of pv_bind_to_pvc: the phase of the volume is not looked at.
pv_bind_to_pvc_unchecked(v, c) ==
    /\ find_pv_index(v)
    /\ pvPhase' = [pvPhase EXCEPT ![v] = "Bound"]
    /\ pvClaim' = [pvClaim EXCEPT ![v] = c]
    /\ UNCHANGED pvPolicy

\* A released volume may be bound again.
pv_bind_to_pvc(v, c) ==
    /\ pvPhase[v] \in {"Available", "Released"}
    /\ pvPhase' = [pvPhase EXCEPT ![v] = "Bound"]
    /\ pvClaim' = [pvClaim EXCEPT ![v] = c]
    /\ UNCHANGED pvPolicy

pv_unbind_from_pvc(v) ==
    /\ find_pv_index(v)
    /\ pvPhase' = [pvPhase EXCEPT ![v] = IF @ = "Bound" THEN "Released" ELSE @]
    /\ pvClaim' = [pvClaim EXCEPT ![v] = NoClaim]
    /\ UNCHANGED pvPolicy

\* pv_reclaim does not look at the phase.
pv_reclaim(v) ==
    /\ find_pv_index(v)
    /\ pvPhase' = [pvPhase EXCEPT ![v] =
                     IF pvPolicy[v] = "Recycle" THEN "Available" ELSE "Released"]
    /\ pvClaim' = [pvClaim EXCEPT ![v] = NoClaim]
    /\ UNCHANGED pvPolicy

-----------------------------------------------------------------------------
\* Claims.
pvc_create(c) ==
    /\ ~find_pvc_index(c)
    /\ pvcPhase' = [pvcPhase EXCEPT ![c] = "Pending"]
    /\ pvcVolume' = [pvcVolume EXCEPT ![c] = NoVolume]
    /\ pvcUsed' = pvcUsed \cup {c}
    /\ UNCHANGED <<pvPhase, pvClaim, pvPolicy, classes, callerVars>>

\* The volume of a bound claim is left as it is.
pvc_delete(c) ==
    /\ find_pvc_index(c)
    /\ pvcPhase' = [pvcPhase EXCEPT ![c] = "none"]
    /\ pvcVolume' = [pvcVolume EXCEPT ![c] = NoVolume]
    /\ UNCHANGED <<pvcUsed, pvPhase, pvClaim, pvPolicy, classes, callerVars>>

pvc_set_phase(c, phase) ==
    /\ find_pvc_index(c)
    /\ pvcPhase' = [pvcPhase EXCEPT ![c] = phase]
    /\ UNCHANGED <<pvcVolume, pvcUsed, pvPhase, pvClaim, pvPolicy, classes, callerVars>>

pvc_bind_to_pv(c, v) ==
    IF pvcPhase[c] = "Pending"
    THEN /\ pvcPhase' = [pvcPhase EXCEPT ![c] = "Bound"]
         /\ pvcVolume' = [pvcVolume EXCEPT ![c] = v]
         /\ UNCHANGED pvcUsed
    ELSE UNCHANGED claimVars

pvc_unbind_from_pv(c) ==
    /\ find_pvc_index(c)
    /\ pvcPhase' = [pvcPhase EXCEPT ![c] = "Lost"]
    /\ pvcVolume' = [pvcVolume EXCEPT ![c] = NoVolume]
    /\ UNCHANGED <<pvcUsed, pvPhase, pvClaim, pvPolicy, classes, callerVars>>

pvc_get_bound_pv(c) == IF pvcPhase[c] = "Bound" THEN pvcVolume[c] ELSE NoVolume

\* The loop never loads the volume it looks at, so the name it asks about and
\* the access modes it compares are whatever is in the uninitialised struct:
\* any volume may be found that is available when it is asked for.
pvc_find_matching_pv(b, c, v) ==
    /\ binder[b] = StIdle
    /\ find_pvc_index(c) /\ pv_is_available(v)
    /\ binder' = [binder EXCEPT ![b] = <<"found", c, v>>]
    /\ UNCHANGED <<pvPhase, pvClaim, pvPolicy, claimVars, classes, releaser>>

-----------------------------------------------------------------------------
\* The callers: bind the volume, then the claim; a binder whose second call is
\* refused leaves the volume to the releaser.
BindVolume(b) ==
    /\ binder[b] # StIdle /\ binder[b][1] = "found"
    /\ LET c == binder[b][2]  v == binder[b][3] IN
       \/ /\ pv_bind_to_pvc(v, c)
          /\ binder' = [binder EXCEPT ![b] = <<"held", c, v>>]
       \/ /\ pvPhase[v] \notin {"Available", "Released"}
          /\ binder' = [binder EXCEPT ![b] = StIdle]
          /\ UNCHANGED <<pvPhase, pvClaim, pvPolicy>>
    /\ UNCHANGED <<claimVars, classes, releaser>>

BindClaim(b) ==
    /\ binder[b] # StIdle /\ binder[b][1] = "held"
    /\ pvc_bind_to_pv(binder[b][2], binder[b][3])
    /\ binder' = [binder EXCEPT ![b] = StIdle]
    /\ UNCHANGED <<pvPhase, pvClaim, pvPolicy, classes, releaser>>

\* The releaser reads a bound volume's claim (pv_get_bound_pvc) and looks the
\* claim up: it goes on if the claim is gone, or has settled without the volume.
FindReleasable(v) ==
    /\ releaser = StIdle
    /\ pv_get_bound_pvc(v) # NoClaim
    /\ pvcPhase[pvClaim[v]] # "Pending"
    /\ pvc_get_bound_pv(pvClaim[v]) # v
    /\ releaser' = <<v, pvClaim[v]>>
    /\ UNCHANGED <<pvPhase, pvClaim, pvPolicy, claimVars, classes, binder>>

\* sc_reclaim_pv: pv_delete refuses a bound volume; the other two policies set
\* its phase and leave the claim's name in it.
sc_reclaim_pv(s, v) ==
    /\ find_sc_index(s) /\ find_pv_index(v)
    /\ \/ classes[s].policy = "Retain" /\ pv_set_phase(v, "Released")
       \/ classes[s].policy = "Recycle" /\ pv_set_phase(v, "Available")

Release ==
    /\ releaser # StIdle
    /\ \/ pv_unbind_from_pvc(releaser[1])
       \/ pv_reclaim(releaser[1])
       \/ \E s \in ClassNames : sc_reclaim_pv(s, releaser[1])
    /\ releaser' = StIdle
    /\ UNCHANGED <<claimVars, classes, binder>>

-----------------------------------------------------------------------------
\* Storage classes.  A class created or made the default takes the flag from
\* the others; an update copies the flag it is given.
sc_create(s, class) ==
    /\ ~find_sc_index(s)
    /\ classes' = [t \in ClassNames |->
         IF t = s THEN class
         ELSE IF class.is_default /\ find_sc_index(t)
              THEN [classes[t] EXCEPT !.is_default = FALSE] ELSE classes[t]]
    /\ UNCHANGED <<pvPhase, pvClaim, pvPolicy, claimVars, callerVars>>

sc_update(s, class) ==
    /\ find_sc_index(s)
    /\ classes' = [classes EXCEPT ![s] = class]
    /\ UNCHANGED <<pvPhase, pvClaim, pvPolicy, claimVars, callerVars>>

sc_delete(s) ==
    /\ find_sc_index(s)
    /\ ~classes[s].is_default
    /\ classes' = [classes EXCEPT ![s] = NoClass]
    /\ UNCHANGED <<pvPhase, pvClaim, pvPolicy, claimVars, callerVars>>

sc_set_default(s) ==
    /\ find_sc_index(s)
    /\ classes' = [t \in ClassNames |->
         IF find_sc_index(t) THEN [classes[t] EXCEPT !.is_default = (t = s)] ELSE NoClass]
    /\ UNCHANGED <<pvPhase, pvClaim, pvPolicy, claimVars, callerVars>>

\* A class whose provisioner is not the host path one provisions nothing.
\* The policy of the class is not copied to the volume.
sc_provision_hostpath_pv(v) == pv_create(v, "Delete")

sc_provision_pv(s, v) ==
    /\ find_sc_index(s) /\ classes[s].hostpath
    /\ sc_provision_hostpath_pv(v)

-----------------------------------------------------------------------------
\* What the callers keep to: a claim's name is not used twice, phases are set
\* by hand only on volumes and claims that are not bound.
StNext ==
    \/ \E v \in StVolumes : \E policy \in StPolicies : pv_create(v, policy) \/ pv_update(v, policy)
    \/ \E v \in StVolumes : pv_delete(v) \/ FindReleasable(v)
    \/ \E v \in StVolumes : \E phase \in {"Failed", "Available"} :
         /\ pvPhase[v] # "Bound" /\ pv_set_phase(v, phase)
         /\ UNCHANGED <<claimVars, classes, callerVars>>
    \/ \E c \in StClaims : c \notin pvcUsed /\ pvc_create(c)
    \/ \E c \in StClaims : pvc_delete(c) \/ pvc_unbind_from_pv(c)
    \/ \E c \in StClaims : pvcPhase[c] = "Pending" /\ pvc_set_phase(c, "Failed")
    \/ \E b \in StBinders : \E c \in StClaims : \E v \in StVolumes : pvc_find_matching_pv(b, c, v)
    \/ \E b \in StBinders : BindVolume(b) \/ BindClaim(b)
    \/ Release
    \/ \E s \in ClassNames : \E class \in StClassRows : sc_create(s, class) \/ sc_update(s, class)
    \/ \E s \in ClassNames : sc_delete(s) \/ sc_set_default(s)
    \/ \E s \in ClassNames : \E v \in StVolumes : sc_provision_pv(s, v)

StSpec == StInit /\ [][StNext]_stVars

\* A claim that is bound holds a volume that is bound to it: so two claims
\* never share a volume, and the volume of a claim is not deleted, released or
\* given away under it, although the two sides are bound in separate calls,
\* each under its own lock (pv_bind_to_pvc, pvc_bind_to_pv).
VolumeHeldOnce ==
    \A c \in StClaims : pvcPhase[c] = "Bound" =>
        /\ pvcVolume[c] \in StVolumes
        /\ pv_get_bound_pvc(pvcVolume[c]) = c
=============================================================================
