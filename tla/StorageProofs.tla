---------------------------- MODULE StorageProofs ----------------------------
(***************************************************************************)
(* A bound claim holds a volume that is bound to it, for any number of      *)
(* volumes, claims, binders and classes.                                    *)
(*                                                                          *)
(* VolumeHeldOnce is not inductive: between the two calls of a binder the   *)
(* volume is held for a claim that has not taken it yet, and the releaser   *)
(* acts on what it read one call before.  StInv adds what the two rely on:  *)
(* the volume a binder holds is still bound to its claim unless the claim   *)
(* can no longer take it, and the claim the releaser read is settled, so    *)
(* that it stays without the volume.                                        *)
(***************************************************************************)
EXTENDS Storage, TLAPS

\* A claim that has been in the table and does not wait never waits again.
Settled(c) == c \in pvcUsed /\ pvcPhase[c] # "Pending"

BinderHolds ==
    \A b \in StBinders : binder[b] # StIdle =>
        /\ binder[b][2] \in pvcUsed
        /\ binder[b][1] = "held" =>
             \/ pv_get_bound_pvc(binder[b][3]) = binder[b][2]
             \/ Settled(binder[b][2])

ReleaserSafe ==
    releaser # StIdle =>
        /\ pv_get_bound_pvc(releaser[1]) = releaser[2]
        /\ Settled(releaser[2])
        /\ pvc_get_bound_pv(releaser[2]) # releaser[1]

ClaimsAreUsed ==
    /\ \A c \in StClaims : find_pvc_index(c) => c \in pvcUsed
    /\ \A v \in StVolumes : pvClaim[v] # NoClaim => pvClaim[v] \in pvcUsed

StInv == StTypeOK /\ VolumeHeldOnce /\ BinderHolds /\ ReleaserSafe /\ ClaimsAreUsed

LEMMA StInitInv == StInit => StInv
BY StAssumption
DEF StInit, StInv, StTypeOK, VolumeHeldOnce, BinderHolds, ReleaserSafe,
    ClaimsAreUsed, find_pvc_index, StIdle, NoClass, storage_class_t, AllPolicies,
    ClassNames, pv_phase_t, pvc_phase_t, Settled, pv_get_bound_pvc, pvc_get_bound_pv

\* Taking or giving the default flag leaves a class a class.
LEMMA DefaultFlagType ==
    ASSUME NEW class \in storage_class_t, NEW flag \in BOOLEAN
    PROVE  [class EXCEPT !.is_default = flag] \in storage_class_t
BY DEF storage_class_t

LEMMA StStep == StInv /\ [StNext]_stVars => StInv'
<1> SUFFICES ASSUME StInv, [StNext]_stVars PROVE StInv'
  OBVIOUS
<1> USE StAssumption
<1> USE DEF StInv
<1>1. ASSUME NEW v \in StVolumes, NEW policy \in StPolicies, pv_create(v, policy) PROVE StInv'
  <2>1. StTypeOK'
    BY <1>1 DEF StTypeOK, pv_create, claimVars, callerVars, StIdle, pv_phase_t, pvc_phase_t
  <2>2. VolumeHeldOnce'
    BY <1>1 DEF StTypeOK, VolumeHeldOnce, pv_get_bound_pvc, BinderHolds, ReleaserSafe,
       Settled, pv_create, claimVars, callerVars, find_pv_index, pvc_get_bound_pv, StIdle
  <2>3. BinderHolds'
    BY <1>1 DEF StTypeOK, BinderHolds, Settled, pv_get_bound_pvc, ReleaserSafe,
       ClaimsAreUsed, pv_create, claimVars, callerVars, find_pv_index, find_pvc_index, StIdle
  <2>4. ReleaserSafe'
    BY <1>1 DEF StTypeOK, ReleaserSafe, Settled, pv_get_bound_pvc, pvc_get_bound_pv,
       ClaimsAreUsed, pv_create, claimVars, callerVars, find_pv_index, find_pvc_index, StIdle
  <2>5. ClaimsAreUsed'
    BY <1>1 DEF StTypeOK, ClaimsAreUsed, BinderHolds, pv_create, claimVars, callerVars,
       find_pvc_index, StIdle
  <2> QED BY <2>1, <2>2, <2>3, <2>4, <2>5
<1>2. ASSUME NEW v \in StVolumes, NEW policy \in StPolicies, pv_update(v, policy) PROVE StInv'
  <2>1. StTypeOK'
    BY <1>2 DEF StTypeOK, pv_update, claimVars, callerVars, StIdle, pv_phase_t, pvc_phase_t
  <2>2. VolumeHeldOnce'
    BY <1>2 DEF StTypeOK, VolumeHeldOnce, pv_get_bound_pvc, BinderHolds, ReleaserSafe,
       Settled, pv_update, claimVars, callerVars, find_pv_index, pvc_get_bound_pv, StIdle
  <2>3. BinderHolds'
    BY <1>2 DEF StTypeOK, BinderHolds, Settled, pv_get_bound_pvc, ReleaserSafe,
       ClaimsAreUsed, pv_update, claimVars, callerVars, find_pv_index, find_pvc_index, StIdle
  <2>4. ReleaserSafe'
    BY <1>2 DEF StTypeOK, ReleaserSafe, Settled, pv_get_bound_pvc, pvc_get_bound_pv,
       ClaimsAreUsed, pv_update, claimVars, callerVars, find_pv_index, find_pvc_index, StIdle
  <2>5. ClaimsAreUsed'
    BY <1>2 DEF StTypeOK, ClaimsAreUsed, BinderHolds, pv_update, claimVars, callerVars,
       find_pvc_index, StIdle
  <2> QED BY <2>1, <2>2, <2>3, <2>4, <2>5
<1>3. ASSUME NEW v \in StVolumes, pv_delete(v) PROVE StInv'
  <2>1. StTypeOK'
    BY <1>3 DEF StTypeOK, pv_delete, claimVars, callerVars, StIdle, pv_phase_t, pvc_phase_t
  <2>2. VolumeHeldOnce'
    BY <1>3 DEF StTypeOK, VolumeHeldOnce, pv_get_bound_pvc, BinderHolds, ReleaserSafe,
       Settled, pv_delete, claimVars, callerVars, find_pv_index, pvc_get_bound_pv, StIdle
  <2>3. BinderHolds'
    BY <1>3 DEF StTypeOK, BinderHolds, Settled, pv_get_bound_pvc, ReleaserSafe,
       ClaimsAreUsed, pv_delete, claimVars, callerVars, find_pv_index, find_pvc_index, StIdle
  <2>4. ReleaserSafe'
    BY <1>3 DEF StTypeOK, ReleaserSafe, Settled, pv_get_bound_pvc, pvc_get_bound_pv,
       ClaimsAreUsed, pv_delete, claimVars, callerVars, find_pv_index, find_pvc_index, StIdle
  <2>5. ClaimsAreUsed'
    BY <1>3 DEF StTypeOK, ClaimsAreUsed, BinderHolds, pv_delete, claimVars, callerVars,
       find_pvc_index, StIdle
  <2> QED BY <2>1, <2>2, <2>3, <2>4, <2>5
<1>4. ASSUME NEW v \in StVolumes, FindReleasable(v) PROVE StInv'
  <2>1. StTypeOK'
    BY <1>4 DEF StTypeOK, FindReleasable, pv_get_bound_pvc, claimVars, StIdle, pv_phase_t,
       pvc_phase_t
  <2>2. VolumeHeldOnce'
    BY <1>4 DEF StTypeOK, VolumeHeldOnce, pv_get_bound_pvc, BinderHolds, ReleaserSafe,
       Settled, FindReleasable, claimVars, find_pv_index, pvc_get_bound_pv, StIdle
  <2>3. BinderHolds'
    BY <1>4 DEF StTypeOK, BinderHolds, Settled, pv_get_bound_pvc, ReleaserSafe,
       ClaimsAreUsed, FindReleasable, claimVars, find_pv_index, find_pvc_index, StIdle
  <2>4. ReleaserSafe'
    BY <1>4 DEF StTypeOK, ReleaserSafe, Settled, pv_get_bound_pvc, pvc_get_bound_pv,
       ClaimsAreUsed, FindReleasable, claimVars, find_pv_index, find_pvc_index, StIdle
  <2>5. ClaimsAreUsed'
    BY <1>4 DEF StTypeOK, ClaimsAreUsed, BinderHolds, FindReleasable, claimVars,
       find_pvc_index, StIdle
  <2> QED BY <2>1, <2>2, <2>3, <2>4, <2>5
<1>5. ASSUME NEW v \in StVolumes, NEW phase \in {"Failed", "Available"},
       pvPhase[v] # "Bound", pv_set_phase(v, phase),
             UNCHANGED <<claimVars, classes, callerVars>> PROVE StInv'
  <2>1. StTypeOK'
    BY <1>5 DEF StTypeOK, pv_set_phase, claimVars, callerVars, StIdle, pv_phase_t, pvc_phase_t
  <2>2. VolumeHeldOnce'
    BY <1>5 DEF StTypeOK, VolumeHeldOnce, pv_get_bound_pvc, BinderHolds, ReleaserSafe,
       Settled, pv_set_phase, claimVars, callerVars, find_pv_index, pvc_get_bound_pv, StIdle
  <2>3. BinderHolds'
    BY <1>5 DEF StTypeOK, BinderHolds, Settled, pv_get_bound_pvc, ReleaserSafe,
       ClaimsAreUsed, pv_set_phase, claimVars, callerVars, find_pv_index, find_pvc_index, StIdle
  <2>4. ReleaserSafe'
    BY <1>5 DEF StTypeOK, ReleaserSafe, Settled, pv_get_bound_pvc, pvc_get_bound_pv,
       ClaimsAreUsed, pv_set_phase, claimVars, callerVars, find_pv_index, find_pvc_index, StIdle
  <2>5. ClaimsAreUsed'
    BY <1>5 DEF StTypeOK, ClaimsAreUsed, BinderHolds, pv_set_phase, claimVars, callerVars,
       find_pvc_index, StIdle
  <2> QED BY <2>1, <2>2, <2>3, <2>4, <2>5
<1>6. ASSUME NEW c \in StClaims, c \notin pvcUsed, pvc_create(c) PROVE StInv'
  <2>1. StTypeOK'
    BY <1>6 DEF StTypeOK, pvc_create, callerVars, StIdle, pv_phase_t, pvc_phase_t
  <2>2. VolumeHeldOnce'
    BY <1>6 DEF StTypeOK, VolumeHeldOnce, pv_get_bound_pvc, BinderHolds, ReleaserSafe,
       Settled, pvc_create, callerVars, find_pv_index, pvc_get_bound_pv, StIdle
  <2>3. BinderHolds'
    BY <1>6 DEF StTypeOK, BinderHolds, Settled, pv_get_bound_pvc, ReleaserSafe,
       ClaimsAreUsed, pvc_create, callerVars, find_pv_index, find_pvc_index, StIdle
  <2>4. ReleaserSafe'
    BY <1>6 DEF StTypeOK, ReleaserSafe, Settled, pv_get_bound_pvc, pvc_get_bound_pv,
       ClaimsAreUsed, pvc_create, callerVars, find_pv_index, find_pvc_index, StIdle
  <2>5. ClaimsAreUsed'
    BY <1>6 DEF StTypeOK, ClaimsAreUsed, BinderHolds, pvc_create, callerVars, find_pvc_index,
       StIdle
  <2> QED BY <2>1, <2>2, <2>3, <2>4, <2>5
<1>7. ASSUME NEW c \in StClaims, pvc_delete(c) PROVE StInv'
  <2>1. StTypeOK'
    BY <1>7 DEF StTypeOK, pvc_delete, callerVars, StIdle, pv_phase_t, pvc_phase_t
  <2>2. VolumeHeldOnce'
    BY <1>7 DEF StTypeOK, VolumeHeldOnce, pv_get_bound_pvc, BinderHolds, ReleaserSafe,
       Settled, pvc_delete, callerVars, find_pv_index, pvc_get_bound_pv, StIdle
  <2>3. BinderHolds'
    BY <1>7 DEF StTypeOK, BinderHolds, Settled, pv_get_bound_pvc, ReleaserSafe,
       ClaimsAreUsed, pvc_delete, callerVars, find_pv_index, find_pvc_index, StIdle
  <2>4. ReleaserSafe'
    BY <1>7 DEF StTypeOK, ReleaserSafe, Settled, pv_get_bound_pvc, pvc_get_bound_pv,
       ClaimsAreUsed, pvc_delete, callerVars, find_pv_index, find_pvc_index, StIdle
  <2>5. ClaimsAreUsed'
    BY <1>7 DEF StTypeOK, ClaimsAreUsed, BinderHolds, pvc_delete, callerVars, find_pvc_index,
       StIdle
  <2> QED BY <2>1, <2>2, <2>3, <2>4, <2>5
<1>8. ASSUME NEW c \in StClaims, pvc_unbind_from_pv(c) PROVE StInv'
  <2>1. StTypeOK'
    BY <1>8 DEF StTypeOK, pvc_unbind_from_pv, callerVars, StIdle, pv_phase_t, pvc_phase_t
  <2>2. VolumeHeldOnce'
    BY <1>8 DEF StTypeOK, VolumeHeldOnce, pv_get_bound_pvc, BinderHolds, ReleaserSafe,
       Settled, pvc_unbind_from_pv, callerVars, find_pv_index, pvc_get_bound_pv, StIdle
  <2>3. BinderHolds'
    BY <1>8 DEF StTypeOK, BinderHolds, Settled, pv_get_bound_pvc, ReleaserSafe,
       ClaimsAreUsed, pvc_unbind_from_pv, callerVars, find_pv_index, find_pvc_index, StIdle
  <2>4. ReleaserSafe'
    BY <1>8 DEF StTypeOK, ReleaserSafe, Settled, pv_get_bound_pvc, pvc_get_bound_pv,
       ClaimsAreUsed, pvc_unbind_from_pv, callerVars, find_pv_index, find_pvc_index, StIdle
  <2>5. ClaimsAreUsed'
    BY <1>8 DEF StTypeOK, ClaimsAreUsed, BinderHolds, pvc_unbind_from_pv, callerVars,
       find_pvc_index, StIdle
  <2> QED BY <2>1, <2>2, <2>3, <2>4, <2>5
<1>9. ASSUME NEW c \in StClaims, pvcPhase[c] = "Pending", pvc_set_phase(c,
       "Failed") PROVE StInv'
  <2>1. StTypeOK'
    BY <1>9 DEF StTypeOK, pvc_set_phase, callerVars, StIdle, pv_phase_t, pvc_phase_t
  <2>2. VolumeHeldOnce'
    BY <1>9 DEF StTypeOK, VolumeHeldOnce, pv_get_bound_pvc, BinderHolds, ReleaserSafe,
       Settled, pvc_set_phase, callerVars, find_pv_index, pvc_get_bound_pv, StIdle
  <2>3. BinderHolds'
    BY <1>9 DEF StTypeOK, BinderHolds, Settled, pv_get_bound_pvc, ReleaserSafe,
       ClaimsAreUsed, pvc_set_phase, callerVars, find_pv_index, find_pvc_index, StIdle
  <2>4. ReleaserSafe'
    BY <1>9 DEF StTypeOK, ReleaserSafe, Settled, pv_get_bound_pvc, pvc_get_bound_pv,
       ClaimsAreUsed, pvc_set_phase, callerVars, find_pv_index, find_pvc_index, StIdle
  <2>5. ClaimsAreUsed'
    BY <1>9 DEF StTypeOK, ClaimsAreUsed, BinderHolds, pvc_set_phase, callerVars,
       find_pvc_index, StIdle
  <2> QED BY <2>1, <2>2, <2>3, <2>4, <2>5
<1>10. ASSUME NEW b \in StBinders, NEW c \in StClaims, NEW v \in StVolumes,
       pvc_find_matching_pv(b, c, v) PROVE StInv'
  <2>1. StTypeOK'
    BY <1>10 DEF StTypeOK, pvc_find_matching_pv, claimVars, StIdle, pv_phase_t, pvc_phase_t
  <2>2. VolumeHeldOnce'
    BY <1>10 DEF StTypeOK, VolumeHeldOnce, pv_get_bound_pvc, BinderHolds, ReleaserSafe,
       Settled, pvc_find_matching_pv, claimVars, find_pv_index, pvc_get_bound_pv, StIdle
  <2>3. BinderHolds'
    BY <1>10 DEF StTypeOK, BinderHolds, Settled, pv_get_bound_pvc, ReleaserSafe,
       ClaimsAreUsed, pvc_find_matching_pv, claimVars, find_pv_index, find_pvc_index, StIdle
  <2>4. ReleaserSafe'
    BY <1>10 DEF StTypeOK, ReleaserSafe, Settled, pv_get_bound_pvc, pvc_get_bound_pv,
       ClaimsAreUsed, pvc_find_matching_pv, claimVars, find_pv_index, find_pvc_index, StIdle
  <2>5. ClaimsAreUsed'
    BY <1>10 DEF StTypeOK, ClaimsAreUsed, BinderHolds, pvc_find_matching_pv, claimVars,
       find_pvc_index, StIdle
  <2> QED BY <2>1, <2>2, <2>3, <2>4, <2>5
<1>11. ASSUME NEW b \in StBinders, BindVolume(b) PROVE StInv'
  <2>1. StTypeOK'
    BY <1>11 DEF StTypeOK, BindVolume, pv_bind_to_pvc, claimVars, StIdle, pv_phase_t,
       pvc_phase_t
  <2>2. VolumeHeldOnce'
    BY <1>11 DEF StTypeOK, VolumeHeldOnce, pv_get_bound_pvc, BinderHolds, ReleaserSafe,
       Settled, BindVolume, pv_bind_to_pvc, claimVars, find_pv_index, pvc_get_bound_pv, StIdle
  <2>3. BinderHolds'
    BY <1>11 DEF StTypeOK, BinderHolds, Settled, pv_get_bound_pvc, ReleaserSafe,
       ClaimsAreUsed, BindVolume, pv_bind_to_pvc, claimVars, find_pv_index, find_pvc_index,
       StIdle
  <2>4. ReleaserSafe'
    BY <1>11 DEF StTypeOK, ReleaserSafe, Settled, pv_get_bound_pvc, pvc_get_bound_pv,
       ClaimsAreUsed, BindVolume, pv_bind_to_pvc, claimVars, find_pv_index, find_pvc_index,
       StIdle
  <2>5. ClaimsAreUsed'
    BY <1>11 DEF StTypeOK, ClaimsAreUsed, BinderHolds, BindVolume, pv_bind_to_pvc, claimVars,
       find_pvc_index, StIdle
  <2> QED BY <2>1, <2>2, <2>3, <2>4, <2>5
<1>12. ASSUME NEW b \in StBinders, BindClaim(b) PROVE StInv'
  <2>1. StTypeOK'
    BY <1>12 DEF StTypeOK, BindClaim, pvc_bind_to_pv, claimVars, StIdle, pv_phase_t, pvc_phase_t
  <2>2. VolumeHeldOnce'
    BY <1>12 DEF StTypeOK, VolumeHeldOnce, pv_get_bound_pvc, BinderHolds, ReleaserSafe,
       Settled, BindClaim, pvc_bind_to_pv, claimVars, find_pv_index, pvc_get_bound_pv, StIdle
  <2>3. BinderHolds'
    BY <1>12 DEF StTypeOK, BinderHolds, Settled, pv_get_bound_pvc, ReleaserSafe,
       ClaimsAreUsed, BindClaim, pvc_bind_to_pv, claimVars, find_pv_index, find_pvc_index,
       StIdle
  <2>4. ReleaserSafe'
    BY <1>12 DEF StTypeOK, ReleaserSafe, Settled, pv_get_bound_pvc, pvc_get_bound_pv,
       ClaimsAreUsed, BindClaim, pvc_bind_to_pv, claimVars, find_pv_index, find_pvc_index,
       StIdle
  <2>5. ClaimsAreUsed'
    BY <1>12 DEF StTypeOK, ClaimsAreUsed, BinderHolds, BindClaim, pvc_bind_to_pv, claimVars,
       find_pvc_index, StIdle
  <2> QED BY <2>1, <2>2, <2>3, <2>4, <2>5
<1>13. ASSUME Release PROVE StInv'
  <2>1. StTypeOK'
    BY <1>13 DEF StTypeOK, Release, pv_unbind_from_pvc, pv_reclaim, sc_reclaim_pv,
       pv_set_phase, claimVars, StIdle, pv_phase_t, pvc_phase_t
  <2>2. VolumeHeldOnce'
    BY <1>13 DEF StTypeOK, VolumeHeldOnce, pv_get_bound_pvc, BinderHolds, ReleaserSafe,
       Settled, Release, pv_unbind_from_pvc, pv_reclaim, sc_reclaim_pv, pv_set_phase,
       claimVars, find_pv_index, pvc_get_bound_pv, StIdle
  <2>3. BinderHolds'
    BY <1>13 DEF StTypeOK, BinderHolds, Settled, pv_get_bound_pvc, ReleaserSafe,
       ClaimsAreUsed, Release, pv_unbind_from_pvc, pv_reclaim, sc_reclaim_pv, pv_set_phase,
       claimVars, find_pv_index, find_pvc_index, StIdle
  <2>4. ReleaserSafe'
    BY <1>13 DEF StTypeOK, ReleaserSafe, Settled, pv_get_bound_pvc, pvc_get_bound_pv,
       ClaimsAreUsed, Release, pv_unbind_from_pvc, pv_reclaim, sc_reclaim_pv, pv_set_phase,
       claimVars, find_pv_index, find_pvc_index, StIdle
  <2>5. ClaimsAreUsed'
    BY <1>13 DEF StTypeOK, ClaimsAreUsed, BinderHolds, Release, pv_unbind_from_pvc,
       pv_reclaim, sc_reclaim_pv, pv_set_phase, claimVars, find_pvc_index, StIdle
  <2> QED BY <2>1, <2>2, <2>3, <2>4, <2>5
<1>14. ASSUME NEW s \in ClassNames, NEW class \in StClassRows, sc_create(s, class) PROVE StInv'
  <2>1. StTypeOK'
    <3>1. ASSUME NEW t \in ClassNames PROVE classes'[t] \in storage_class_t \cup {NoClass}
      BY <1>14, DefaultFlagType DEF StTypeOK, sc_create, find_sc_index
    <3>2. DOMAIN classes' = ClassNames /\ classes' = [t \in ClassNames |-> classes'[t]]
      BY <1>14 DEF sc_create
    <3>3. classes' \in [ClassNames -> storage_class_t \cup {NoClass}]
      BY <3>1, <3>2
    <3> QED
      BY <1>14, <3>3 DEF StTypeOK, sc_create, claimVars, callerVars
  <2> QED
    BY <1>14, <2>1 DEF sc_create, claimVars, callerVars, VolumeHeldOnce, BinderHolds,
       ReleaserSafe,
       ClaimsAreUsed, Settled, pv_get_bound_pvc, pvc_get_bound_pv, find_pvc_index
<1>15. ASSUME NEW s \in ClassNames, NEW class \in StClassRows, sc_update(s, class) PROVE StInv'
  <2>1. StTypeOK'
    BY <1>15 DEF StTypeOK, sc_update, claimVars, callerVars
  <2> QED
    BY <1>15, <2>1 DEF sc_update, claimVars, callerVars, VolumeHeldOnce, BinderHolds,
       ReleaserSafe,
       ClaimsAreUsed, Settled, pv_get_bound_pvc, pvc_get_bound_pv, find_pvc_index
<1>16. ASSUME NEW s \in ClassNames, sc_delete(s) PROVE StInv'
  <2>1. StTypeOK'
    BY <1>16 DEF StTypeOK, sc_delete, claimVars, callerVars
  <2> QED
    BY <1>16, <2>1 DEF sc_delete, claimVars, callerVars, VolumeHeldOnce, BinderHolds,
       ReleaserSafe,
       ClaimsAreUsed, Settled, pv_get_bound_pvc, pvc_get_bound_pv, find_pvc_index
<1>17. ASSUME NEW s \in ClassNames, sc_set_default(s) PROVE StInv'
  <2>1. StTypeOK'
    <3>1. ASSUME NEW t \in ClassNames PROVE classes'[t] \in storage_class_t \cup {NoClass}
      BY <1>17, DefaultFlagType DEF StTypeOK, sc_set_default, find_sc_index
    <3>2. DOMAIN classes' = ClassNames /\ classes' = [t \in ClassNames |-> classes'[t]]
      BY <1>17 DEF sc_set_default
    <3>3. classes' \in [ClassNames -> storage_class_t \cup {NoClass}]
      BY <3>1, <3>2
    <3> QED
      BY <1>17, <3>3 DEF StTypeOK, sc_set_default, claimVars, callerVars
  <2> QED
    BY <1>17, <2>1 DEF sc_set_default, claimVars, callerVars, VolumeHeldOnce, BinderHolds,
       ReleaserSafe,
       ClaimsAreUsed, Settled, pv_get_bound_pvc, pvc_get_bound_pv, find_pvc_index
<1>18. ASSUME NEW s \in ClassNames, NEW v \in StVolumes, sc_provision_pv(s, v) PROVE StInv'
  <2>1. StTypeOK'
    BY <1>18 DEF StTypeOK, sc_provision_pv, sc_provision_hostpath_pv, pv_create, claimVars,
       callerVars, StIdle, pv_phase_t, pvc_phase_t
  <2>2. VolumeHeldOnce'
    BY <1>18 DEF StTypeOK, VolumeHeldOnce, pv_get_bound_pvc, BinderHolds, ReleaserSafe,
       Settled, sc_provision_pv, sc_provision_hostpath_pv, pv_create, claimVars, callerVars,
       find_pv_index, pvc_get_bound_pv, StIdle
  <2>3. BinderHolds'
    BY <1>18 DEF StTypeOK, BinderHolds, Settled, pv_get_bound_pvc, ReleaserSafe,
       ClaimsAreUsed, sc_provision_pv, sc_provision_hostpath_pv, pv_create, claimVars,
       callerVars, find_pv_index, find_pvc_index, StIdle
  <2>4. ReleaserSafe'
    BY <1>18 DEF StTypeOK, ReleaserSafe, Settled, pv_get_bound_pvc, pvc_get_bound_pv,
       ClaimsAreUsed, sc_provision_pv, sc_provision_hostpath_pv, pv_create, claimVars,
       callerVars, find_pv_index, find_pvc_index, StIdle
  <2>5. ClaimsAreUsed'
    BY <1>18 DEF StTypeOK, ClaimsAreUsed, BinderHolds, sc_provision_pv,
       sc_provision_hostpath_pv, pv_create, claimVars, callerVars, find_pvc_index, StIdle
  <2> QED BY <2>1, <2>2, <2>3, <2>4, <2>5
<1>19. CASE UNCHANGED stVars
  BY <1>19 DEF stVars, StTypeOK, VolumeHeldOnce, BinderHolds, ReleaserSafe, ClaimsAreUsed,
       Settled,
     pv_get_bound_pvc, pvc_get_bound_pv, find_pvc_index
<1> QED
  BY <1>1, <1>2, <1>3, <1>4, <1>5, <1>6, <1>7, <1>8, <1>9, <1>10, <1>11, <1>12, <1>13, <1>14,
       <1>15, <1>16, <1>17, <1>18, <1>19 DEF StNext

\* Two claims never share a volume and a claim never loses its volume to
\* another, however the separately locked calls of pv_bind_to_pvc and
\* pvc_bind_to_pv of several binders, the releaser and the users interleave.
THEOREM VolumesHeldOnce == StSpec => []VolumeHeldOnce
BY StInitInv, StStep, PTL DEF StSpec, StInv
=============================================================================
