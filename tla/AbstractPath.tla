---------------------------- MODULE AbstractPath ----------------------------
(***************************************************************************)
(* What a Path promises its path builder (spec 4.3): it is built, becomes  *)
(* established on the first confirmation, the build-result hook fires once *)
(* at that moment and never again, one latency probe is sent then, later   *)
(* confirmations change nothing, and latency is only measured on an        *)
(* established path with a probe outstanding.  The path builder's sweep   *)
(* may remove a building or established path at any time; nothing happens *)
(* to a removed path.                                                      *)
(***************************************************************************)
EXTENDS Naturals

CONSTANTS Tokens, NoToken

VARIABLES
  astatus,   \* "none", "building", "established", "removed"
  hooked,    \* times the build-result hook has fired
  probe,     \* the token of the outstanding latency probe
  measured   \* a latency has been stored

avars == <<astatus, hooked, probe, measured>>

AInit == astatus = "none" /\ hooked = 0 /\ probe = NoToken /\ measured = FALSE

ABuild ==
  /\ astatus = "none"
  /\ astatus' = "building"
  /\ UNCHANGED <<hooked, probe, measured>>

AConfirm ==
  /\ astatus = "building"
  /\ astatus' = "established"
  /\ hooked' = 1
  /\ probe' \in Tokens
  /\ UNCHANGED measured

AMeasure ==
  /\ astatus = "established" /\ probe # NoToken
  /\ measured' = TRUE
  /\ UNCHANGED <<astatus, hooked, probe>>

ARemove ==
  /\ astatus \in {"building", "established"}
  /\ astatus' = "removed"
  /\ UNCHANGED <<hooked, probe, measured>>

ANext == ABuild \/ AConfirm \/ AMeasure \/ ARemove

ASpec == AInit /\ [][ANext]_avars

====
