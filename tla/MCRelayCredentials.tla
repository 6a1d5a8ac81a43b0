------------------------- MODULE MCRelayCredentials -------------------------
(* Enrolls of any of the clients, and requests that present what the       *)
(* devices got. Clients, enrolls and checks are interchangeable.           *)
EXTENDS RelayCredentials, TLC

MCTarget == {"config", "keycloak"}
MCCsvTargets == {"telemetry"}

MCSymmetry == Permutations(Client) \cup Permutations(Enroll) \cup Permutations(Check)
=============================================================================
