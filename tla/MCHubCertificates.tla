-------------------------- MODULE MCHubCertificates --------------------------
(* A small instance of HubCertificates for TLC. *)
EXTENDS HubCertificates

CONSTANTS f1, f2
=============================================================================
