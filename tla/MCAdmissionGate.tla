---------------------------- MODULE MCAdmissionGate ----------------------------
(* TLC instance of AdmissionGate: the configurations give the constants.   *)
EXTENDS AdmissionGate

================================================================================
