----------------------------- MODULE MCContract -----------------------------
(* InsuranceServiceManager.sol on its own: any account calls any function   *)
(* with any arguments, and the pools accept or revert every call.           *)
EXTENDS InsuranceServiceManager
=============================================================================
