-------------------------- MODULE ContractBindings --------------------------
(***************************************************************************)
(* The two bindings (helloworldservicemanager.rs, ecdsastakeregistry.rs)   *)
(* at work: how a program builds a call and reads a log or an error, and   *)
(* how the other side of the wire does the opposite.                       *)
(***************************************************************************)
EXTENDS AbiCodec

Service == INSTANCE ServiceManagerBinding
Registry == INSTANCE StakeRegistryBinding

(* A method of the contract instance builds its call; the decoder of calls *)
(* is told only the bytes.                                                 *)
service_build_call(name, values) ==
    abi_encode(Service!InsuranceServiceManagerCalls[name], values)
service_decode_call(wire) ==
    abi_decode_raw(Service!InsuranceServiceManagerCalls, Service!CallSELECTORS,
                   Service!CallDECODE_SHIMS, wire)

registry_build_call(name, values) ==
    abi_encode(Registry!ECDSAStakeRegistryCalls[name], values)
registry_decode_call(wire) ==
    abi_decode_raw(Registry!ECDSAStakeRegistryCalls, Registry!CallSELECTORS,
                   Registry!CallDECODE_SHIMS, wire)

service_emit(name, values) ==
    encode_log_data(Service!InsuranceServiceManagerEvents[name], values)
service_decode_event(log) == decode_raw_log(Service!InsuranceServiceManagerEvents, log)

registry_emit(name, values) ==
    encode_log_data(Registry!ECDSAStakeRegistryEvents[name], values)
registry_decode_event(log) == decode_raw_log(Registry!ECDSAStakeRegistryEvents, log)

raise(name, values) == abi_encode(Registry!ECDSAStakeRegistryErrors[name], values)
decode_error(wire) ==
    abi_decode_raw(Registry!ECDSAStakeRegistryErrors, Registry!ErrorSELECTORS,
                   Registry!ErrorDECODE_SHIMS, wire)
=============================================================================
