------------------------------ MODULE AbiTypes ------------------------------
(***************************************************************************)
(* What the sol! macro of alloy-sol-types writes down of an interface: the *)
(* types of its fields, and for every function, event and error what the   *)
(* codec (AbiCodec) goes by.  The generated bindings (operator/rust/crates/*)
(* utils/src/helloworldservicemanager.rs and ecdsastakeregistry.rs) are    *)
(* tables of these.                                                        *)
(***************************************************************************)
EXTENDS Sequences

----------------------------------------------------------------------------
(* Types.  A number, an address, a flag or a hash is one word.             *)
Word == [kind |-> "word"]
Packed == [kind |-> "packed"]       \* a string, or bytes of any length
ArrayOf(type) == [kind |-> "array", of |-> type]
Struct(fields) == [kind |-> "struct", fields |-> fields]    \* << <<name, type>>, ... >>

InOrder(fields) == [i \in DOMAIN fields |-> fields[i][1]]
FieldNames(fields) == {fields[i][1] : i \in DOMAIN fields}

----------------------------------------------------------------------------
(* SolCall: the selector, the fields of the call in the order of the tuple *)
(* Parameters, the order its tokenize names them in, and the types of what *)
(* the function returns.  Selectors and the hashes of events are the bytes *)
(* of the source (the first four).                                         *)
Function(selector, fields, order, returns) ==
    [selector |-> selector, fields |-> fields, order |-> order, returns |-> returns]

Getter(selector, type) == Function(selector, <<>>, <<>>, <<<<"_0", type>>>>)
Command(selector, name, type) == Function(selector, <<<<name, type>>>>, <<name>>, <<>>)
Query(selector, name, type, return) ==
    Function(selector, <<<<name, type>>>>, <<name>>, <<<<"_0", return>>>>)

(* SolEvent: the hash, the indexed fields, those of the body, and the      *)
(* order in which new fills the fields from the topics and then the body.  *)
Event(hash, indexed, body, filled) ==
    [hash |-> hash, indexed |-> indexed, body |-> body, filled |-> filled]

(* SolError: none of the errors carries a value.                           *)
Error(selector) == Function(selector, <<>>, <<>>, <<>>)
=============================================================================
