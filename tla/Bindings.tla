------------------------------ MODULE Bindings ------------------------------
(***************************************************************************)
(* The two bindings on the two sides of a wire: one message at a time is   *)
(* encoded by the struct of a call, of what a function returns, of an      *)
(* event or of an error, and decoded by the tables of its binding.         *)
(***************************************************************************)
EXTENDS ContractBindings

CONSTANT Payloads(_)        \* the values a message may carry

VARIABLES
    message,    \* what was sent: of which binding, of which kind, by which name,
    payload,    \* and its values
    encoding,   \* what of it is on the wire
    received    \* what the other side decodes

wireVars == <<message, payload, encoding, received>>

Nothing == [kind |-> "nothing"]

Variants(binding, kind) ==
    CASE binding = "service" /\ kind \in {"call", "return"} ->
            Service!InsuranceServiceManagerCalls
      [] binding = "service" /\ kind = "event" -> Service!InsuranceServiceManagerEvents
      [] binding = "registry" /\ kind \in {"call", "return"} ->
            Registry!ECDSAStakeRegistryCalls
      [] binding = "registry" /\ kind = "event" -> Registry!ECDSAStakeRegistryEvents
      [] binding = "registry" /\ kind = "error" -> Registry!ECDSAStakeRegistryErrors

(* What can be sent: the service manager has no errors of its own.         *)
Channels ==
    {"service"} \X {"call", "return", "event"}
        \cup {"registry"} \X {"call", "return", "event", "error"}
Item(m) == Variants(m.binding, m.kind)[m.name]

Fields(m) ==
    CASE m.kind \in {"call", "error"} -> Item(m).fields
      [] m.kind = "return" -> Item(m).returns
      [] m.kind = "event" -> Item(m).indexed \o Item(m).body

Messages(channel) ==
    {[binding |-> channel[1], kind |-> channel[2], name |-> name] :
        name \in DOMAIN Variants(channel[1], channel[2])}

(* The compiler lets no program send values of other types.                *)
ASSUME PayloadAssumption ==
    \A channel \in Channels : \A m \in Messages(channel) :
        \A values \in Payloads(m) : Fit(Fields(m), values)

Encoded(m, values) ==
    CASE m.kind = "call" /\ m.binding = "service" -> service_build_call(m.name, values)
      [] m.kind = "call" /\ m.binding = "registry" -> registry_build_call(m.name, values)
      [] m.kind = "event" /\ m.binding = "service" -> service_emit(m.name, values)
      [] m.kind = "event" /\ m.binding = "registry" -> registry_emit(m.name, values)
      [] m.kind = "error" -> raise(m.name, values)
      [] m.kind = "return" -> returned(Item(m), values)

(* Calls, events and errors are decoded without being told which they are; *)
(* who called a function knows what it returns.                            *)
DecodedFrom(m, w) ==
    CASE m.kind = "call" /\ m.binding = "service" -> service_decode_call(w)
      [] m.kind = "call" /\ m.binding = "registry" -> registry_decode_call(w)
      [] m.kind = "event" /\ m.binding = "service" -> service_decode_event(w)
      [] m.kind = "event" /\ m.binding = "registry" -> registry_decode_event(w)
      [] m.kind = "error" -> decode_error(w)
      [] m.kind = "return" -> Decoded(m.name, abi_decode_returns(Item(m), w))

WireInit ==
    /\ message = Nothing /\ payload = Nothing
    /\ encoding = Nothing /\ received = Nothing

Send(channel) ==
    /\ message = Nothing
    /\ \E m \in Messages(channel) : \E values \in Payloads(m) :
          /\ message' = m /\ payload' = values
          /\ encoding' = Encoded(m, values)
    /\ UNCHANGED received

Receive ==
    /\ message # Nothing /\ received = Nothing
    /\ received' = [kind |-> message.kind, as |-> DecodedFrom(message, encoding)]
    /\ UNCHANGED <<message, payload, encoding>>

Forget ==
    /\ received # Nothing
    /\ message' = Nothing /\ payload' = Nothing
    /\ encoding' = Nothing /\ received' = Nothing

WireNext == (\E channel \in Channels : Send(channel)) \/ Receive \/ Forget

WireSpec == WireInit /\ [][WireNext]_wireVars

----------------------------------------------------------------------------
(* The calls the methods of a contract instance build are taken by the     *)
(* decoder for what they are, each value in its field; what a function     *)
(* returns is read into the field it was returned for; a log is decoded as *)
(* the event it was emitted for, indexed and other fields in their places; *)
(* and an error is told from the others.  The decoder of calls and errors  *)
(* finds the place of a selector in one table and runs the function at the *)
(* same place of another, unchecked (helloworldservicemanager.rs:4841,     *)
(* ecdsastakeregistry.rs:6866, 7400).                                      *)
MessagesArriveAsSent ==
    received # Nothing => received.as = Decoded(message.name, payload)
=============================================================================
