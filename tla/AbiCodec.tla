------------------------------ MODULE AbiCodec ------------------------------
(***************************************************************************)
(* How a binding puts calls, logs and errors on the wire and reads them    *)
(* back (the traits of alloy-sol-types).  A value is on the wire as a      *)
(* token that shows its shape and not the name of its field; the bytes of  *)
(* a token are abstracted away.                                            *)
(*                                                                         *)
(* The traits are generic and the compiler makes one function of them for  *)
(* each type.  So do the levels below: what Of makes of a type, given what *)
(* is made of the types in it, is taken as deep as the types of the two    *)
(* bindings nest, which is five (an array of structs that hold arrays of   *)
(* structs of words).                                                      *)
(***************************************************************************)
EXTENDS AbiTypes, Integers

----------------------------------------------------------------------------
(* Tokenize: the tokens of a struct are those of its fields, in order.     *)
TokenOf(Inner(_, _), type, value) ==
    CASE type.kind \in {"word", "packed"} -> <<type.kind, value>>
      [] type.kind = "array" ->
            <<"array", [i \in DOMAIN value |-> Inner(type.of, value[i])]>>
      [] type.kind = "struct" ->
            <<"struct", [i \in DOMAIN type.fields |->
                            Inner(type.fields[i][2], value[type.fields[i][1]])]>>

NoToken(type, value) == <<>>
Token1(type, value) == TokenOf(NoToken, type, value)
Token2(type, value) == TokenOf(Token1, type, value)
Token3(type, value) == TokenOf(Token2, type, value)
Token4(type, value) == TokenOf(Token3, type, value)
Tokenize(type, value) == TokenOf(Token4, type, value)

(* The tokens of a tuple, whose values a tokenize method names in order.   *)
TokenizeFields(fields, order, values) ==
    [i \in DOMAIN order |-> Tokenize(fields[i][2], values[order[i]])]

----------------------------------------------------------------------------
(* Whether tokens have the shape of a type.                                *)
ShapeOf(Inner(_, _), type, token) ==
    /\ token[1] = type.kind
    /\ type.kind = "array" => \A i \in DOMAIN token[2] : Inner(type.of, token[2][i])
    /\ type.kind = "struct" =>
          /\ Len(token[2]) = Len(type.fields)
          /\ \A i \in DOMAIN type.fields : Inner(type.fields[i][2], token[2][i])

NoShape(type, token) == FALSE
Decodes1(type, token) == ShapeOf(NoShape, type, token)
Decodes2(type, token) == ShapeOf(Decodes1, type, token)
Decodes3(type, token) == ShapeOf(Decodes2, type, token)
Decodes4(type, token) == ShapeOf(Decodes3, type, token)
Decodes(type, token) == ShapeOf(Decodes4, type, token)

DecodesFields(fields, tokens) ==
    /\ Len(tokens) = Len(fields)
    /\ \A i \in DOMAIN fields : Decodes(fields[i][2], tokens[i])

----------------------------------------------------------------------------
(* Detokenize.  From<tuple>: each field takes its place of the tuple.      *)
PlaceIn(names, name) == CHOOSE i \in DOMAIN names : names[i] = name

ValueOf(Inner(_, _), type, token) ==
    CASE type.kind \in {"word", "packed"} -> token[2]
      [] type.kind = "array" -> [i \in DOMAIN token[2] |-> Inner(type.of, token[2][i])]
      [] type.kind = "struct" ->
            [name \in FieldNames(type.fields) |->
                LET i == PlaceIn(InOrder(type.fields), name)
                IN  Inner(type.fields[i][2], token[2][i])]

NoValue(type, token) == token
Value1(type, token) == ValueOf(NoValue, type, token)
Value2(type, token) == ValueOf(Value1, type, token)
Value3(type, token) == ValueOf(Value2, type, token)
Value4(type, token) == ValueOf(Value3, type, token)
Detokenize(type, token) == ValueOf(Value4, type, token)

(* The values of a tuple, for the fields filled in this order.             *)
DetokenizeFields(fields, filled, tokens) ==
    [name \in FieldNames(fields) |->
        LET i == PlaceIn(filled, name) IN Detokenize(fields[i][2], tokens[i])]

----------------------------------------------------------------------------
(* The values a type has: what the type checker lets a program put there.  *)
HasOf(Inner(_, _), type, value) ==
    \/ type.kind \in {"word", "packed"}
    \/ /\ type.kind = "array"
       /\ value \in Seq({value[i] : i \in DOMAIN value})
       /\ \A i \in DOMAIN value : Inner(type.of, value[i])
    \/ /\ type.kind = "struct"
       /\ value = [name \in FieldNames(type.fields) |-> value[name]]
       /\ \A i \in DOMAIN type.fields : Inner(type.fields[i][2], value[type.fields[i][1]])

HasNone(type, value) == FALSE
Has1(type, value) == HasOf(HasNone, type, value)
Has2(type, value) == HasOf(Has1, type, value)
Has3(type, value) == HasOf(Has2, type, value)
Has4(type, value) == HasOf(Has3, type, value)
Has(type, value) == HasOf(Has4, type, value)

Fit(fields, values) ==
    /\ values = [name \in FieldNames(fields) |-> values[name]]
    /\ \A i \in DOMAIN fields : Has(fields[i][2], values[fields[i][1]])

----------------------------------------------------------------------------
(* SolCall.                                                                *)
abi_encode(call, values) ==
    [selector |-> call.selector, data |-> TokenizeFields(call.fields, call.order, values)]

(* The contract's answer, and what abi_decode_returns makes of it.         *)
returned(call, values) == TokenizeFields(call.returns, InOrder(call.returns), values)
abi_decode_returns(call, tokens) ==
    DetokenizeFields(call.returns, InOrder(call.returns), tokens)

(* SolInterface: the variants, and the two tables its decoder goes by: the *)
(* selectors in ascending order, and the decoder of each.                  *)
Failed == [ok |-> FALSE]
Decoded(variant, values) == [ok |-> TRUE, variant |-> variant, values |-> values]

Below(a, b) ==
    \E i \in DOMAIN a : a[i] < b[i] /\ \A j \in 1 .. i - 1 : a[j] = b[j]

(* The search halves a range of places until its middle holds the key or   *)
(* none is left, in no more steps than there are keys.                     *)
Middle(range) == (range.low + range.high) \div 2

Over(keys, key, range) == range.low > range.high \/ keys[Middle(range)] = key

Halved(keys, key, range) ==
    IF Over(keys, key, range) THEN range
    ELSE IF Below(keys[Middle(range)], key)
         THEN [low |-> Middle(range) + 1, high |-> range.high]
         ELSE [low |-> range.low, high |-> Middle(range) - 1]

Ranges(keys, key) ==
    LET range[n \in Nat] == IF n = 0 THEN [low |-> 1, high |-> Len(keys)]
                                     ELSE Halved(keys, key, range[n - 1])
    IN  range

binary_search(keys, key) ==
    LET last == Ranges(keys, key)[Len(keys)] IN
    IF last.low > last.high THEN 0 ELSE Middle(last)

(* get_unchecked takes any place for a place of DECODE_SHIMS: behind its   *)
(* end nothing is defined, which counts as a failure here.                 *)
abi_decode_raw(variants, SELECTORS, DECODE_SHIMS, wire) ==
    LET place == binary_search(SELECTORS, wire.selector) IN
    IF place \notin DOMAIN DECODE_SHIMS THEN Failed
    ELSE LET shim == DECODE_SHIMS[place]
             fields == variants[shim].fields
         IN  IF DecodesFields(fields, wire.data)
             THEN Decoded(shim, DetokenizeFields(fields, InOrder(fields), wire.data))
             ELSE Failed

----------------------------------------------------------------------------
(* SolEvent.                                                               *)
encode_log_data(event, values) ==
    [topics |-> <<event.hash>> \o
                    TokenizeFields(event.indexed, InOrder(event.indexed), values),
     data |-> TokenizeFields(event.body, InOrder(event.body), values)]

topic0(log) == log.topics[1]

LogDecodes(event, log) ==
    /\ topic0(log) = event.hash
    /\ DecodesFields(event.indexed, Tail(log.topics))
    /\ DecodesFields(event.body, log.data)

log_decode(event, log) ==
    DetokenizeFields(event.indexed \o event.body, event.filled, Tail(log.topics) \o log.data)

(* SolEventInterface: the first topic tells the variant.                   *)
decode_raw_log(variants, log) ==
    LET known == {v \in DOMAIN variants : topic0(log) = variants[v].hash} IN
    IF known = {} THEN Failed
    ELSE LET variant == CHOOSE v \in known : TRUE IN
         IF LogDecodes(variants[variant], log)
         THEN Decoded(variant, log_decode(variants[variant], log))
         ELSE Failed
=============================================================================
