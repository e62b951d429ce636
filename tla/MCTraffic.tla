----------------------------- MODULE MCTraffic -----------------------------
(* Small instances of RustTraffic; before the programs start, every message *)
(* of the two bindings crosses the wire.                                    *)
EXTENDS RustTraffic, Bindings

(* A value that differs in every field of every struct and in every element *)
(* of every array.                                                          *)
RECURSIVE Sample(_, _)
Sample(type, path) ==
    CASE type.kind \in {"word", "packed"} -> path
      [] type.kind = "array" ->
            <<Sample(type.of, Append(path, "first")), Sample(type.of, Append(path, "second"))>>
      [] type.kind = "struct" ->
            [name \in FieldNames(type.fields) |->
                Sample(type.fields[PlaceIn(InOrder(type.fields), name)][2],
                       Append(path, name))]
MCPayloads(m) == {Sample(Struct(Fields(m)), <<>>)}

Started == ticks > 0 \/ operator.pc # "start" \/ contract # "binding"

MCInit == Init /\ WireInit
MCNext ==
    \/ message = Nothing /\ Next /\ UNCHANGED wireVars
    \/ ~Started /\ WireNext /\ UNCHANGED vars
MCSpec == MCInit /\ [][MCNext]_<<vars, wireVars>> /\ Fairness
=============================================================================
