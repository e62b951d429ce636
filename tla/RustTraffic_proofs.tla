------------------------- MODULE RustTraffic_proofs -------------------------
(***************************************************************************)
(* Proofs about the Rust programs and the bindings they speak through.     *)
(*                                                                         *)
(* First the codec: whatever values the types of a message allow, they are *)
(* read back as they were written.  A value is carried through as many     *)
(* levels as its type nests; the binary search of a decoder finds every    *)
(* selector of an ascending table; and the tables of the two bindings are  *)
(* ascending, fit each other and name every function, event and error.     *)
(* MessagesArrive puts these together.                                     *)
(*                                                                         *)
(* Then RustTraffic, for any names and any bounds.  The invariant          *)
(* TrafficInv says of the chain that its nonce counts the mined            *)
(* transactions and that what it logged are the tasks it keeps; of the     *)
(* transactions that they carry a call one of the programs makes, that the *)
(* pending ones follow the chain's nonce without a gap and without two of  *)
(* one nonce, and that a replaced one is never the last; and of each       *)
(* program that the nonce it is about to use leaves no gap, and that it    *)
(* waits for the last transaction it has sent.  What the calls and the     *)
(* event are on the wire is taken from the binding, by the first part.     *)
(***************************************************************************)
EXTENDS RustTraffic, Bindings, Recursion, FiniteSetTheorems, SequenceTheorems, TLAPS

----------------------------------------------------------------------------
(* What a level carries: it reads back what it wrote.  A level is proved   *)
(* from the one below it; as the levels take what is made of the types in  *)
(* a type as an operator, the five proofs are of one pattern and cannot be *)
(* one.                                                                    *)
Carried0(type, value) ==
    NoShape(type, NoToken(type, value)) /\ NoValue(type, NoToken(type, value)) = value
Carried1(type, value) ==
    Decodes1(type, Token1(type, value)) /\ Value1(type, Token1(type, value)) = value
Carried2(type, value) ==
    Decodes2(type, Token2(type, value)) /\ Value2(type, Token2(type, value)) = value
Carried3(type, value) ==
    Decodes3(type, Token3(type, value)) /\ Value3(type, Token3(type, value)) = value
Carried4(type, value) ==
    Decodes4(type, Token4(type, value)) /\ Value4(type, Token4(type, value)) = value
Carried5(type, value) ==
    Decodes(type, Tokenize(type, value)) /\ Detokenize(type, Tokenize(type, value)) = value

(* The place of a name is one that holds it.                               *)
LEMMA PlaceOf ==
    ASSUME NEW names, NEW name, NEW i \in DOMAIN names, names[i] = name
    PROVE  PlaceIn(names, name) \in DOMAIN names /\ names[PlaceIn(names, name)] = name
BY DEF PlaceIn

LEMMA PlaceOfField ==
    ASSUME NEW fields, NEW name \in FieldNames(fields)
    PROVE  \E i \in DOMAIN fields : i = PlaceIn(InOrder(fields), name) /\ fields[i][1] = name
<1>1. PICK i \in DOMAIN fields : fields[i][1] = name
  BY DEF FieldNames
<1>2. i \in DOMAIN InOrder(fields) /\ InOrder(fields)[i] = name
  BY <1>1 DEF InOrder
<1>3. QED
  BY <1>2, PlaceOf DEF InOrder

LEMMA SameLength ==
    ASSUME NEW s, NEW t, DOMAIN s = DOMAIN t PROVE Len(s) = Len(t)
BY DEF Len

LEMMA Level0 == ASSUME NEW type, NEW value, HasNone(type, value) PROVE Carried0(type, value)
BY DEF HasNone

LEMMA Level1 == ASSUME NEW type, NEW value, Has1(type, value) PROVE Carried1(type, value)
<1> DEFINE token == Token1(type, value)
<1>1. CASE type.kind \in {"word", "packed"}
  <2>1. token = <<type.kind, value>>
    BY <1>1 DEF Token1, TokenOf
  <2>2. Decodes1(type, token)
    BY <1>1, <2>1 DEF Decodes1, ShapeOf
  <2>3. Value1(type, token) = value
    BY <1>1, <2>1 DEF Value1, ValueOf
  <2>4. QED
    BY <2>2, <2>3 DEF Carried1
<1>2. CASE type.kind = "array"
  <2>1. token = <<"array", [i \in DOMAIN value |-> NoToken(type.of, value[i])]>>
    BY <1>2 DEF Token1, TokenOf
  <2>2. value \in Seq({value[i] : i \in DOMAIN value})
        /\ \A i \in DOMAIN value : HasNone(type.of, value[i])
    BY <1>2 DEF Has1, HasOf
  <2>3. \A i \in DOMAIN value : Carried0(type.of, value[i])
    BY <2>2, Level0
  <2>4. Decodes1(type, token)
    BY <1>2, <2>1, <2>3 DEF Decodes1, ShapeOf, Carried0
  <2>5. value = [i \in DOMAIN value |-> value[i]]
    BY <2>2
  <2>6. Value1(type, token) = [i \in DOMAIN value |-> value[i]]
    BY <1>2, <2>1, <2>3 DEF Value1, ValueOf, Carried0
  <2>7. QED
    BY <2>4, <2>5, <2>6 DEF Carried1
<1>3. CASE type.kind = "struct"
  <2> DEFINE fields == type.fields
  <2>1. token = <<"struct", [i \in DOMAIN fields |-> NoToken(fields[i][2], value[fields[i][1]])]>>
    BY <1>3 DEF Token1, TokenOf
  <2>2. value = [name \in FieldNames(fields) |-> value[name]]
        /\ \A i \in DOMAIN fields : HasNone(fields[i][2], value[fields[i][1]])
    BY <1>3 DEF Has1, HasOf
  <2>3. \A i \in DOMAIN fields : Carried0(fields[i][2], value[fields[i][1]])
    BY <2>2, Level0
  <2>4. Decodes1(type, token)
    BY <1>3, <2>1, <2>3, SameLength DEF Decodes1, ShapeOf, Carried0
  <2>5. ASSUME NEW name \in FieldNames(fields)
        PROVE  LET i == PlaceIn(InOrder(fields), name)
               IN  NoValue(fields[i][2], token[2][i]) = value[name]
    <3>1. PICK i \in DOMAIN fields : i = PlaceIn(InOrder(fields), name) /\ fields[i][1] = name
      BY PlaceOfField
    <3>2. token[2][i] = NoToken(fields[i][2], value[name])
      BY <2>1, <3>1
    <3>3. QED
      BY <2>3, <3>1, <3>2 DEF Carried0
  <2>6. Value1(type, token) = [name \in FieldNames(fields) |-> value[name]]
    BY <1>3, <2>5 DEF Value1, ValueOf
  <2>7. QED
    BY <2>2, <2>4, <2>6 DEF Carried1
<1>4. QED
  BY <1>1, <1>2, <1>3 DEF Has1, HasOf

LEMMA Level2 == ASSUME NEW type, NEW value, Has2(type, value) PROVE Carried2(type, value)
<1> DEFINE token == Token2(type, value)
<1>1. CASE type.kind \in {"word", "packed"}
  <2>1. token = <<type.kind, value>>
    BY <1>1 DEF Token2, TokenOf
  <2>2. Decodes2(type, token)
    BY <1>1, <2>1 DEF Decodes2, ShapeOf
  <2>3. Value2(type, token) = value
    BY <1>1, <2>1 DEF Value2, ValueOf
  <2>4. QED
    BY <2>2, <2>3 DEF Carried2
<1>2. CASE type.kind = "array"
  <2>1. token = <<"array", [i \in DOMAIN value |-> Token1(type.of, value[i])]>>
    BY <1>2 DEF Token2, TokenOf
  <2>2. value \in Seq({value[i] : i \in DOMAIN value})
        /\ \A i \in DOMAIN value : Has1(type.of, value[i])
    BY <1>2 DEF Has2, HasOf
  <2>3. \A i \in DOMAIN value : Carried1(type.of, value[i])
    BY <2>2, Level1
  <2>4. Decodes2(type, token)
    BY <1>2, <2>1, <2>3 DEF Decodes2, ShapeOf, Carried1
  <2>5. value = [i \in DOMAIN value |-> value[i]]
    BY <2>2
  <2>6. Value2(type, token) = [i \in DOMAIN value |-> value[i]]
    BY <1>2, <2>1, <2>3 DEF Value2, ValueOf, Carried1
  <2>7. QED
    BY <2>4, <2>5, <2>6 DEF Carried2
<1>3. CASE type.kind = "struct"
  <2> DEFINE fields == type.fields
  <2>1. token = <<"struct", [i \in DOMAIN fields |-> Token1(fields[i][2], value[fields[i][1]])]>>
    BY <1>3 DEF Token2, TokenOf
  <2>2. value = [name \in FieldNames(fields) |-> value[name]]
        /\ \A i \in DOMAIN fields : Has1(fields[i][2], value[fields[i][1]])
    BY <1>3 DEF Has2, HasOf
  <2>3. \A i \in DOMAIN fields : Carried1(fields[i][2], value[fields[i][1]])
    BY <2>2, Level1
  <2>4. Decodes2(type, token)
    BY <1>3, <2>1, <2>3, SameLength DEF Decodes2, ShapeOf, Carried1
  <2>5. ASSUME NEW name \in FieldNames(fields)
        PROVE  LET i == PlaceIn(InOrder(fields), name)
               IN  Value1(fields[i][2], token[2][i]) = value[name]
    <3>1. PICK i \in DOMAIN fields : i = PlaceIn(InOrder(fields), name) /\ fields[i][1] = name
      BY PlaceOfField
    <3>2. token[2][i] = Token1(fields[i][2], value[name])
      BY <2>1, <3>1
    <3>3. QED
      BY <2>3, <3>1, <3>2 DEF Carried1
  <2>6. Value2(type, token) = [name \in FieldNames(fields) |-> value[name]]
    BY <1>3, <2>5 DEF Value2, ValueOf
  <2>7. QED
    BY <2>2, <2>4, <2>6 DEF Carried2
<1>4. QED
  BY <1>1, <1>2, <1>3 DEF Has2, HasOf

LEMMA Level3 == ASSUME NEW type, NEW value, Has3(type, value) PROVE Carried3(type, value)
<1> DEFINE token == Token3(type, value)
<1>1. CASE type.kind \in {"word", "packed"}
  <2>1. token = <<type.kind, value>>
    BY <1>1 DEF Token3, TokenOf
  <2>2. Decodes3(type, token)
    BY <1>1, <2>1 DEF Decodes3, ShapeOf
  <2>3. Value3(type, token) = value
    BY <1>1, <2>1 DEF Value3, ValueOf
  <2>4. QED
    BY <2>2, <2>3 DEF Carried3
<1>2. CASE type.kind = "array"
  <2>1. token = <<"array", [i \in DOMAIN value |-> Token2(type.of, value[i])]>>
    BY <1>2 DEF Token3, TokenOf
  <2>2. value \in Seq({value[i] : i \in DOMAIN value})
        /\ \A i \in DOMAIN value : Has2(type.of, value[i])
    BY <1>2 DEF Has3, HasOf
  <2>3. \A i \in DOMAIN value : Carried2(type.of, value[i])
    BY <2>2, Level2
  <2>4. Decodes3(type, token)
    BY <1>2, <2>1, <2>3 DEF Decodes3, ShapeOf, Carried2
  <2>5. value = [i \in DOMAIN value |-> value[i]]
    BY <2>2
  <2>6. Value3(type, token) = [i \in DOMAIN value |-> value[i]]
    BY <1>2, <2>1, <2>3 DEF Value3, ValueOf, Carried2
  <2>7. QED
    BY <2>4, <2>5, <2>6 DEF Carried3
<1>3. CASE type.kind = "struct"
  <2> DEFINE fields == type.fields
  <2>1. token = <<"struct", [i \in DOMAIN fields |-> Token2(fields[i][2], value[fields[i][1]])]>>
    BY <1>3 DEF Token3, TokenOf
  <2>2. value = [name \in FieldNames(fields) |-> value[name]]
        /\ \A i \in DOMAIN fields : Has2(fields[i][2], value[fields[i][1]])
    BY <1>3 DEF Has3, HasOf
  <2>3. \A i \in DOMAIN fields : Carried2(fields[i][2], value[fields[i][1]])
    BY <2>2, Level2
  <2>4. Decodes3(type, token)
    BY <1>3, <2>1, <2>3, SameLength DEF Decodes3, ShapeOf, Carried2
  <2>5. ASSUME NEW name \in FieldNames(fields)
        PROVE  LET i == PlaceIn(InOrder(fields), name)
               IN  Value2(fields[i][2], token[2][i]) = value[name]
    <3>1. PICK i \in DOMAIN fields : i = PlaceIn(InOrder(fields), name) /\ fields[i][1] = name
      BY PlaceOfField
    <3>2. token[2][i] = Token2(fields[i][2], value[name])
      BY <2>1, <3>1
    <3>3. QED
      BY <2>3, <3>1, <3>2 DEF Carried2
  <2>6. Value3(type, token) = [name \in FieldNames(fields) |-> value[name]]
    BY <1>3, <2>5 DEF Value3, ValueOf
  <2>7. QED
    BY <2>2, <2>4, <2>6 DEF Carried3
<1>4. QED
  BY <1>1, <1>2, <1>3 DEF Has3, HasOf

LEMMA Level4 == ASSUME NEW type, NEW value, Has4(type, value) PROVE Carried4(type, value)
<1> DEFINE token == Token4(type, value)
<1>1. CASE type.kind \in {"word", "packed"}
  <2>1. token = <<type.kind, value>>
    BY <1>1 DEF Token4, TokenOf
  <2>2. Decodes4(type, token)
    BY <1>1, <2>1 DEF Decodes4, ShapeOf
  <2>3. Value4(type, token) = value
    BY <1>1, <2>1 DEF Value4, ValueOf
  <2>4. QED
    BY <2>2, <2>3 DEF Carried4
<1>2. CASE type.kind = "array"
  <2>1. token = <<"array", [i \in DOMAIN value |-> Token3(type.of, value[i])]>>
    BY <1>2 DEF Token4, TokenOf
  <2>2. value \in Seq({value[i] : i \in DOMAIN value})
        /\ \A i \in DOMAIN value : Has3(type.of, value[i])
    BY <1>2 DEF Has4, HasOf
  <2>3. \A i \in DOMAIN value : Carried3(type.of, value[i])
    BY <2>2, Level3
  <2>4. Decodes4(type, token)
    BY <1>2, <2>1, <2>3 DEF Decodes4, ShapeOf, Carried3
  <2>5. value = [i \in DOMAIN value |-> value[i]]
    BY <2>2
  <2>6. Value4(type, token) = [i \in DOMAIN value |-> value[i]]
    BY <1>2, <2>1, <2>3 DEF Value4, ValueOf, Carried3
  <2>7. QED
    BY <2>4, <2>5, <2>6 DEF Carried4
<1>3. CASE type.kind = "struct"
  <2> DEFINE fields == type.fields
  <2>1. token = <<"struct", [i \in DOMAIN fields |-> Token3(fields[i][2], value[fields[i][1]])]>>
    BY <1>3 DEF Token4, TokenOf
  <2>2. value = [name \in FieldNames(fields) |-> value[name]]
        /\ \A i \in DOMAIN fields : Has3(fields[i][2], value[fields[i][1]])
    BY <1>3 DEF Has4, HasOf
  <2>3. \A i \in DOMAIN fields : Carried3(fields[i][2], value[fields[i][1]])
    BY <2>2, Level3
  <2>4. Decodes4(type, token)
    BY <1>3, <2>1, <2>3, SameLength DEF Decodes4, ShapeOf, Carried3
  <2>5. ASSUME NEW name \in FieldNames(fields)
        PROVE  LET i == PlaceIn(InOrder(fields), name)
               IN  Value3(fields[i][2], token[2][i]) = value[name]
    <3>1. PICK i \in DOMAIN fields : i = PlaceIn(InOrder(fields), name) /\ fields[i][1] = name
      BY PlaceOfField
    <3>2. token[2][i] = Token3(fields[i][2], value[name])
      BY <2>1, <3>1
    <3>3. QED
      BY <2>3, <3>1, <3>2 DEF Carried3
  <2>6. Value4(type, token) = [name \in FieldNames(fields) |-> value[name]]
    BY <1>3, <2>5 DEF Value4, ValueOf
  <2>7. QED
    BY <2>2, <2>4, <2>6 DEF Carried4
<1>4. QED
  BY <1>1, <1>2, <1>3 DEF Has4, HasOf

LEMMA Level5 == ASSUME NEW type, NEW value, Has(type, value) PROVE Carried5(type, value)
<1> DEFINE token == Tokenize(type, value)
<1>1. CASE type.kind \in {"word", "packed"}
  <2>1. token = <<type.kind, value>>
    BY <1>1 DEF Tokenize, TokenOf
  <2>2. Decodes(type, token)
    BY <1>1, <2>1 DEF Decodes, ShapeOf
  <2>3. Detokenize(type, token) = value
    BY <1>1, <2>1 DEF Detokenize, ValueOf
  <2>4. QED
    BY <2>2, <2>3 DEF Carried5
<1>2. CASE type.kind = "array"
  <2>1. token = <<"array", [i \in DOMAIN value |-> Token4(type.of, value[i])]>>
    BY <1>2 DEF Tokenize, TokenOf
  <2>2. value \in Seq({value[i] : i \in DOMAIN value})
        /\ \A i \in DOMAIN value : Has4(type.of, value[i])
    BY <1>2 DEF Has, HasOf
  <2>3. \A i \in DOMAIN value : Carried4(type.of, value[i])
    BY <2>2, Level4
  <2>4. Decodes(type, token)
    BY <1>2, <2>1, <2>3 DEF Decodes, ShapeOf, Carried4
  <2>5. value = [i \in DOMAIN value |-> value[i]]
    BY <2>2
  <2>6. Detokenize(type, token) = [i \in DOMAIN value |-> value[i]]
    BY <1>2, <2>1, <2>3 DEF Detokenize, ValueOf, Carried4
  <2>7. QED
    BY <2>4, <2>5, <2>6 DEF Carried5
<1>3. CASE type.kind = "struct"
  <2> DEFINE fields == type.fields
  <2>1. token = <<"struct", [i \in DOMAIN fields |-> Token4(fields[i][2], value[fields[i][1]])]>>
    BY <1>3 DEF Tokenize, TokenOf
  <2>2. value = [name \in FieldNames(fields) |-> value[name]]
        /\ \A i \in DOMAIN fields : Has4(fields[i][2], value[fields[i][1]])
    BY <1>3 DEF Has, HasOf
  <2>3. \A i \in DOMAIN fields : Carried4(fields[i][2], value[fields[i][1]])
    BY <2>2, Level4
  <2>4. Decodes(type, token)
    BY <1>3, <2>1, <2>3, SameLength DEF Decodes, ShapeOf, Carried4
  <2>5. ASSUME NEW name \in FieldNames(fields)
        PROVE  LET i == PlaceIn(InOrder(fields), name)
               IN  Value4(fields[i][2], token[2][i]) = value[name]
    <3>1. PICK i \in DOMAIN fields : i = PlaceIn(InOrder(fields), name) /\ fields[i][1] = name
      BY PlaceOfField
    <3>2. token[2][i] = Token4(fields[i][2], value[name])
      BY <2>1, <3>1
    <3>3. QED
      BY <2>3, <3>1, <3>2 DEF Carried4
  <2>6. Detokenize(type, token) = [name \in FieldNames(fields) |-> value[name]]
    BY <1>3, <2>5 DEF Detokenize, ValueOf
  <2>7. QED
    BY <2>2, <2>4, <2>6 DEF Carried5
<1>4. QED
  BY <1>1, <1>2, <1>3 DEF Has, HasOf

----------------------------------------------------------------------------
(* The binary search.  Selectors are compared byte by byte.                *)
Ascending(keys) ==
    /\ keys \in Seq(Seq(Int))
    /\ \A i, j \in DOMAIN keys : i < j => Below(keys[i], keys[j])

LEMMA BelowIsStrict ==
    ASSUME NEW a \in Seq(Int), NEW b \in Seq(Int), Below(a, b) PROVE ~Below(b, a) /\ a # b
<1>1. PICK i \in DOMAIN a : a[i] < b[i] /\ \A j \in 1 .. i - 1 : a[j] = b[j]
  BY DEF Below
<1>2. i \in Nat \ {0} /\ DOMAIN a = 1 .. Len(a) /\ DOMAIN b = 1 .. Len(b)
  OBVIOUS
<1>3. a # b
  <2>1. CASE a = b
    <3>1. a[i] \in Int /\ a[i] < a[i]
      BY <1>1, <2>1
    <3>2. QED
      BY <3>1
  <2>2. QED
    BY <2>1
<1>4. ASSUME Below(b, a) PROVE FALSE
  <2>1. PICK k \in DOMAIN b : b[k] < a[k] /\ \A j \in 1 .. k - 1 : b[j] = a[j]
    BY <1>4 DEF Below
  <2>2. k \in Nat \ {0}
    BY <1>2, <2>1
  <2>3. CASE i < k
    <3>1. i \in 1 .. k - 1 /\ a[i] \in Int
      BY <1>2, <2>2, <2>3
    <3>2. b[i] = a[i] /\ a[i] < b[i]
      BY <1>1, <2>1, <3>1
    <3>3. QED
      BY <3>1, <3>2
  <2>4. CASE k < i
    <3>1. k \in 1 .. i - 1 /\ b[k] \in Int
      BY <1>2, <2>2, <2>1, <2>4
    <3>2. a[k] = b[k] /\ b[k] < a[k]
      BY <1>1, <2>1, <3>1
    <3>3. QED
      BY <3>1, <3>2
  <2>5. CASE k = i
    <3>1. a[i] \in Int /\ b[i] \in Int
      BY <1>1, <2>1, <2>5
    <3>2. QED
      BY <1>1, <2>1, <2>5, <3>1
  <2>6. QED
    BY <1>2, <2>2, <2>3, <2>4, <2>5
<1>5. QED
  BY <1>3, <1>4

(* The order of the keys is that of their places.                          *)
LEMMA SideOf ==
    ASSUME NEW keys, Ascending(keys), NEW i \in DOMAIN keys, NEW p \in DOMAIN keys, i # p
    PROVE  /\ keys[i] # keys[p]
           /\ Below(keys[i], keys[p]) => i < p
           /\ ~Below(keys[i], keys[p]) => p < i
<1>1. keys[i] \in Seq(Int) /\ keys[p] \in Seq(Int) /\ i \in Int /\ p \in Int
  BY DEF Ascending
<1>2. CASE i < p
  <2>1. Below(keys[i], keys[p])
    BY <1>2 DEF Ascending
  <2>2. keys[i] # keys[p]
    BY <1>1, <2>1, BelowIsStrict
  <2>3. QED
    BY <1>1, <1>2, <2>1, <2>2
<1>3. CASE p < i
  <2>1. Below(keys[p], keys[i])
    BY <1>3 DEF Ascending
  <2>2. ~Below(keys[i], keys[p]) /\ keys[p] # keys[i]
    BY <1>1, <2>1, BelowIsStrict
  <2>3. QED
    BY <1>1, <1>3, <2>2
<1>4. QED
  BY <1>1, <1>2, <1>3

LEMMA MiddleIs ==
    ASSUME NEW low \in Int, NEW high \in Int
    PROVE  /\ (low + high) \div 2 \in Int
           /\ low <= high => low <= (low + high) \div 2 /\ (low + high) \div 2 <= high
OBVIOUS

Interval == [low: Int, high: Int]

LEMMA HalvedIs ==
    ASSUME NEW keys, NEW key, NEW range \in Interval PROVE Halved(keys, key, range) \in Interval
<1>1. Middle(range) \in Int /\ range.low \in Int /\ range.high \in Int
  BY MiddleIs DEF Middle, Interval
<1>2. QED
  BY <1>1 DEF Halved, Interval

Halves(range, keys, key) ==
    /\ range \in [Nat -> Interval]
    /\ range[0] = [low |-> 1, high |-> Len(keys)]
    /\ \A n \in Nat : range[n + 1] = Halved(keys, key, range[n])

LEMMA RangesAre ==
    ASSUME NEW keys, NEW key, Len(keys) \in Nat PROVE Halves(Ranges(keys, key), keys, key)
<1> DEFINE zero == [low |-> 1, high |-> Len(keys)]
<1> DEFINE step == [n \in Nat |-> [x \in Interval |-> Halved(keys, key, x)]]
<1>1. /\ zero \in Interval
      /\ step \in [Nat -> [Interval -> Interval]]
      /\ \A n \in Nat, x \in Interval : step[n][x] = Halved(keys, key, x)
  <2>1. zero \in Interval
    BY DEF Interval
  <2>2. QED
    BY <2>1, HalvedIs
<1> HIDE DEF zero, step
<1>2. PICK f : Solves(f, Interval, zero, step)
  BY <1>1, Solution
<1>3. ASSUME NEW n \in Nat PROVE f[n] = IF n = 0 THEN zero ELSE Halved(keys, key, f[n - 1])
  <2>1. CASE n # 0
    <3>1. f[n - 1] \in Interval /\ f[n] = step[n - 1][f[n - 1]]
      BY <1>2, <2>1, Predecessor DEF Solves
    <3>2. QED
      BY <1>1, <2>1, <3>1, Predecessor
  <2>2. QED
    BY <1>2, <2>1 DEF Solves
<1>4. f = [n \in Nat |-> IF n = 0 THEN zero ELSE Halved(keys, key, f[n - 1])]
  BY <1>2, <1>3 DEF Solves
<1> DEFINE g == Ranges(keys, key)
<1>5. g = [n \in Nat |-> IF n = 0 THEN zero ELSE Halved(keys, key, g[n - 1])]
  BY <1>4, Zenon DEF Ranges, zero
<1> HIDE DEF g
<1>6. g[0] = zero /\ \A n \in Nat : g[n + 1] = Halved(keys, key, g[n])
  BY <1>5, Successor
<1>7. g = [n \in Nat |-> g[n]]
  BY <1>5
<1>8. \A n \in Nat : g[n] \in Interval => g[n + 1] = step[n][g[n]]
  BY <1>1, <1>6
<1>9. Solves(g, Interval, zero, step)
  BY <1>1, <1>6, <1>7, <1>8, StaysIn
<1>10. QED
  BY <1>6, <1>9 DEF Solves, Halves, g, zero

(* The range never loses the place of the key, and halving it goes on      *)
(* until its middle is that place.                                         *)
Narrow(keys, p, n, range) ==
    /\ 1 <= range.low /\ range.low <= p /\ p <= range.high /\ range.high <= Len(keys)
    /\ Over(keys, keys[p], range) \/ range.high - range.low <= Len(keys) - 1 - n

LEMMA HalvedIsNarrower ==
    ASSUME NEW keys, Ascending(keys), NEW p \in DOMAIN keys, NEW n \in Nat,
           NEW range \in Interval, Narrow(keys, p, n, range)
    PROVE  Narrow(keys, p, n + 1, Halved(keys, keys[p], range))
<1>1. CASE Over(keys, keys[p], range)
  BY <1>1 DEF Halved, Narrow
<1>2. CASE ~Over(keys, keys[p], range)
  <2> DEFINE m == Middle(range)
  <2>1. /\ range.low \in Int /\ range.high \in Int /\ p \in Int /\ Len(keys) \in Int
        /\ DOMAIN keys = 1 .. Len(keys)
    BY DEF Interval, Ascending
  <2>2. /\ 1 <= range.low /\ range.low <= p /\ p <= range.high /\ range.high <= Len(keys)
        /\ range.high - range.low <= Len(keys) - 1 - n
    BY <1>2 DEF Narrow
  <2>3. range.low <= range.high
    BY <2>1, <2>2
  <2>4. m \in Int /\ range.low <= m /\ m <= range.high
    BY <2>1, <2>3, MiddleIs DEF Middle
  <2> HIDE DEF m
  <2>5. m \in DOMAIN keys
    BY <2>1, <2>2, <2>4
  <2>6. keys[m] # keys[p]
    BY <1>2 DEF Over, m
  <2>7. m # p
    BY <2>6
  <2>8. CASE Below(keys[m], keys[p])
    <3>1. m < p
      BY <2>5, <2>7, <2>8, SideOf
    <3>2. Halved(keys, keys[p], range) = [low |-> m + 1, high |-> range.high]
      BY <1>2, <2>8 DEF Halved, m
    <3>3. QED
      BY <2>1, <2>2, <2>4, <3>1, <3>2 DEF Narrow
  <2>9. CASE ~Below(keys[m], keys[p])
    <3>1. p < m
      BY <2>5, <2>7, <2>9, SideOf
    <3>2. Halved(keys, keys[p], range) = [low |-> range.low, high |-> m - 1]
      BY <1>2, <2>9 DEF Halved, m
    <3>3. QED
      BY <2>1, <2>2, <2>4, <3>1, <3>2 DEF Narrow
  <2>10. QED
    BY <2>8, <2>9
<1>3. QED
  BY <1>1, <1>2

(* In an ascending table the search finds every key.                       *)
THEOREM SearchFindsEveryKey ==
    ASSUME NEW keys, Ascending(keys), NEW p \in DOMAIN keys
    PROVE  binary_search(keys, keys[p]) = p
<1> DEFINE range == Ranges(keys, keys[p])
<1>1. Len(keys) \in Nat /\ DOMAIN keys = 1 .. Len(keys) /\ p \in Int
  BY DEF Ascending
<1>2. /\ range \in [Nat -> Interval]
      /\ range[0] = [low |-> 1, high |-> Len(keys)]
      /\ \A n \in Nat : range[n + 1] = Halved(keys, keys[p], range[n])
  <2>1. Halves(range, keys, keys[p])
    BY <1>1, RangesAre
  <2>2. QED
    BY <2>1 DEF Halves
<1> HIDE DEF range
<1> DEFINE T == {n \in Nat : Narrow(keys, p, n, range[n])}
<1>3. 0 \in T
  <2>1. PICK length \in Nat : length = Len(keys)
    BY <1>1
  <2>2. range[0].low = 1 /\ range[0].high = length /\ 1 <= p /\ p <= length
    BY <1>1, <1>2, <2>1
  <2>3. Narrow(keys, p, 0, range[0])
    BY <2>1, <2>2, <1>1 DEF Narrow
  <2>4. QED
    BY <2>3
<1>4. ASSUME NEW n \in T PROVE n + 1 \in T
  <2>1. n \in Nat /\ Narrow(keys, p, n, range[n]) /\ range[n] \in Interval
    BY <1>2, <1>4
  <2>2. Narrow(keys, p, n + 1, Halved(keys, keys[p], range[n]))
    BY <2>1, HalvedIsNarrower
  <2>3. QED
    BY <1>2, <2>1, <2>2
<1>5. T = Nat
  <2> HIDE DEF T
  <2>1. T \subseteq Nat
    BY DEF T
  <2>2. QED
    BY <1>3, <1>4, <2>1, InductiveSet
<1> DEFINE last == range[Len(keys)]
<1>6. last \in Interval /\ Narrow(keys, p, Len(keys), last)
  BY <1>1, <1>2, <1>5
<1>7. last.low \in Int /\ last.high \in Int /\ last.low <= p /\ p <= last.high
      /\ 1 <= last.low /\ last.high <= Len(keys)
  BY <1>6 DEF Interval, Narrow
<1>8. last.low <= last.high /\ ~(last.high - last.low <= Len(keys) - 1 - Len(keys))
  BY <1>1, <1>7
<1>9. keys[Middle(last)] = keys[p]
  BY <1>1, <1>6, <1>7, <1>8 DEF Narrow, Over
<1> HIDE DEF last
<1>10. Middle(last) \in DOMAIN keys
  <2>1. Middle(last) \in Int /\ last.low <= Middle(last) /\ Middle(last) <= last.high
    BY <1>7, <1>8, MiddleIs DEF Middle
  <2>2. QED
    BY <1>1, <1>7, <2>1
<1>11. Middle(last) = p
  BY <1>9, <1>10, SideOf
<1>12. QED
  BY <1>1, <1>7, <1>8, <1>11 DEF binary_search, range, last

----------------------------------------------------------------------------
(* A tuple of fields reads back what it wrote.                             *)
LEMMA TupleCarried ==
    ASSUME NEW fields, NEW values, Fit(fields, values)
    PROVE  LET tokens == TokenizeFields(fields, InOrder(fields), values)
           IN  /\ DecodesFields(fields, tokens)
               /\ DetokenizeFields(fields, InOrder(fields), tokens) = values
<1> DEFINE tokens == TokenizeFields(fields, InOrder(fields), values)
<1>1. /\ DOMAIN tokens = DOMAIN fields
      /\ \A i \in DOMAIN fields : tokens[i] = Tokenize(fields[i][2], values[fields[i][1]])
  BY DEF TokenizeFields, InOrder
<1>2. \A i \in DOMAIN fields : Carried5(fields[i][2], values[fields[i][1]])
  BY Level5 DEF Fit
<1> HIDE DEF tokens
<1>3. DecodesFields(fields, tokens)
  <2>1. Len(tokens) = Len(fields)
    BY <1>1, SameLength
  <2>2. QED
    BY <1>1, <1>2, <2>1 DEF DecodesFields, Carried5
<1>4. ASSUME NEW name \in FieldNames(fields)
      PROVE  LET i == PlaceIn(InOrder(fields), name)
             IN  Detokenize(fields[i][2], tokens[i]) = values[name]
  <2>1. PICK i \in DOMAIN fields : i = PlaceIn(InOrder(fields), name) /\ fields[i][1] = name
    BY PlaceOfField
  <2>2. QED
    BY <1>1, <1>2, <2>1 DEF Carried5
<1>5. DetokenizeFields(fields, InOrder(fields), tokens)
          = [name \in FieldNames(fields) |-> values[name]]
  BY <1>4 DEF DetokenizeFields
<1>6. QED
  BY <1>3, <1>5 DEF Fit, tokens

----------------------------------------------------------------------------
(* Calls and errors: the two tables of a decoder fit each other, and the   *)
(* variants write their fields in the order in which they are read.        *)
TablesMatch(variants, SELECTORS, DECODE_SHIMS) ==
    /\ Ascending(SELECTORS)
    /\ DOMAIN DECODE_SHIMS = DOMAIN SELECTORS
    /\ \A i \in DOMAIN DECODE_SHIMS : variants[DECODE_SHIMS[i]].selector = SELECTORS[i]
    /\ \A name \in DOMAIN variants :
          /\ \E i \in DOMAIN DECODE_SHIMS : DECODE_SHIMS[i] = name
          /\ variants[name].order = InOrder(variants[name].fields)

(* A call is taken for the call it is, each value in its field.            *)
THEOREM CallsArrive ==
    ASSUME NEW variants, NEW SELECTORS, NEW DECODE_SHIMS,
           TablesMatch(variants, SELECTORS, DECODE_SHIMS),
           NEW name \in DOMAIN variants, NEW values, Fit(variants[name].fields, values)
    PROVE  abi_decode_raw(variants, SELECTORS, DECODE_SHIMS, abi_encode(variants[name], values))
               = Decoded(name, values)
<1> DEFINE fields == variants[name].fields
           tokens == TokenizeFields(fields, InOrder(fields), values)
           onWire == abi_encode(variants[name], values)
<1>1. PICK p \in DOMAIN DECODE_SHIMS : DECODE_SHIMS[p] = name
  BY DEF TablesMatch
<1>2. p \in DOMAIN SELECTORS /\ variants[name].selector = SELECTORS[p] /\ Ascending(SELECTORS)
      /\ variants[name].order = InOrder(fields)
  BY <1>1 DEF TablesMatch
<1>3. onWire.selector = SELECTORS[p] /\ onWire.data = tokens
  BY <1>2 DEF abi_encode
<1>4. binary_search(SELECTORS, SELECTORS[p]) = p
  BY <1>2, SearchFindsEveryKey
<1>5. DecodesFields(fields, tokens) /\ DetokenizeFields(fields, InOrder(fields), tokens) = values
  BY TupleCarried
<1> HIDE DEF onWire, tokens, fields
<1>6. abi_decode_raw(variants, SELECTORS, DECODE_SHIMS, onWire) = Decoded(name, values)
  BY <1>1, <1>3, <1>4, <1>5 DEF abi_decode_raw, fields
<1>7. QED
  BY <1>6 DEF onWire

----------------------------------------------------------------------------
(* Events: no two variants have one hash, and new fills the fields in the  *)
(* order of the topics and the body.                                       *)
IsTuple(s) == \E n \in Nat : s = [i \in 1 .. n |-> s[i]]

Fills(event) ==
    /\ IsTuple(event.indexed) /\ IsTuple(event.body)
    /\ event.filled = InOrder(event.indexed \o event.body)

EventsDiffer(variants) ==
    \A name \in DOMAIN variants :
        /\ Fills(variants[name])
        /\ \A other \in DOMAIN variants :
              variants[other].hash = variants[name].hash => other = name

(* The places of two tuples in one.                                        *)
LEMMA Parts ==
    ASSUME NEW s, IsTuple(s), NEW t, IsTuple(t)
    PROVE  /\ Len(s) \in Nat /\ DOMAIN s = 1 .. Len(s)
           /\ Len(t) \in Nat /\ DOMAIN t = 1 .. Len(t)
           /\ DOMAIN (s \o t) = 1 .. Len(s) + Len(t)
           /\ \A i \in DOMAIN s : i \in DOMAIN (s \o t) /\ (s \o t)[i] = s[i]
           /\ \A i \in DOMAIN t : Len(s) + i \in DOMAIN (s \o t) /\ (s \o t)[Len(s) + i] = t[i]
<1>1. PICK S : s \in Seq(S)
  <2>1. PICK n \in Nat : s = [i \in 1 .. n |-> s[i]]
    BY DEF IsTuple
  <2>2. s \in Seq({s[i] : i \in 1 .. n})
    BY <2>1
  <2>3. QED
    BY <2>2
<1>2. PICK T : t \in Seq(T)
  <2>1. PICK n \in Nat : t = [i \in 1 .. n |-> t[i]]
    BY DEF IsTuple
  <2>2. t \in Seq({t[i] : i \in 1 .. n})
    BY <2>1
  <2>3. QED
    BY <2>2
<1>3. s \in Seq(S \cup T) /\ t \in Seq(S \cup T)
  BY <1>1, <1>2
<1>4. QED
  BY <1>3

LEMMA BothIsTuple ==
    ASSUME NEW s, IsTuple(s), NEW t, IsTuple(t)
    PROVE  IsTuple(s \o t)
<1>1. PICK S : s \in Seq(S)
  <2>1. PICK n \in Nat : s = [i \in 1 .. n |-> s[i]]
    BY DEF IsTuple
  <2>2. s \in Seq({s[i] : i \in 1 .. n})
    BY <2>1
  <2>3. QED
    BY <2>2
<1>2. PICK T : t \in Seq(T)
  <2>1. PICK n \in Nat : t = [i \in 1 .. n |-> t[i]]
    BY DEF IsTuple
  <2>2. t \in Seq({t[i] : i \in 1 .. n})
    BY <2>1
  <2>3. QED
    BY <2>2
<1> DEFINE both == s \o t
<1>3. both \in Seq(S \cup T)
  BY <1>1, <1>2
<1> HIDE DEF both
<1>4. PICK n \in Nat : both \in [1 .. n -> S \cup T]
  BY <1>3 DEF Seq
<1>5. both = [i \in 1 .. n |-> both[i]]
  BY <1>4
<1>6. QED
  BY <1>5 DEF IsTuple, both

LEMMA Prefixed ==
    ASSUME NEW x, NEW t, IsTuple(t)
    PROVE  (<<x>> \o t)[1] = x /\ Tail(<<x>> \o t) = t
<1>1. PICK T : t \in Seq(T)
  <2>1. PICK n \in Nat : t = [i \in 1 .. n |-> t[i]]
    BY DEF IsTuple
  <2>2. t \in Seq({t[i] : i \in 1 .. n})
    BY <2>1
  <2>3. QED
    BY <2>2
<1>2. t \in Seq(T \cup {x}) /\ <<x>> \in Seq(T \cup {x})
  BY <1>1
<1> DEFINE both == <<x>> \o t
<1>3. /\ both \in Seq(T \cup {x}) /\ Len(both) = Len(t) + 1 /\ both[1] = x
      /\ \A i \in 1 .. Len(t) : both[i + 1] = t[i]
  BY <1>2
<1> HIDE DEF both
<1>4. Tail(both) \in Seq(T \cup {x}) /\ Len(Tail(both)) = Len(t)
      /\ \A i \in 1 .. Len(t) : Tail(both)[i] = both[i + 1]
  BY <1>2, <1>3
<1>5. Tail(both) = t
  BY <1>2, <1>3, <1>4
<1>6. QED
  BY <1>3, <1>5 DEF both

(* The tokens of a tuple, and of two tuples one after the other.           *)
LEMMA TokensAre ==
    ASSUME NEW fields, IsTuple(fields), NEW values
    PROVE  LET tokens == TokenizeFields(fields, InOrder(fields), values)
           IN  /\ IsTuple(tokens)
               /\ Len(tokens) = Len(fields) /\ DOMAIN tokens = DOMAIN fields
               /\ \A i \in DOMAIN fields : tokens[i] = Tokenize(fields[i][2], values[fields[i][1]])
<1> DEFINE tokens == TokenizeFields(fields, InOrder(fields), values)
<1>1. /\ tokens = [i \in DOMAIN fields |-> tokens[i]]
      /\ \A i \in DOMAIN fields : tokens[i] = Tokenize(fields[i][2], values[fields[i][1]])
  BY DEF TokenizeFields, InOrder
<1> HIDE DEF tokens
<1>2. Len(fields) \in Nat /\ DOMAIN fields = 1 .. Len(fields)
  BY Parts
<1>3. IsTuple(tokens)
  BY <1>1, <1>2 DEF IsTuple
<1>4. Len(tokens) = Len(fields)
  BY <1>1, SameLength
<1>5. QED
  BY <1>1, <1>3, <1>4 DEF tokens

LEMMA TokensOfBoth ==
    ASSUME NEW a, IsTuple(a), NEW b, IsTuple(b), NEW values
    PROVE  TokenizeFields(a \o b, InOrder(a \o b), values)
               = TokenizeFields(a, InOrder(a), values) \o TokenizeFields(b, InOrder(b), values)
<1> DEFINE Ta == TokenizeFields(a, InOrder(a), values)
           Tb == TokenizeFields(b, InOrder(b), values)
           T == TokenizeFields(a \o b, InOrder(a \o b), values)
<1>1. /\ IsTuple(Ta) /\ Len(Ta) = Len(a)
      /\ \A i \in DOMAIN a : Ta[i] = Tokenize(a[i][2], values[a[i][1]])
  BY TokensAre
<1>2. /\ IsTuple(Tb) /\ Len(Tb) = Len(b)
      /\ \A i \in DOMAIN b : Tb[i] = Tokenize(b[i][2], values[b[i][1]])
  BY TokensAre
<1>3. /\ T = [i \in DOMAIN (a \o b) |-> T[i]]
      /\ \A i \in DOMAIN (a \o b) : T[i] = Tokenize((a \o b)[i][2], values[(a \o b)[i][1]])
  BY DEF TokenizeFields, InOrder
<1> HIDE DEF T, Ta, Tb
<1>4. /\ Len(a) \in Nat /\ DOMAIN a = 1 .. Len(a) /\ Len(b) \in Nat /\ DOMAIN b = 1 .. Len(b)
      /\ DOMAIN (a \o b) = 1 .. Len(a) + Len(b)
      /\ \A i \in DOMAIN a : (a \o b)[i] = a[i]
      /\ \A i \in DOMAIN b : (a \o b)[Len(a) + i] = b[i]
  BY Parts
<1>5. /\ DOMAIN (Ta \o Tb) = 1 .. Len(a) + Len(b)
      /\ \A i \in DOMAIN a : (Ta \o Tb)[i] = Ta[i]
      /\ \A i \in DOMAIN b : (Ta \o Tb)[Len(a) + i] = Tb[i]
  <2>1. /\ DOMAIN Ta = 1 .. Len(Ta) /\ DOMAIN Tb = 1 .. Len(Tb)
        /\ DOMAIN (Ta \o Tb) = 1 .. Len(Ta) + Len(Tb)
        /\ \A i \in DOMAIN Ta : (Ta \o Tb)[i] = Ta[i]
        /\ \A i \in DOMAIN Tb : (Ta \o Tb)[Len(Ta) + i] = Tb[i]
    BY <1>1, <1>2, Parts
  <2>2. QED
    BY <1>1, <1>2, <1>4, <2>1
<1>6. ASSUME NEW i \in DOMAIN (a \o b) PROVE T[i] = (Ta \o Tb)[i]
  <2>1. CASE i \in DOMAIN a
    BY <1>1, <1>3, <1>4, <1>5, <2>1
  <2>2. CASE i \notin DOMAIN a
    <3>1. PICK k \in DOMAIN b : i = Len(a) + k
      <4>1. i - Len(a) \in DOMAIN b /\ i = Len(a) + (i - Len(a))
        BY <1>4, <2>2
      <4>2. QED
        BY <4>1
    <3>2. T[i] = Tokenize(b[k][2], values[b[k][1]])
      BY <1>3, <1>4, <3>1
    <3>3. (Ta \o Tb)[i] = Tb[k]
      BY <1>5, <3>1
    <3>4. QED
      BY <1>2, <3>2, <3>3
  <2>3. QED
    BY <2>1, <2>2
<1>7. Ta \o Tb = [i \in DOMAIN (a \o b) |-> (Ta \o Tb)[i]]
  <2>1. IsTuple(Ta \o Tb)
    BY <1>1, <1>2, BothIsTuple
  <2>2. QED
    BY <1>4, <1>5, <2>1 DEF IsTuple
<1>8. T = Ta \o Tb
  BY <1>3, <1>6, <1>7
<1>9. QED
  BY <1>8 DEF T, Ta, Tb

LEMMA PartsDecode ==
    ASSUME NEW a, IsTuple(a), NEW b, IsTuple(b),
           NEW Ta, IsTuple(Ta), Len(Ta) = Len(a), NEW Tb, IsTuple(Tb), Len(Tb) = Len(b),
           DecodesFields(a \o b, Ta \o Tb)
    PROVE  DecodesFields(a, Ta) /\ DecodesFields(b, Tb)
<1>1. /\ \A i \in DOMAIN a : i \in DOMAIN (a \o b) /\ (a \o b)[i] = a[i]
      /\ \A i \in DOMAIN b : Len(a) + i \in DOMAIN (a \o b) /\ (a \o b)[Len(a) + i] = b[i]
      /\ DOMAIN a = 1 .. Len(a) /\ DOMAIN b = 1 .. Len(b)
  BY Parts
<1>2. /\ \A i \in DOMAIN Ta : (Ta \o Tb)[i] = Ta[i]
      /\ \A i \in DOMAIN Tb : (Ta \o Tb)[Len(Ta) + i] = Tb[i]
      /\ DOMAIN Ta = 1 .. Len(Ta) /\ DOMAIN Tb = 1 .. Len(Tb)
  BY Parts
<1>3. \A i \in DOMAIN (a \o b) : Decodes((a \o b)[i][2], (Ta \o Tb)[i])
  BY DEF DecodesFields
<1>4. \A i \in DOMAIN a : Decodes(a[i][2], Ta[i])
  BY <1>1, <1>2, <1>3
<1>5. \A i \in DOMAIN b : Decodes(b[i][2], Tb[i])
  BY <1>1, <1>2, <1>3
<1>6. QED
  BY <1>4, <1>5 DEF DecodesFields

(* One event and its log.                                                  *)
LEMMA LogArrives ==
    ASSUME NEW event, Fills(event), NEW values, Fit(event.indexed \o event.body, values)
    PROVE  LET log == encode_log_data(event, values)
           IN  /\ topic0(log) = event.hash
               /\ LogDecodes(event, log) /\ log_decode(event, log) = values
<1> DEFINE a == event.indexed
           b == event.body
           Ta == TokenizeFields(a, InOrder(a), values)
           Tb == TokenizeFields(b, InOrder(b), values)
           log == encode_log_data(event, values)
<1>1. IsTuple(a) /\ IsTuple(b) /\ event.filled = InOrder(a \o b)
  BY DEF Fills
<1>2. /\ IsTuple(Ta) /\ Len(Ta) = Len(a) /\ DOMAIN Ta = DOMAIN a
      /\ IsTuple(Tb) /\ Len(Tb) = Len(b) /\ DOMAIN Tb = DOMAIN b
  BY <1>1, TokensAre
<1>3. /\ DecodesFields(a \o b, Ta \o Tb)
      /\ DetokenizeFields(a \o b, InOrder(a \o b), Ta \o Tb) = values
  <2> DEFINE T == TokenizeFields(a \o b, InOrder(a \o b), values)
  <2>1. T = Ta \o Tb
    BY <1>1, TokensOfBoth
  <2>2. DecodesFields(a \o b, T) /\ DetokenizeFields(a \o b, InOrder(a \o b), T) = values
    BY TupleCarried
  <2> HIDE DEF T, Ta, Tb, a, b
  <2>3. QED
    BY <2>1, <2>2
<1>4. log = [topics |-> <<event.hash>> \o Ta, data |-> Tb]
  BY DEF encode_log_data
<1> HIDE DEF Ta, Tb
<1>5. topic0(log) = event.hash /\ Tail(log.topics) = Ta /\ log.data = Tb
  BY <1>2, <1>4, Prefixed DEF topic0
<1> HIDE DEF log, a, b
<1>6. DecodesFields(a, Ta) /\ DecodesFields(b, Tb)
  BY <1>1, <1>2, <1>3, PartsDecode
<1>7. LogDecodes(event, log)
  BY <1>5, <1>6 DEF LogDecodes, a, b
<1>8. log_decode(event, log) = values
  BY <1>1, <1>3, <1>5 DEF log_decode, a, b
<1>9. QED
  BY <1>5, <1>7, <1>8 DEF log

(* A log is decoded as the event it was emitted for, with its values.      *)
THEOREM EventsArrive ==
    ASSUME NEW variants, EventsDiffer(variants), NEW name \in DOMAIN variants, NEW values,
           Fit(variants[name].indexed \o variants[name].body, values)
    PROVE  decode_raw_log(variants, encode_log_data(variants[name], values))
               = Decoded(name, values)
<1> DEFINE event == variants[name]
           log == encode_log_data(event, values)
<1>1. topic0(log) = event.hash /\ LogDecodes(event, log) /\ log_decode(event, log) = values
  BY LogArrives DEF EventsDiffer
<1> HIDE DEF log
<1>2. {v \in DOMAIN variants : topic0(log) = variants[v].hash} = {name}
  BY <1>1 DEF EventsDiffer
<1>3. decode_raw_log(variants, log) = Decoded(name, values)
  <2>1. (CHOOSE v \in {name} : TRUE) = name
    OBVIOUS
  <2>2. QED
    BY <1>1, <1>2, <2>1 DEF decode_raw_log
<1>4. QED
  BY <1>3 DEF log

----------------------------------------------------------------------------
(* The tables of the two bindings.  A selector is four bytes.              *)
Bytes == [1 .. 4 -> Int]

LEMMA BelowFirst ==
    ASSUME NEW a \in Bytes, NEW b \in Bytes, a[1] < b[1] PROVE Below(a, b)
<1>1. 1 \in DOMAIN a /\ \A j \in 1 .. 1 - 1 : a[j] = b[j]
  BY DEF Bytes
<1>2. QED
  BY <1>1 DEF Below

LEMMA BelowSecond ==
    ASSUME NEW a \in Bytes, NEW b \in Bytes, a[1] = b[1], a[2] < b[2] PROVE Below(a, b)
<1>1. 2 \in DOMAIN a /\ \A j \in 1 .. 2 - 1 : a[j] = b[j]
  BY DEF Bytes
<1>2. QED
  BY <1>1 DEF Below

(* The selectors of a table differ in their first two bytes.               *)
TwoBytesAscend(keys) ==
    \A i, j \in DOMAIN keys : i < j =>
        keys[i][1] < keys[j][1] \/ (keys[i][1] = keys[j][1] /\ keys[i][2] < keys[j][2])

(* One place of the two tables.                                            *)
RowFits(variants, SELECTORS, DECODE_SHIMS, i) ==
    /\ variants[DECODE_SHIMS[i]].selector = SELECTORS[i]
    /\ variants[DECODE_SHIMS[i]].order = InOrder(variants[DECODE_SHIMS[i]].fields)

LEMMA MatchByRows ==
    ASSUME NEW variants, NEW SELECTORS \in Seq(Bytes), TwoBytesAscend(SELECTORS),
           NEW DECODE_SHIMS, DOMAIN DECODE_SHIMS = DOMAIN SELECTORS,
           \A i \in DOMAIN SELECTORS : RowFits(variants, SELECTORS, DECODE_SHIMS, i),
           \A name \in DOMAIN variants : \E i \in DOMAIN DECODE_SHIMS : DECODE_SHIMS[i] = name
    PROVE  TablesMatch(variants, SELECTORS, DECODE_SHIMS)
<1>1. SELECTORS \in Seq(Seq(Int))
  <2>1. 4 \in Nat /\ [1 .. 4 -> Int] \in {[1 .. n -> Int] : n \in Nat}
    OBVIOUS
  <2>2. Bytes \subseteq Seq(Int)
    BY <2>1 DEF Bytes, Seq
  <2>3. QED
    BY <2>2
<1>2. ASSUME NEW i \in DOMAIN SELECTORS, NEW j \in DOMAIN SELECTORS, i < j
      PROVE  Below(SELECTORS[i], SELECTORS[j])
  <2>1. SELECTORS[i] \in Bytes /\ SELECTORS[j] \in Bytes
    OBVIOUS
  <2>2. QED
    BY <1>2, <2>1, BelowFirst, BelowSecond DEF TwoBytesAscend
<1>3. Ascending(SELECTORS)
  BY <1>1, <1>2 DEF Ascending
<1>4. QED
  BY <1>3 DEF TablesMatch, RowFits

(* The names of a tuple of up to four fields.                              *)
LEMMA OrderOf0 == InOrder(<<>>) = <<>>
BY DEF InOrder

LEMMA OrderOf1 == \A a, s : InOrder(<<<<a, s>>>>) = <<a>>
BY DEF InOrder

LEMMA OrderOf2 == \A a, s, b, t : InOrder(<<<<a, s>>, <<b, t>>>>) = <<a, b>>
BY DEF InOrder

LEMMA OrderOf3 ==
    \A a, s, b, t, c, u : InOrder(<<<<a, s>>, <<b, t>>, <<c, u>>>>) = <<a, b, c>>
BY DEF InOrder

LEMMA OrderOf4 ==
    \A a, s, b, t, c, u, d, v :
        InOrder(<<<<a, s>>, <<b, t>>, <<c, u>>, <<d, v>>>>) = <<a, b, c, d>>
BY DEF InOrder

(* The calls of the service manager, and the calls and the errors of the   *)
(* stake registry, place by place.                                         *)
LEMMA ServiceCallTables ==
    TablesMatch(Service!InsuranceServiceManagerCalls, Service!CallSELECTORS,
                Service!CallDECODE_SHIMS)
<1> DEFINE Row(i) == RowFits(Service!InsuranceServiceManagerCalls, Service!CallSELECTORS,
                            Service!CallDECODE_SHIMS, i)
<1>1. Service!CallSELECTORS \in Seq(Bytes) /\ TwoBytesAscend(Service!CallSELECTORS)
  <2>1. Service!CallSELECTORS \in Seq(Bytes)
    BY DEF Service!CallSELECTORS, Bytes
  <2>2. TwoBytesAscend(Service!CallSELECTORS)
    BY DEF Service!CallSELECTORS, TwoBytesAscend
  <2>3. QED
    BY <2>1, <2>2
<1>2. /\ DOMAIN Service!CallSELECTORS = 1 .. 18
      /\ DOMAIN Service!CallDECODE_SHIMS = 1 .. 18
  BY DEF Service!CallSELECTORS, Service!CallDECODE_SHIMS
<1>3. \A name \in DOMAIN Service!InsuranceServiceManagerCalls :
        \E i \in DOMAIN Service!CallDECODE_SHIMS : Service!CallDECODE_SHIMS[i] = name
  BY DEF Service!InsuranceServiceManagerCalls, Service!CallDECODE_SHIMS
<1>4. ASSUME NEW i \in 1 .. 18 PROVE Row(i)
  <2> USE DEF RowFits, Service!InsuranceServiceManagerCalls, Service!CallSELECTORS,
          Service!CallDECODE_SHIMS
  <2>1. Row(1)
    BY OrderOf1 DEF Service!allTaskHashesCall, Service!Query, Service!Function
  <2>2. Row(2)
    BY OrderOf1 DEF Service!getOperatorRestakedStrategiesCall, Service!Query,
       Service!Function
  <2>3. Row(3)
    BY OrderOf3 DEF Service!respondToTaskCall, Service!Function
  <2>4. Row(4)
    BY OrderOf1 DEF Service!setRewardsInitiatorCall, Service!Command, Service!Function
  <2>5. Row(5)
    BY OrderOf0 DEF Service!stakeRegistryCall, Service!Getter, Service!Function
  <2>6. Row(6)
    BY OrderOf0 DEF Service!avsDirectoryCall, Service!Getter, Service!Function
  <2>7. Row(7)
    BY OrderOf0 DEF Service!renounceOwnershipCall, Service!Function
  <2>8. Row(8)
    BY OrderOf1 DEF Service!createNewTaskCall, Service!Query, Service!Function
  <2>9. Row(9)
    BY OrderOf0 DEF Service!latestTaskNumCall, Service!Getter, Service!Function
  <2>10. Row(10)
    BY OrderOf0 DEF Service!ownerCall, Service!Getter, Service!Function
  <2>11. Row(11)
    BY OrderOf2 DEF Service!registerOperatorToAVSCall, Service!Function
  <2>12. Row(12)
    BY OrderOf1 DEF Service!deregisterOperatorFromAVSCall, Service!Command,
       Service!Function
  <2>13. Row(13)
    BY OrderOf1 DEF Service!updateAVSMetadataURICall, Service!Command, Service!Function
  <2>14. Row(14)
    BY OrderOf2 DEF Service!allTaskResponsesCall, Service!Function
  <2>15. Row(15)
    BY OrderOf0 DEF Service!getRestakeableStrategiesCall, Service!Getter,
       Service!Function
  <2>16. Row(16)
    BY OrderOf1 DEF Service!transferOwnershipCall, Service!Command, Service!Function
  <2>17. Row(17)
    BY OrderOf0 DEF Service!rewardsInitiatorCall, Service!Getter, Service!Function
  <2>18. Row(18)
    BY OrderOf1 DEF Service!createAVSRewardsSubmissionCall, Service!Command,
       Service!Function
  <2> HIDE DEF Row
  <2>19. QED
    BY <2>1, <2>2, <2>3, <2>4, <2>5, <2>6, <2>7, <2>8, <2>9, <2>10, <2>11, <2>12,
       <2>13, <2>14, <2>15, <2>16, <2>17, <2>18
<1>5. QED
  BY <1>1, <1>2, <1>4, <1>3, MatchByRows

LEMMA RegistryCallTables ==
    TablesMatch(Registry!ECDSAStakeRegistryCalls, Registry!CallSELECTORS,
                Registry!CallDECODE_SHIMS)
<1> DEFINE Row(i) == RowFits(Registry!ECDSAStakeRegistryCalls, Registry!CallSELECTORS,
                            Registry!CallDECODE_SHIMS, i)
<1>1. Registry!CallSELECTORS \in Seq(Bytes) /\ TwoBytesAscend(Registry!CallSELECTORS)
  <2>1. Registry!CallSELECTORS \in Seq(Bytes)
    BY DEF Registry!CallSELECTORS, Bytes
  <2>2. TwoBytesAscend(Registry!CallSELECTORS)
    BY DEF Registry!CallSELECTORS, TwoBytesAscend
  <2>3. QED
    BY <2>1, <2>2
<1>2. /\ DOMAIN Registry!CallSELECTORS = 1 .. 25
      /\ DOMAIN Registry!CallDECODE_SHIMS = 1 .. 25
  BY DEF Registry!CallSELECTORS, Registry!CallDECODE_SHIMS
<1>3. \A name \in DOMAIN Registry!ECDSAStakeRegistryCalls :
        \E i \in DOMAIN Registry!CallDECODE_SHIMS : Registry!CallDECODE_SHIMS[i] = name
  BY DEF Registry!ECDSAStakeRegistryCalls, Registry!CallDECODE_SHIMS
<1>4. ASSUME NEW i \in 1 .. 25 PROVE Row(i)
  <2> USE DEF RowFits, Registry!ECDSAStakeRegistryCalls, Registry!CallSELECTORS,
          Registry!CallDECODE_SHIMS
  <2>1. Row(1)
    BY OrderOf1 DEF Registry!updateOperatorsCall, Registry!Command, Registry!Function
  <2>2. Row(2)
    BY OrderOf1 DEF Registry!getLastCheckpointTotalWeightAtBlockCall,
       Registry!Query, Registry!Function
  <2>3. Row(3)
    BY OrderOf2 DEF Registry!isValidSignatureCall, Registry!Function
  <2>4. Row(4)
    BY OrderOf0 DEF Registry!quorumCall, Registry!Getter, Registry!Function
  <2>5. Row(5)
    BY OrderOf1 DEF Registry!getLastCheckpointThresholdWeightAtBlockCall,
       Registry!Query, Registry!Function
  <2>6. Row(6)
    BY OrderOf0 DEF Registry!getLastCheckpointTotalWeightCall, Registry!Getter,
       Registry!Function
  <2>7. Row(7)
    BY OrderOf1 DEF Registry!getLastCheckpointOperatorWeightCall, Registry!Query,
       Registry!Function
  <2>8. Row(8)
    BY OrderOf2 DEF Registry!registerOperatorWithSignatureCall, Registry!Function
  <2>9. Row(9)
    BY OrderOf0 DEF Registry!minimumWeightCall, Registry!Getter, Registry!Function
  <2>10. Row(10)
    BY OrderOf2 DEF Registry!updateOperatorsForQuorumCall, Registry!Function
  <2>11. Row(11)
    BY OrderOf2 DEF Registry!getOperatorSigningKeyAtBlockCall, Registry!Function
  <2>12. Row(12)
    BY OrderOf1 DEF Registry!updateStakeThresholdCall, Registry!Command,
       Registry!Function
  <2>13. Row(13)
    BY OrderOf2 DEF Registry!updateMinimumWeightCall, Registry!Function
  <2>14. Row(14)
    BY OrderOf0 DEF Registry!renounceOwnershipCall, Registry!Function
  <2>15. Row(15)
    BY OrderOf1 DEF Registry!updateOperatorSigningKeyCall, Registry!Command,
       Registry!Function
  <2>16. Row(16)
    BY OrderOf0 DEF Registry!deregisterOperatorCall, Registry!Function
  <2>17. Row(17)
    BY OrderOf0 DEF Registry!ownerCall, Registry!Getter, Registry!Function
  <2>18. Row(18)
    BY OrderOf2 DEF Registry!getOperatorWeightAtBlockCall, Registry!Function
  <2>19. Row(19)
    BY OrderOf1 DEF Registry!getOperatorWeightCall, Registry!Query, Registry!Function
  <2>20. Row(20)
    BY OrderOf3 DEF Registry!initializeCall, Registry!Function
  <2>21. Row(21)
    BY OrderOf0 DEF Registry!getLastCheckpointThresholdWeightCall, Registry!Getter,
       Registry!Function
  <2>22. Row(22)
    BY OrderOf1 DEF Registry!getLastestOperatorSigningKeyCall, Registry!Query,
       Registry!Function
  <2>23. Row(23)
    BY OrderOf2 DEF Registry!updateQuorumConfigCall, Registry!Function
  <2>24. Row(24)
    BY OrderOf1 DEF Registry!operatorRegisteredCall, Registry!Query, Registry!Function
  <2>25. Row(25)
    BY OrderOf1 DEF Registry!transferOwnershipCall, Registry!Command, Registry!Function
  <2> HIDE DEF Row
  <2>26. QED
    BY <2>1, <2>2, <2>3, <2>4, <2>5, <2>6, <2>7, <2>8, <2>9, <2>10, <2>11, <2>12,
       <2>13, <2>14, <2>15, <2>16, <2>17, <2>18, <2>19, <2>20, <2>21, <2>22, <2>23,
       <2>24, <2>25
<1>5. QED
  BY <1>1, <1>2, <1>4, <1>3, MatchByRows

LEMMA RegistryErrorTables ==
    TablesMatch(Registry!ECDSAStakeRegistryErrors, Registry!ErrorSELECTORS,
                Registry!ErrorDECODE_SHIMS)
<1> DEFINE Row(i) == RowFits(Registry!ECDSAStakeRegistryErrors, Registry!ErrorSELECTORS,
                            Registry!ErrorDECODE_SHIMS, i)
<1>1. Registry!ErrorSELECTORS \in Seq(Bytes) /\ TwoBytesAscend(Registry!ErrorSELECTORS)
  <2>1. Registry!ErrorSELECTORS \in Seq(Bytes)
    BY DEF Registry!ErrorSELECTORS, Bytes
  <2>2. TwoBytesAscend(Registry!ErrorSELECTORS)
    BY DEF Registry!ErrorSELECTORS, TwoBytesAscend
  <2>3. QED
    BY <2>1, <2>2
<1>2. /\ DOMAIN Registry!ErrorSELECTORS = 1 .. 13
      /\ DOMAIN Registry!ErrorDECODE_SHIMS = 1 .. 13
  BY DEF Registry!ErrorSELECTORS, Registry!ErrorDECODE_SHIMS
<1>3. \A name \in DOMAIN Registry!ECDSAStakeRegistryErrors :
        \E i \in DOMAIN Registry!ErrorDECODE_SHIMS : Registry!ErrorDECODE_SHIMS[i] = name
  BY DEF Registry!ECDSAStakeRegistryErrors, Registry!ErrorDECODE_SHIMS
<1>4. ASSUME NEW i \in 1 .. 13 PROVE Row(i)
  <2> USE DEF RowFits, Registry!ECDSAStakeRegistryErrors, Registry!ErrorSELECTORS,
          Registry!ErrorDECODE_SHIMS
  <2>1. Row(1)
    BY OrderOf0 DEF Registry!OperatorNotRegistered, Registry!Error, Registry!Function
  <2>2. Row(2)
    BY OrderOf0 DEF Registry!MustUpdateAllOperators, Registry!Error, Registry!Function
  <2>3. Row(3)
    BY OrderOf0 DEF Registry!OperatorAlreadyRegistered, Registry!Error,
       Registry!Function
  <2>4. Row(4)
    BY OrderOf0 DEF Registry!InvalidSignature, Registry!Error, Registry!Function
  <2>5. Row(5)
    BY OrderOf0 DEF Registry!InvalidLength, Registry!Error, Registry!Function
  <2>6. Row(6)
    BY OrderOf0 DEF Registry!InvalidSignedWeight, Registry!Error, Registry!Function
  <2>7. Row(7)
    BY OrderOf0 DEF Registry!InsufficientWeight, Registry!Error, Registry!Function
  <2>8. Row(8)
    BY OrderOf0 DEF Registry!InvalidThreshold, Registry!Error, Registry!Function
  <2>9. Row(9)
    BY OrderOf0 DEF Registry!NotSorted, Registry!Error, Registry!Function
  <2>10. Row(10)
    BY OrderOf0 DEF Registry!InvalidQuorum, Registry!Error, Registry!Function
  <2>11. Row(11)
    BY OrderOf0 DEF Registry!InsufficientSignedStake, Registry!Error, Registry!Function
  <2>12. Row(12)
    BY OrderOf0 DEF Registry!InvalidReferenceBlock, Registry!Error, Registry!Function
  <2>13. Row(13)
    BY OrderOf0 DEF Registry!LengthMismatch, Registry!Error, Registry!Function
  <2> HIDE DEF Row
  <2>14. QED
    BY <2>1, <2>2, <2>3, <2>4, <2>5, <2>6, <2>7, <2>8, <2>9, <2>10, <2>11, <2>12, <2>13
<1>5. QED
  BY <1>1, <1>2, <1>4, <1>3, MatchByRows

(* The events of the two, one by one.  Filled<k><l> is of k indexed fields *)
(* and l in the body.                                                      *)
LEMMA Tuples ==
    /\ IsTuple(<<>>) /\ \A a : IsTuple(<<a>>)
    /\ \A a, b : IsTuple(<<a, b>>)
    /\ \A a, b, c : IsTuple(<<a, b, c>>)
<1>1. IsTuple(<<>>)
  <2>1. 0 \in Nat /\ <<>> = [i \in 1 .. 0 |-> <<>>[i]]
    OBVIOUS
  <2>2. QED
    BY <2>1 DEF IsTuple
<1>2. ASSUME NEW a PROVE IsTuple(<<a>>)
  <2>1. 1 \in Nat /\ <<a>> = [i \in 1 .. 1 |-> <<a>>[i]]
    OBVIOUS
  <2>2. QED
    BY <2>1 DEF IsTuple
<1>3. ASSUME NEW a, NEW b PROVE IsTuple(<<a, b>>)
  <2>1. 2 \in Nat /\ <<a, b>> = [i \in 1 .. 2 |-> <<a, b>>[i]]
    OBVIOUS
  <2>2. QED
    BY <2>1 DEF IsTuple
<1>4. ASSUME NEW a, NEW b, NEW c PROVE IsTuple(<<a, b, c>>)
  <2>1. 3 \in Nat /\ <<a, b, c>> = [i \in 1 .. 3 |-> <<a, b, c>>[i]]
    OBVIOUS
  <2>2. QED
    BY <2>1 DEF IsTuple
<1>5. QED
  BY <1>1, <1>2, <1>3, <1>4

LEMMA Filled01 ==
    ASSUME NEW event, NEW a, NEW s,
           event.indexed = <<>>, event.body = <<<<a, s>>>>,
           event.filled = <<a>>
    PROVE  Fills(event)
<1>1. InOrder(<<>> \o <<<<a, s>>>>) = <<a>>
  BY DEF InOrder
<1>2. IsTuple(<<>>) /\ IsTuple(<<<<a, s>>>>)
  BY Tuples
<1>3. QED
  BY <1>1, <1>2 DEF Fills

LEMMA Filled11 ==
    ASSUME NEW event, NEW a, NEW s, NEW b, NEW t,
           event.indexed = <<<<a, s>>>>, event.body = <<<<b, t>>>>,
           event.filled = <<a, b>>
    PROVE  Fills(event)
<1>1. InOrder(<<<<a, s>>>> \o <<<<b, t>>>>) = <<a, b>>
  BY DEF InOrder
<1>2. IsTuple(<<<<a, s>>>>) /\ IsTuple(<<<<b, t>>>>)
  BY Tuples
<1>3. QED
  BY <1>1, <1>2 DEF Fills

LEMMA Filled02 ==
    ASSUME NEW event, NEW a, NEW s, NEW b, NEW t,
           event.indexed = <<>>, event.body = <<<<a, s>>, <<b, t>>>>,
           event.filled = <<a, b>>
    PROVE  Fills(event)
<1>1. InOrder(<<>> \o <<<<a, s>>, <<b, t>>>>) = <<a, b>>
  BY DEF InOrder
<1>2. IsTuple(<<>>) /\ IsTuple(<<<<a, s>>, <<b, t>>>>)
  BY Tuples
<1>3. QED
  BY <1>1, <1>2 DEF Fills

LEMMA Filled20 ==
    ASSUME NEW event, NEW a, NEW s, NEW b, NEW t,
           event.indexed = <<<<a, s>>, <<b, t>>>>, event.body = <<>>,
           event.filled = <<a, b>>
    PROVE  Fills(event)
<1>1. InOrder(<<<<a, s>>, <<b, t>>>> \o <<>>) = <<a, b>>
  BY DEF InOrder
<1>2. IsTuple(<<<<a, s>>, <<b, t>>>>) /\ IsTuple(<<>>)
  BY Tuples
<1>3. QED
  BY <1>1, <1>2 DEF Fills

LEMMA Filled12 ==
    ASSUME NEW event, NEW a, NEW s, NEW b, NEW t, NEW c, NEW u,
           event.indexed = <<<<a, s>>>>, event.body = <<<<b, t>>, <<c, u>>>>,
           event.filled = <<a, b, c>>
    PROVE  Fills(event)
<1>1. InOrder(<<<<a, s>>>> \o <<<<b, t>>, <<c, u>>>>) = <<a, b, c>>
  BY DEF InOrder
<1>2. IsTuple(<<<<a, s>>>>) /\ IsTuple(<<<<b, t>>, <<c, u>>>>)
  BY Tuples
<1>3. QED
  BY <1>1, <1>2 DEF Fills

LEMMA Filled31 ==
    ASSUME NEW event, NEW a, NEW s, NEW b, NEW t, NEW c, NEW u, NEW d, NEW v,
           event.indexed = <<<<a, s>>, <<b, t>>, <<c, u>>>>, event.body = <<<<d, v>>>>,
           event.filled = <<a, b, c, d>>
    PROVE  Fills(event)
<1>1. InOrder(<<<<a, s>>, <<b, t>>, <<c, u>>>> \o <<<<d, v>>>>) = <<a, b, c, d>>
  BY DEF InOrder
<1>2. IsTuple(<<<<a, s>>, <<b, t>>, <<c, u>>>>) /\ IsTuple(<<<<d, v>>>>)
  BY Tuples
<1>3. QED
  BY <1>1, <1>2 DEF Fills

LEMMA ServiceEventTables == EventsDiffer(Service!InsuranceServiceManagerEvents)
<1> DEFINE events == Service!InsuranceServiceManagerEvents
           firsts == [Initialized |-> 127,
                      NewTaskCreated |-> 88,
                      OwnershipTransferred |-> 139,
                      RewardsInitiatorUpdated |-> 225,
                      TaskResponded |-> 142]
<1>1. DOMAIN events = DOMAIN firsts
  BY DEF Service!InsuranceServiceManagerEvents
<1>2. \A name, other \in DOMAIN firsts : firsts[name] = firsts[other] => name = other
  OBVIOUS
<1>3. ASSUME NEW name \in DOMAIN events
      PROVE  Fills(events[name]) /\ events[name].hash[1] = firsts[name]
  <2> USE DEF Service!Event, Service!InsuranceServiceManagerEvents
  <2>1. CASE name = "Initialized"
    BY <2>1, Filled01 DEF Service!Initialized
  <2>2. CASE name = "NewTaskCreated"
    BY <2>2, Filled11 DEF Service!NewTaskCreated
  <2>3. CASE name = "OwnershipTransferred"
    BY <2>3, Filled20 DEF Service!OwnershipTransferred
  <2>4. CASE name = "RewardsInitiatorUpdated"
    BY <2>4, Filled02 DEF Service!RewardsInitiatorUpdated
  <2>5. CASE name = "TaskResponded"
    BY <2>5, Filled12 DEF Service!TaskResponded
  <2>6. QED
    BY <2>1, <2>2, <2>3, <2>4, <2>5
<1> HIDE DEF events, firsts
<1>4. EventsDiffer(events)
  BY <1>1, <1>2, <1>3 DEF EventsDiffer
<1>5. QED
  BY <1>4 DEF events

LEMMA RegistryEventTables == EventsDiffer(Registry!ECDSAStakeRegistryEvents)
<1> DEFINE events == Registry!ECDSAStakeRegistryEvents
           firsts == [Initialized |-> 127,
                      MinimumWeightUpdated |-> 113,
                      OperatorDeregistered |-> 49,
                      OperatorRegistered |-> 164,
                      OperatorWeightUpdated |-> 136,
                      OwnershipTransferred |-> 139,
                      QuorumUpdated |-> 35,
                      SigningKeyUpdate |-> 208,
                      ThresholdWeightUpdated |-> 147,
                      TotalWeightUpdated |-> 134,
                      UpdateMinimumWeight |-> 30]
<1>1. DOMAIN events = DOMAIN firsts
  BY DEF Registry!ECDSAStakeRegistryEvents
<1>2. \A name, other \in DOMAIN firsts : firsts[name] = firsts[other] => name = other
  OBVIOUS
<1>3. ASSUME NEW name \in DOMAIN events
      PROVE  Fills(events[name]) /\ events[name].hash[1] = firsts[name]
  <2> USE DEF Registry!Event, Registry!ECDSAStakeRegistryEvents
  <2>1. CASE name = "Initialized"
    BY <2>1, Filled01 DEF Registry!Initialized
  <2>2. CASE name = "MinimumWeightUpdated"
    BY <2>2, Filled02 DEF Registry!MinimumWeightUpdated
  <2>3. CASE name = "OperatorDeregistered"
    BY <2>3, Filled20 DEF Registry!OperatorDeregistered
  <2>4. CASE name = "OperatorRegistered"
    BY <2>4, Filled20 DEF Registry!OperatorRegistered
  <2>5. CASE name = "OperatorWeightUpdated"
    BY <2>5, Filled12 DEF Registry!OperatorWeightUpdated
  <2>6. CASE name = "OwnershipTransferred"
    BY <2>6, Filled20 DEF Registry!OwnershipTransferred
  <2>7. CASE name = "QuorumUpdated"
    BY <2>7, Filled02 DEF Registry!QuorumUpdated
  <2>8. CASE name = "SigningKeyUpdate"
    BY <2>8, Filled31 DEF Registry!SigningKeyUpdate
  <2>9. CASE name = "ThresholdWeightUpdated"
    BY <2>9, Filled01 DEF Registry!ThresholdWeightUpdated
  <2>10. CASE name = "TotalWeightUpdated"
    BY <2>10, Filled02 DEF Registry!TotalWeightUpdated
  <2>11. CASE name = "UpdateMinimumWeight"
    BY <2>11, Filled02 DEF Registry!UpdateMinimumWeight
  <2>12. QED
    BY <2>1, <2>2, <2>3, <2>4, <2>5, <2>6, <2>7, <2>8, <2>9, <2>10, <2>11
<1> HIDE DEF events, firsts
<1>4. EventsDiffer(events)
  BY <1>1, <1>2, <1>3 DEF EventsDiffer
<1>5. QED
  BY <1>4 DEF events

----------------------------------------------------------------------------
(* What is sent on a channel is decoded for what it is.                    *)
LEMMA CallArrives ==
    ASSUME NEW channel \in Channels, NEW m \in Messages(channel), NEW values \in Payloads(m),
           channel[2] = "call"
    PROVE  DecodedFrom(m, Encoded(m, values)) = Decoded(m.name, values)
<1>1. Fit(Fields(m), values)
  BY PayloadAssumption
<1>2. /\ m.binding = channel[1] /\ m.kind = "call"
      /\ m.name \in DOMAIN Variants(channel[1], "call")
  BY DEF Messages
<1>3. Fit(Variants(channel[1], "call")[m.name].fields, values)
  BY <1>1, <1>2 DEF Fields, Item
<1>4. CASE channel[1] = "service"
  <2>1. Variants(channel[1], "call") = Service!InsuranceServiceManagerCalls
    BY <1>4 DEF Variants
  <2>2. service_decode_call(service_build_call(m.name, values)) = Decoded(m.name, values)
    BY <1>2, <1>3, <2>1, ServiceCallTables, CallsArrive
       DEF service_decode_call, service_build_call
  <2>3. QED
    BY <1>2, <1>4, <2>2 DEF Encoded, DecodedFrom
<1>5. CASE channel[1] = "registry"
  <2>1. Variants(channel[1], "call") = Registry!ECDSAStakeRegistryCalls
    BY <1>5 DEF Variants
  <2>2. registry_decode_call(registry_build_call(m.name, values)) = Decoded(m.name, values)
    BY <1>2, <1>3, <2>1, RegistryCallTables, CallsArrive
       DEF registry_decode_call, registry_build_call
  <2>3. QED
    BY <1>2, <1>5, <2>2 DEF Encoded, DecodedFrom
<1>6. QED
  BY <1>4, <1>5 DEF Channels

LEMMA ReturnArrives ==
    ASSUME NEW channel \in Channels, NEW m \in Messages(channel), NEW values \in Payloads(m),
           channel[2] = "return"
    PROVE  DecodedFrom(m, Encoded(m, values)) = Decoded(m.name, values)
<1>1. Fit(Fields(m), values)
  BY PayloadAssumption
<1>2. m.binding = channel[1] /\ m.kind = "return"
  BY DEF Messages
<1>3. Fit(Item(m).returns, values)
  BY <1>1, <1>2 DEF Fields
<1>4. abi_decode_returns(Item(m), returned(Item(m), values)) = values
  BY <1>3, TupleCarried DEF abi_decode_returns, returned
<1>5. QED
  BY <1>2, <1>4 DEF Encoded, DecodedFrom

LEMMA EventArrives ==
    ASSUME NEW channel \in Channels, NEW m \in Messages(channel), NEW values \in Payloads(m),
           channel[2] = "event"
    PROVE  DecodedFrom(m, Encoded(m, values)) = Decoded(m.name, values)
<1>1. Fit(Fields(m), values)
  BY PayloadAssumption
<1>2. /\ m.binding = channel[1] /\ m.kind = "event"
      /\ m.name \in DOMAIN Variants(channel[1], "event")
  BY DEF Messages
<1> DEFINE event == Variants(channel[1], "event")[m.name]
<1>3. Fit(event.indexed \o event.body, values)
  BY <1>1, <1>2 DEF Fields, Item
<1>4. CASE channel[1] = "service"
  <2>1. Variants(channel[1], "event") = Service!InsuranceServiceManagerEvents
    BY <1>4 DEF Variants
  <2>2. service_decode_event(service_emit(m.name, values)) = Decoded(m.name, values)
    BY <1>2, <1>3, <2>1, ServiceEventTables, EventsArrive
       DEF service_decode_event, service_emit
  <2>3. QED
    BY <1>2, <1>4, <2>2 DEF Encoded, DecodedFrom
<1>5. CASE channel[1] = "registry"
  <2>1. Variants(channel[1], "event") = Registry!ECDSAStakeRegistryEvents
    BY <1>5 DEF Variants
  <2>2. registry_decode_event(registry_emit(m.name, values)) = Decoded(m.name, values)
    BY <1>2, <1>3, <2>1, RegistryEventTables, EventsArrive
       DEF registry_decode_event, registry_emit
  <2>3. QED
    BY <1>2, <1>5, <2>2 DEF Encoded, DecodedFrom
<1>6. QED
  BY <1>4, <1>5 DEF Channels

LEMMA ErrorArrives ==
    ASSUME NEW channel \in Channels, NEW m \in Messages(channel), NEW values \in Payloads(m),
           channel[2] = "error"
    PROVE  DecodedFrom(m, Encoded(m, values)) = Decoded(m.name, values)
<1>1. Fit(Fields(m), values)
  BY PayloadAssumption
<1>2. channel[1] = "registry"
  BY DEF Channels
<1>3. Variants(channel[1], "error") = Registry!ECDSAStakeRegistryErrors
  BY <1>2 DEF Variants
<1>4. /\ m.binding = "registry" /\ m.kind = "error"
      /\ m.name \in DOMAIN Registry!ECDSAStakeRegistryErrors
  BY <1>2, <1>3 DEF Messages
<1>5. Fit(Registry!ECDSAStakeRegistryErrors[m.name].fields, values)
  BY <1>1, <1>2, <1>3, <1>4 DEF Fields, Item
<1>6. decode_error(raise(m.name, values)) = Decoded(m.name, values)
  BY <1>4, <1>5, RegistryErrorTables, CallsArrive DEF decode_error, raise
<1>7. QED
  BY <1>4, <1>6 DEF Encoded, DecodedFrom

(* What is on the wire is the encoding of values the message may carry.    *)
WireInv ==
    /\ message # Nothing =>
          \E channel \in Channels :
             /\ message \in Messages(channel)
             /\ payload \in Payloads(message)
             /\ encoding = Encoded(message, payload)
    /\ received # Nothing => message # Nothing
    /\ MessagesArriveAsSent

(* Every message of the two bindings is decoded for what it was sent as,   *)
(* with the values it was sent with, whatever the values are.              *)
THEOREM MessagesArrive == WireSpec => []MessagesArriveAsSent
<1>1. WireInit => WireInv
  BY DEF WireInit, WireInv, MessagesArriveAsSent
<1>2. WireInv /\ [WireNext]_wireVars => WireInv'
  <2> SUFFICES ASSUME WireInv, [WireNext]_wireVars PROVE WireInv'
    OBVIOUS
  <2>1. ASSUME NEW channel \in Channels, Send(channel) PROVE WireInv'
    <3>1. received' = Nothing
      BY <2>1 DEF WireInv, Send
    <3>2. PICK m \in Messages(channel) : \E values \in Payloads(m) :
              message' = m /\ payload' = values /\ encoding' = Encoded(m, values)
      BY <2>1 DEF Send
    <3>3. QED
      BY <2>1, <3>1, <3>2 DEF WireInv, MessagesArriveAsSent
  <2>2. CASE Receive
    <3>1. PICK channel \in Channels :
              /\ message \in Messages(channel) /\ payload \in Payloads(message)
              /\ encoding = Encoded(message, payload)
      BY <2>2 DEF Receive, WireInv
    <3>2. channel[2] \in {"call", "return", "event", "error"}
      BY DEF Channels
    <3>3. DecodedFrom(message, encoding) = Decoded(message.name, payload)
      BY <3>1, <3>2, CallArrives, ReturnArrives, EventArrives, ErrorArrives
    <3>4. received'.as = Decoded(message'.name, payload')
      BY <2>2, <3>3 DEF Receive
    <3>5. QED
      BY <2>2, <3>4 DEF Receive, WireInv, MessagesArriveAsSent
  <2>3. CASE Forget
    BY <2>3 DEF Forget, WireInv, MessagesArriveAsSent
  <2>4. CASE UNCHANGED wireVars
    BY <2>4 DEF wireVars, WireInv, MessagesArriveAsSent
  <2>5. QED
    BY <2>1, <2>2, <2>3, <2>4 DEF WireNext
<1>3. WireInv => MessagesArriveAsSent
  BY DEF WireInv
<1>4. QED
  BY <1>1, <1>2, <1>3, PTL DEF WireSpec

----------------------------------------------------------------------------
(* The programs on the chain.                                              *)
AnswerTo(task, index) == respondToTask(task, index, task.name)

Wires == {createNewTask(name) : name \in Names}
             \cup {AnswerTo(task, index) : task \in Tasks, index \in Indexes}
Logs == {NoLog} \cup {NewTaskCreated(index, task) : index \in Indexes, task \in Tasks}
                \cup {TaskResponded(index, task) : index \in Indexes, task \in Tasks}
Programs == {"generator", "operator"}
States == {"pending", "mined", "replaced"}
Transactions == [from: Programs, nonce: Nat, wire: Wires, state: States]

StateOK ==
    /\ contract \in {"binding", "repository"}
    /\ tasks \in Seq(Tasks)
    /\ answered \subseteq 0 .. Len(tasks) - 1
    /\ logs \in Seq(Logs)
    /\ account \in Nat /\ account + 1 = Len(logs)
    /\ sent \in Seq(Transactions) /\ Len(sent) <= MaxSends
    /\ ticks \in 0 .. MaxTicks
    /\ generator \in [pc: {"sleep", "call", "send", "receipt"},
                      name: Names \cup {""}, nonce: Nat, tx: Nat]
    /\ operator \in [pc: {"start", "poll", "handle", "send", "receipt", "panicked"},
                     cursor: Nat, batch: SUBSET Nat, nonce: Nat, tx: Nat]

(* What a block may have logged: a task of the contract, or its answer.    *)
LogOK(log) ==
    \/ log = NoLog
    \/ \E i \in 1 .. Len(tasks) : \/ log = NewTaskCreated(i - 1, tasks[i])
                                  \/ log = TaskResponded(i - 1, tasks[i])

MinedTx == {k \in DOMAIN sent : sent[k].state = "mined"}
PendingTx == {k \in DOMAIN sent : sent[k].state = "pending"}

ChainOK ==
    /\ Cardinality(MinedTx) = account
    /\ Len(tasks) <= account
    /\ contract = "repository" => tasks = <<>> /\ sent = <<>>
    /\ \A block \in DOMAIN logs : LogOK(logs[block])

(* A transaction carries a call of the program that sent it; an answer     *)
(* that is mined has answered.                                             *)
CarriesCall(tx) ==
    /\ tx.from = "generator" => \E name \in Names : tx.wire = createNewTask(name)
    /\ tx.from = "operator" =>
           \E i \in 1 .. Len(tasks) : /\ tx.wire = AnswerTo(tasks[i], i - 1)
                                      /\ tx.state = "mined" => i - 1 \in answered

SentOK ==
    \A k \in DOMAIN sent :
        /\ sent[k].state = "mined" => sent[k].nonce < account
        /\ sent[k].state = "pending" => account <= sent[k].nonce
        /\ sent[k].state = "replaced" => \E l \in DOMAIN sent : k < l
        /\ CarriesCall(sent[k])

(* Every nonce from the chain's up to this one is pending.                 *)
Reached(nonce) == \A m \in account .. nonce - 1 : PendingAt(m) # {}

NoncesOK ==
    /\ \A k, l \in PendingTx : sent[k].nonce = sent[l].nonce => k = l
    /\ \A k \in PendingTx : Reached(sent[k].nonce)

LastOf(from, tx) ==
    /\ tx \in DOMAIN sent /\ sent[tx].from = from
    /\ \A k \in DOMAIN sent : tx < k => sent[k].from # from

GeneratorOK ==
    /\ generator.pc \in {"call", "send"} => generator.name \in Names
    /\ generator.pc = "send" => contract = "binding" /\ Reached(generator.nonce)
    /\ Waiting(generator) => LastOf("generator", generator.tx)

OperatorOK ==
    /\ operator.pc # "panicked"
    /\ operator.pc # "start" => 1 <= operator.cursor
    /\ operator.batch \subseteq {block \in DOMAIN logs : logs[block] # NoLog}
    /\ operator.pc = "send" =>
           operator.batch # {} /\ IsNewTask(NextLog) /\ Reached(operator.nonce)
    /\ Waiting(operator) => LastOf("operator", operator.tx)

TrafficInv == StateOK /\ ChainOK /\ SentOK /\ NoncesOK /\ GeneratorOK /\ OperatorOK

----------------------------------------------------------------------------
(* The sequences, and the first block of a batch.                          *)
LEMMA SentIs ==
    ASSUME StateOK
    PROVE  /\ Len(sent) \in Nat /\ DOMAIN sent = 1 .. Len(sent)
           /\ \A k \in DOMAIN sent : sent[k] \in Transactions
BY LenProperties, ElementOfSeq DEF StateOK

LEMMA TasksIs ==
    ASSUME StateOK
    PROVE  /\ Len(tasks) \in Nat /\ DOMAIN tasks = 1 .. Len(tasks)
           /\ \A i \in 1 .. Len(tasks) : tasks[i] \in Tasks
BY LenProperties, ElementOfSeq DEF StateOK

LEMMA LogsIs ==
    ASSUME StateOK
    PROVE  /\ Len(logs) \in Nat /\ DOMAIN logs = 1 .. Len(logs)
           /\ \A b \in 1 .. Len(logs) : logs[b] \in Logs
BY LenProperties, ElementOfSeq DEF StateOK

LEMMA MinIsIn ==
    ASSUME NEW S \in SUBSET Nat, S # {}
    PROVE  Min(S) \in S
<1>1. PICK x \in S : \A y \in S : ~(<<y, x>> \in OpToRel(<, Nat))
  <2>1. \E x \in S : \A y \in S : ~(<<y, x>> \in OpToRel(<, Nat))
    BY NatLessThanWellFounded, WFMin
  <2>2. QED
    BY <2>1
<1>2. \A y \in S : ~(y < x)
  BY <1>1 DEF OpToRel
<1>3. \A y \in S : x =< y
  BY <1>2
<1>4. QED
  BY <1>3 DEF Min

----------------------------------------------------------------------------
(* The chain's nonce is no more than the transactions.                     *)
LEMMA SomeSent ==
    ASSUME StateOK, NEW S \in SUBSET DOMAIN sent
    PROVE  IsFiniteSet(S) /\ Cardinality(S) \in Nat /\ Cardinality(S) <= Len(sent)
<1>1. IsFiniteSet(1 .. Len(sent)) /\ Cardinality(1 .. Len(sent)) = Len(sent)
  <2>1. PICK n \in Nat : n = Len(sent)
    BY SentIs
  <2>2. IsFiniteSet(1 .. n) /\ Cardinality(1 .. n) = IF 1 > n THEN 0 ELSE n - 1 + 1
    BY FS_Interval
  <2>3. QED
    BY <2>1, <2>2
<1>2. S \in SUBSET (1 .. Len(sent))
  BY SentIs
<1>3. QED
  BY <1>1, <1>2, FS_Subset, FS_CardinalityType

LEMMA MinedBound ==
    ASSUME StateOK, ChainOK
    PROVE  IsFiniteSet(MinedTx) /\ account <= Len(sent) /\ account <= MaxSends
<1>3. IsFiniteSet(MinedTx) /\ Cardinality(MinedTx) <= Len(sent)
  BY SomeSent DEF MinedTx
<1>4. /\ account \in Nat /\ Len(sent) \in Nat
      /\ Cardinality(MinedTx) = account /\ Len(sent) <= MaxSends
  BY SentIs DEF ChainOK, StateOK
<1>5. QED
  BY <1>3, <1>4, TrafficAssumption

----------------------------------------------------------------------------
(* What passes through the binding.                                        *)
LEMMA WordToken == \A value : Tokenize(Service!Word, value) = <<"word", value>>
BY DEF Tokenize, TokenOf, Service!Word

LEMMA PackedToken == \A value : Tokenize(Service!Packed, value) = <<"packed", value>>
BY DEF Tokenize, TokenOf, Service!Packed

LEMMA TaskTokenIs == \A task : Tokenize(Service!Task, task) = TaskToken(task)
<1>1. \A value : /\ Token4(Service!Word, value) = <<"word", value>>
                 /\ Token4(Service!Packed, value) = <<"packed", value>>
  BY DEF Token4, TokenOf, Service!Word, Service!Packed
<1>2. QED
  BY <1>1 DEF Tokenize, TokenOf, Service!Task, Service!Struct, TaskToken

LEMMA CreateIs ==
    ASSUME NEW name
    PROVE  createNewTask(name) =
               [selector |-> <<133, 237, 248, 116>>, data |-> <<<<"packed", name>>>>]
<1>1. TokenizeFields(<<<<"name", Service!Packed>>>>, <<"name">>, [name |-> name])
          = <<<<"packed", name>>>>
  BY PackedToken DEF TokenizeFields
<1>2. QED
  BY <1>1 DEF createNewTask, service_build_call, abi_encode,
              Service!InsuranceServiceManagerCalls, Service!createNewTaskCall,
              Service!Query, Service!Function

LEMMA AnswerIs ==
    ASSUME NEW task, NEW index, NEW signature
    PROVE  respondToTask(task, index, signature) =
               [selector |-> <<52, 21, 164, 156>>,
                data |-> <<TaskToken(task), <<"word", index>>, <<"packed", signature>>>>]
<1> DEFINE values == [task |-> task, referenceTaskIndex |-> index, signature |-> signature]
<1>1. TokenizeFields(<<<<"task", Service!Task>>, <<"referenceTaskIndex", Service!Word>>,
                       <<"signature", Service!Packed>>>>,
                     <<"task", "referenceTaskIndex", "signature">>, values)
          = <<TaskToken(task), <<"word", index>>, <<"packed", signature>>>>
  BY WordToken, PackedToken, TaskTokenIs DEF TokenizeFields
<1>2. QED
  BY <1>1 DEF respondToTask, service_build_call, abi_encode,
              Service!InsuranceServiceManagerCalls, Service!respondToTaskCall,
              Service!Function

LEMMA HashIs == SIGNATURE_HASH = <<88, 24, 10, 106>>
BY DEF SIGNATURE_HASH, Service!NewTaskCreated, Service!Event

LEMMA TwoJoined == ASSUME NEW a, NEW b PROVE <<a>> \o <<b>> = <<a, b>>
<1>1. <<a>> \in Seq({a, b}) /\ <<b>> \in Seq({a, b}) /\ <<a, b>> \in Seq({a, b})
  OBVIOUS
<1> DEFINE both == <<a>> \o <<b>>
<1>2. both \in Seq({a, b}) /\ Len(both) = 2 /\ both[1] = a /\ both[2] = b
  BY <1>1
<1> HIDE DEF both
<1>3. both = <<a, b>>
  BY <1>1, <1>2
<1>4. QED
  BY <1>3 DEF both

(* The contract's log of a task is what the binding writes of that event.  *)
LEMMA TaskLogIs ==
    ASSUME NEW task, NEW index
    PROVE  NewTaskCreated(index, task)
               = encode_log_data(Service!NewTaskCreated, [taskIndex |-> index, task |-> task])
<1> DEFINE values == [taskIndex |-> index, task |-> task]
<1>1. TokenizeFields(<<<<"taskIndex", Service!Word>>>>, InOrder(<<<<"taskIndex", Service!Word>>>>),
                     values) = <<<<"word", index>>>>
  BY WordToken DEF TokenizeFields, InOrder
<1>2. TokenizeFields(<<<<"task", Service!Task>>>>, InOrder(<<<<"task", Service!Task>>>>), values)
          = <<TaskToken(task)>>
  BY TaskTokenIs DEF TokenizeFields, InOrder
<1>3. /\ Service!NewTaskCreated.indexed = <<<<"taskIndex", Service!Word>>>>
      /\ Service!NewTaskCreated.body = <<<<"task", Service!Task>>>>
      /\ Service!NewTaskCreated.hash = <<88, 24, 10, 106>>
  BY DEF Service!NewTaskCreated, Service!Event
<1>4. \A hash : <<hash>> \o <<<<"word", index>>>> = <<hash, <<"word", index>>>>
  BY TwoJoined
<1> HIDE DEF values
<1>5. encode_log_data(Service!NewTaskCreated, values)
          = [topics |-> <<<<88, 24, 10, 106>>, <<"word", index>>>>, data |-> <<TaskToken(task)>>]
  BY <1>1, <1>2, <1>3, <1>4, Zenon DEF encode_log_data
<1>6. QED
  BY <1>5 DEF NewTaskCreated, values

LEMMA TaskLogDecodes ==
    ASSUME NEW task \in Tasks, NEW index
    PROVE  LET values == [taskIndex |-> index, task |-> task]
               log == encode_log_data(Service!NewTaskCreated, values)
           IN  DecodesLog(log) /\ decode_log(log) = values
<1> DEFINE values == [taskIndex |-> index, task |-> task]
<1>1. Service!NewTaskCreated.indexed = <<<<"taskIndex", Service!Word>>>>
      /\ Service!NewTaskCreated.body = <<<<"task", Service!Task>>>>
      /\ Service!NewTaskCreated.filled = <<"taskIndex", "task">>
  BY DEF Service!NewTaskCreated, Service!Event
<1>2. Fills(Service!NewTaskCreated)
  BY <1>1, Filled11
<1>3. Has(Service!Word, index)
  BY DEF Has, HasOf, Service!Word
<1>4. Has(Service!Task, task)
  <2>1. Has4(Service!Packed, task.name) /\ Has4(Service!Word, task.taskCreatedBlock)
    BY DEF Has4, HasOf, Service!Word, Service!Packed
  <2>2. task = [name \in {"name", "taskCreatedBlock"} |-> task[name]]
    BY DEF Tasks
  <2>3. QED
    BY <2>1, <2>2 DEF Has, HasOf, Service!Task, Service!Struct, FieldNames
<1>5. Fit(<<<<"taskIndex", Service!Word>>, <<"task", Service!Task>>>>, values)
  BY <1>3, <1>4 DEF Fit, FieldNames
<1>6. Service!NewTaskCreated.indexed \o Service!NewTaskCreated.body
          = <<<<"taskIndex", Service!Word>>, <<"task", Service!Task>>>>
  BY <1>1, TwoJoined, Zenon
<1>7. QED
  BY <1>2, <1>5, <1>6, LogArrives DEF DecodesLog, decode_log

LEMMA CreateWire ==
    ASSUME NEW name \in Names
    PROVE  /\ createNewTask(name).data[1][2] = name
           /\ Creates(createNewTask(name)) <=> contract = "binding"
           /\ ~Answers(createNewTask(name))
<1>1. createNewTask(name) = [selector |-> <<133, 237, 248, 116>>, data |-> <<<<"packed", name>>>>]
  BY CreateIs
<1>2. <<133, 237, 248, 116>> # <<52, 21, 164, 156>>
  OBVIOUS
<1>3. QED
  BY <1>1, <1>2 DEF Creates, Answers

LEMMA AnswerWire ==
    ASSUME StateOK, ChainOK, contract = "binding", NEW i \in 1 .. Len(tasks)
    PROVE  LET wire == AnswerTo(tasks[i], i - 1) IN
           /\ wire \in Wires
           /\ wire.data[2][2] = i - 1
           /\ ~Creates(wire)
           /\ Answers(wire) <=> i - 1 \notin answered
<1> DEFINE wire == AnswerTo(tasks[i], i - 1)
<1> SUFFICES /\ wire \in Wires
             /\ wire.data[2][2] = i - 1
             /\ ~Creates(wire)
             /\ Answers(wire) <=> i - 1 \notin answered
  OBVIOUS
<1>1. tasks[i] \in Tasks /\ i - 1 \in Indexes
  <2>1. account \in Nat /\ account <= MaxSends /\ Len(tasks) \in Nat /\ Len(tasks) <= account
    BY MinedBound, TasksIs DEF ChainOK, StateOK
  <2>2. QED
    BY <2>1, TasksIs, TrafficAssumption DEF Indexes
<1>2. wire = [selector |-> <<52, 21, 164, 156>>,
              data |-> <<TaskToken(tasks[i]), <<"word", i - 1>>, <<"packed", tasks[i].name>>>>]
  BY AnswerIs DEF AnswerTo
<1>3. <<133, 237, 248, 116>> # <<52, 21, 164, 156>>
  OBVIOUS
<1> HIDE DEF wire
<1>4. ~Creates(wire)
  BY <1>2, <1>3 DEF Creates
<1>5. i - 1 + 1 = i /\ i - 1 \in 0 .. Len(tasks) - 1
  BY TasksIs
<1>6. Answers(wire) <=> i - 1 \notin answered
  BY <1>2, <1>5 DEF Answers
<1>7. wire \in Wires
  BY <1>1 DEF wire, Wires
<1>8. QED
  BY <1>2, <1>4, <1>6, <1>7

LEMMA BindingReads ==
    ASSUME NEW task \in Tasks, NEW index \in Indexes
    PROVE  /\ DecodesLog(NewTaskCreated(index, task))
           /\ decode_log(NewTaskCreated(index, task)) = [taskIndex |-> index, task |-> task]
BY TaskLogIs, TaskLogDecodes

(* A log with the hash the operator looks for is that of a task.           *)
LEMMA NewTaskRead ==
    ASSUME StateOK, ChainOK, NEW log, LogOK(log), log # NoLog, IsNewTask(log)
    PROVE  \E i \in 1 .. Len(tasks) :
               DecodesLog(log) /\ decode_log(log) = [taskIndex |-> i - 1, task |-> tasks[i]]
<1>1. \A i : TaskResponded(i - 1, tasks[i]).topics[1] # SIGNATURE_HASH
  <2>1. <<142, 178, 210, 252>> # <<88, 24, 10, 106>>
    OBVIOUS
  <2>2. QED
    BY <2>1, HashIs DEF TaskResponded
<1>2. PICK i \in 1 .. Len(tasks) : log = NewTaskCreated(i - 1, tasks[i])
  BY <1>1 DEF LogOK, IsNewTask
<1>3. tasks[i] \in Tasks /\ i - 1 \in Indexes
  <2>1. account \in Nat /\ account <= MaxSends /\ Len(tasks) \in Nat /\ Len(tasks) <= account
    BY MinedBound, TasksIs DEF ChainOK, StateOK
  <2>2. QED
    BY <2>1, TasksIs, TrafficAssumption DEF Indexes
<1>4. PICK index : index = i - 1
  OBVIOUS
<1>5. PICK task : task = tasks[i]
  OBVIOUS
<1>6. DecodesLog(NewTaskCreated(index, task))
  BY <1>3, <1>4, <1>5, BindingReads
<1>7. decode_log(NewTaskCreated(index, task)) = [taskIndex |-> index, task |-> task]
  BY <1>3, <1>4, <1>5, BindingReads
<1>8. log = NewTaskCreated(index, task) /\ index = i - 1 /\ task = tasks[i]
  BY <1>2, <1>4, <1>5
<1>9. DecodesLog(log)
  BY <1>6, <1>8, Zenon
<1>10. decode_log(log) = [taskIndex |-> i - 1, task |-> tasks[i]]
  <2>1. decode_log(log) = [taskIndex |-> index, task |-> task]
    BY <1>7, <1>8, Zenon
  <2>2. QED
    BY <1>8, <2>1, Zenon
<1>11. QED
  BY <1>9, <1>10, Zenon

----------------------------------------------------------------------------
(* What the node does with a transaction it accepts.                       *)
Sends(from, nonce, wire) ==
    /\ sent' \in Seq(Transactions) /\ Len(sent') <= MaxSends
    /\ Len(sent') = Len(sent) + 1 /\ DOMAIN sent' = 1 .. Len(sent) + 1
    /\ sent'[Len(sent) + 1] =
           [from |-> from, nonce |-> nonce, wire |-> wire, state |-> "pending"]
    /\ \A k \in 1 .. Len(sent) :
           /\ sent'[k].from = sent[k].from /\ sent'[k].nonce = sent[k].nonce
           /\ sent'[k].wire = sent[k].wire
           /\ sent'[k].state = IF k \in PendingAt(nonce) THEN "replaced" ELSE sent[k].state

LEMMA AcceptSends ==
    ASSUME StateOK, NEW from \in Programs, NEW nonce \in Nat, NEW wire \in Wires,
           Accept(from, nonce, wire)
    PROVE  Sends(from, nonce, wire)
<1> DEFINE new == [from |-> from, nonce |-> nonce, wire |-> wire, state |-> "pending"]
           old == [k \in 1 .. Len(sent) |->
                      IF k \in PendingAt(nonce) THEN [sent[k] EXCEPT !.state = "replaced"]
                                                ELSE sent[k]]
<1>1. Len(sent) \in Nat /\ Len(sent) + 1 <= MaxSends /\ sent' = Append(old, new)
  BY SentIs, TrafficAssumption DEF Accept
<1>2. \A k \in 1 .. Len(sent) :
          /\ old[k] \in Transactions
          /\ old[k].from = sent[k].from /\ old[k].nonce = sent[k].nonce
          /\ old[k].wire = sent[k].wire
          /\ old[k].state = IF k \in PendingAt(nonce) THEN "replaced" ELSE sent[k].state
  BY SentIs DEF Transactions, States
<1>3. new \in Transactions
  BY DEF Transactions, States
<1>4. old \in Seq(Transactions) /\ Len(old) = Len(sent)
  <2>1. old \in [1 .. Len(sent) -> Transactions]
    BY <1>2
  <2> HIDE DEF old
  <2>2. QED
    BY <1>1, <2>1, IsASeq, LenProperties
<1> HIDE DEF old, new
<1>5. /\ sent' \in Seq(Transactions) /\ Len(sent') = Len(sent) + 1
      /\ sent'[Len(sent) + 1] = new
      /\ \A k \in 1 .. Len(sent) : sent'[k] = old[k]
  BY <1>1, <1>3, <1>4, AppendProperties
<1>6. DOMAIN sent' = 1 .. Len(sent) + 1
  BY <1>5, LenProperties
<1>7. QED
  BY <1>1, <1>2, <1>5, <1>6 DEF new, Sends

LEMMA SendsPending ==
    ASSUME StateOK, NEW from \in Programs, NEW nonce \in Nat, NEW wire \in Wires,
           Sends(from, nonce, wire), UNCHANGED account
    PROVE  /\ PendingTx' = (PendingTx \ PendingAt(nonce)) \cup {Len(sent) + 1}
           /\ MinedTx' = MinedTx
           /\ \A m \in Nat : PendingAt(m)' =
                  IF m = nonce THEN {Len(sent) + 1} ELSE PendingAt(m)
<1>1. Len(sent) \in Nat /\ DOMAIN sent = 1 .. Len(sent)
  BY SentIs
<1>2. PendingAt(nonce) = {k \in PendingTx : sent[k].nonce = nonce}
  BY DEF PendingAt, PendingTx
<1>3. PendingTx' = (PendingTx \ PendingAt(nonce)) \cup {Len(sent) + 1}
  BY <1>1 DEF Sends, PendingTx
<1>4. MinedTx' = MinedTx
  BY <1>1, <1>2 DEF Sends, MinedTx, PendingTx
<1>5. \A m : PendingAt(m)' = {k \in PendingTx' : sent'[k].nonce = m}
  BY DEF PendingAt, PendingTx
<1>6. \A m : PendingAt(m) = {k \in PendingTx : sent[k].nonce = m}
  BY DEF PendingAt, PendingTx
<1>7. PendingTx \subseteq 1 .. Len(sent) /\ Len(sent) + 1 \notin PendingTx
  BY <1>1 DEF PendingTx
<1>8. ASSUME NEW m \in Nat
      PROVE  PendingAt(m)' = IF m = nonce THEN {Len(sent) + 1} ELSE PendingAt(m)
  <2>1. \A k \in PendingTx : sent'[k].nonce = sent[k].nonce
    BY <1>7 DEF Sends
  <2>2. sent'[Len(sent) + 1].nonce = nonce
    BY DEF Sends
  <2>3. PendingAt(m)' = {k \in PendingTx' : sent'[k].nonce = m}
    BY <1>5
  <2>4. QED
    BY <1>2, <1>3, <1>6, <1>7, <2>1, <2>2, <2>3
<1>9. QED
  BY <1>3, <1>4, <1>8

LEMMA SendsNonces ==
    ASSUME StateOK, NoncesOK, NEW from \in Programs, NEW nonce \in Nat, NEW wire \in Wires,
           Sends(from, nonce, wire), UNCHANGED account, Reached(nonce)
    PROVE  /\ NoncesOK'
           /\ \A n \in Nat : Reached(n) => Reached(n)'
<1>1. \A n \in Nat : Reached(n) => Reached(n)'
  <2>1. account \in Nat
    BY DEF StateOK
  <2>2. \A n \in Nat : account .. n - 1 \subseteq Nat
    BY <2>1
  <2>3. QED
    BY <2>2, SendsPending DEF Reached
<1>2. Len(sent) \in Nat /\ PendingTx \subseteq 1 .. Len(sent) /\ account \in Nat
  BY SentIs DEF PendingTx, StateOK
<1>3. \A k \in PendingTx : sent'[k].nonce = sent[k].nonce /\ sent[k].nonce \in Nat
  BY <1>2, SentIs DEF Sends, Transactions
<1>4. \A k \in PendingTx : k \in PendingAt(nonce) <=> sent[k].nonce = nonce
  BY DEF PendingTx, PendingAt
<1>5. sent'[Len(sent) + 1].nonce = nonce
  BY DEF Sends
<1>6. PendingTx' = (PendingTx \ PendingAt(nonce)) \cup {Len(sent) + 1}
  BY SendsPending
<1>7. \A k, l \in PendingTx' : sent'[k].nonce = sent'[l].nonce => k = l
  BY <1>3, <1>4, <1>5, <1>6 DEF NoncesOK
<1>8. \A k \in PendingTx' : sent'[k].nonce \in Nat /\ Reached(sent'[k].nonce)
  BY <1>3, <1>5, <1>6 DEF NoncesOK
<1>9. \A k \in PendingTx' : Reached(sent[k].nonce)'
  <2>1. \A n \in Nat : Reached(n) => \A m \in account' .. n - 1 : PendingAt(m)' # {}
    BY <1>1 DEF Reached
  <2>2. QED
    BY <1>8, <2>1 DEF Reached
<1>10. QED
  BY <1>1, <1>7, <1>9 DEF NoncesOK

LEMMA SendsSent ==
    ASSUME StateOK, SentOK, NEW from \in Programs, NEW nonce \in Nat, NEW wire \in Wires,
           Sends(from, nonce, wire), nonce >= account, UNCHANGED chainVars,
           CarriesCall([from |-> from, nonce |-> nonce, wire |-> wire, state |-> "pending"])
    PROVE  SentOK'
<1>1. Len(sent) \in Nat /\ DOMAIN sent = 1 .. Len(sent) /\ UNCHANGED account
  BY SentIs DEF chainVars
<1>2. SUFFICES ASSUME NEW k \in 1 .. Len(sent) + 1
               PROVE  /\ sent'[k].state = "mined" => sent'[k].nonce < account'
                      /\ sent'[k].state = "pending" => account' <= sent'[k].nonce
                      /\ sent'[k].state = "replaced" => \E l \in 1 .. Len(sent) + 1 : k < l
                      /\ CarriesCall(sent[k])'
  BY <1>1 DEF Sends, SentOK
<1>3. CASE k = Len(sent) + 1
  <2>1. account \in Nat
    BY DEF StateOK
  <2>2. sent'[k] = [from |-> from, nonce |-> nonce, wire |-> wire, state |-> "pending"]
    BY <1>1, <1>3 DEF Sends
  <2>3. CarriesCall(sent[k])'
    BY <2>2 DEF CarriesCall, chainVars
  <2>4. QED
    BY <1>1, <2>1, <2>2, <2>3
<1>4. CASE k \in 1 .. Len(sent)
  <2>1. /\ sent'[k].from = sent[k].from /\ sent'[k].nonce = sent[k].nonce
        /\ sent'[k].wire = sent[k].wire
        /\ sent'[k].state \in {"replaced", sent[k].state}
    BY <1>1, <1>4 DEF Sends
  <2>2. k < Len(sent) + 1 /\ Len(sent) + 1 \in 1 .. Len(sent) + 1
    BY <1>1, <1>4
  <2>3. CarriesCall(sent[k])'
    <3>1. CarriesCall(sent[k])
      BY <1>1, <1>4 DEF SentOK
    <3>2. QED
      BY <2>1, <3>1 DEF CarriesCall, chainVars
  <2>4. QED
    BY <1>1, <1>4, <2>1, <2>2, <2>3 DEF SentOK
<1>5. QED
  BY <1>1, <1>2, <1>3, <1>4

LEMMA SendsLast ==
    ASSUME StateOK, NEW from \in Programs, NEW nonce \in Nat, NEW wire \in Wires,
           Sends(from, nonce, wire), UNCHANGED account
    PROVE  /\ \A tx : tx = Len(sent) + 1 => LastOf(from, tx)'
           /\ \A other \in Programs \ {from}, tx \in Nat :
                  LastOf(other, tx) => LastOf(other, tx)'
<1>1. Len(sent) \in Nat /\ DOMAIN sent = 1 .. Len(sent)
  BY SentIs
<1>2. QED
  BY <1>1 DEF Sends, LastOf

----------------------------------------------------------------------------
(* What a block does to the transactions: the mined one has the nonce of   *)
(* the chain.                                                              *)
Mines(k) ==
    /\ k \in DOMAIN sent /\ sent[k].state = "pending" /\ sent[k].nonce = account
    /\ account' = account + 1
    /\ sent' \in Seq(Transactions) /\ Len(sent') = Len(sent) /\ DOMAIN sent' = DOMAIN sent
    /\ \A l \in DOMAIN sent :
           /\ sent'[l].from = sent[l].from /\ sent'[l].nonce = sent[l].nonce
           /\ sent'[l].wire = sent[l].wire
           /\ sent'[l].state = IF l = k THEN "mined" ELSE sent[l].state

LEMMA MineMines ==
    ASSUME StateOK, NEW k \in DOMAIN sent, Mine(k)
    PROVE  Mines(k)
<1> DEFINE mined == [sent[k] EXCEPT !.state = "mined"]
<1>1. sent[k] \in Transactions /\ k \in 1 .. Len(sent)
  BY SentIs
<1>2. /\ mined \in Transactions
      /\ mined.from = sent[k].from /\ mined.nonce = sent[k].nonce
      /\ mined.wire = sent[k].wire /\ mined.state = "mined"
  BY <1>1 DEF Transactions, States
<1>3. sent \in Seq(Transactions) /\ sent' = [sent EXCEPT ![k] = mined]
  BY DEF Mine, StateOK
<1> HIDE DEF mined
<1>4. /\ sent' \in Seq(Transactions) /\ Len(sent') = Len(sent)
      /\ \A l \in 1 .. Len(sent) : sent'[l] = IF l = k THEN mined ELSE sent[l]
  BY <1>1, <1>2, <1>3, ExceptSeq
<1>5. DOMAIN sent' = DOMAIN sent
  BY <1>3
<1>6. sent[k].state = "pending" /\ sent[k].nonce = account /\ account' = account + 1
  BY DEF Mine, PendingAt
<1>7. QED
  BY <1>2, <1>4, <1>5, <1>6, SentIs DEF Mines

LEMMA MinesPending ==
    ASSUME StateOK, ChainOK, NEW k, Mines(k)
    PROVE  /\ PendingTx' = PendingTx \ {k}
           /\ Cardinality(MinedTx)' = account'
           /\ account + 1 <= MaxSends
           /\ \A m : m # account => PendingAt(m)' = PendingAt(m)
<1>1. PendingTx' = PendingTx \ {k}
  BY DEF Mines, PendingTx
<1>2. MinedTx' = MinedTx \cup {k} /\ k \notin MinedTx
  BY DEF Mines, MinedTx
<1>3. Cardinality(MinedTx) = account /\ IsFiniteSet(MinedTx)
  BY MinedBound DEF ChainOK
<1>4. Cardinality(MinedTx') = account + 1
  BY <1>2, <1>3, FS_AddElement
<1>5. account + 1 <= MaxSends
  <2>1. MinedTx' \in SUBSET DOMAIN sent
    BY DEF MinedTx, Mines
  <2>2. Cardinality(MinedTx') <= Len(sent)
    BY <2>1, SomeSent
  <2>3. Len(sent) \in Nat /\ Len(sent) <= MaxSends /\ account \in Nat
    BY SentIs DEF StateOK
  <2>4. QED
    BY <1>4, <2>2, <2>3, TrafficAssumption
<1>6. ASSUME NEW m, m # account PROVE PendingAt(m)' = PendingAt(m)
  BY <1>6 DEF PendingAt, Mines
<1>7. QED
  BY <1>1, <1>4, <1>5, <1>6 DEF Mines

LEMMA MinesNonces ==
    ASSUME StateOK, ChainOK, NoncesOK, NEW k, Mines(k)
    PROVE  /\ NoncesOK'
           /\ \A n \in Nat : Reached(n) => Reached(n)'
<1>1. account \in Nat /\ account' = account + 1
  BY DEF StateOK, Mines
<1>2. \A n \in Nat : Reached(n) => Reached(n)'
  <2>1. \A n \in Nat : \A m \in account' .. n - 1 : m # account /\ m \in account .. n - 1
    BY <1>1
  <2>2. QED
    BY <2>1, MinesPending DEF Reached
<1>3. PendingTx' \subseteq PendingTx /\ PendingTx \subseteq DOMAIN sent
  BY MinesPending DEF PendingTx
<1>4. \A l \in PendingTx' : sent'[l].nonce = sent[l].nonce /\ sent[l].nonce \in Nat
  BY <1>3, SentIs DEF Mines, Transactions
<1>5. \A j, l \in PendingTx' : sent'[j].nonce = sent'[l].nonce => j = l
  BY <1>3, <1>4 DEF NoncesOK
<1>6. \A l \in PendingTx' : Reached(sent[l].nonce)'
  <2>1. \A n \in Nat : Reached(n) => \A m \in account' .. n - 1 : PendingAt(m)' # {}
    BY <1>2 DEF Reached
  <2>2. \A l \in PendingTx' : sent'[l].nonce \in Nat /\ Reached(sent'[l].nonce)
    BY <1>3, <1>4 DEF NoncesOK
  <2>3. QED
    BY <2>1, <2>2 DEF Reached
<1>7. QED
  BY <1>2, <1>5, <1>6 DEF NoncesOK

----------------------------------------------------------------------------
(* What the contract does with the call of the mined transaction.          *)
Receives(k) ==
    /\ tasks' \in Seq(Tasks) /\ Len(tasks') \in {Len(tasks), Len(tasks) + 1}
    /\ \A i \in 1 .. Len(tasks) : tasks'[i] = tasks[i]
    /\ answered \subseteq answered' /\ answered' \subseteq 0 .. Len(tasks') - 1
    /\ logs' \in Seq(Logs) /\ Len(logs') = Len(logs) + 1
    /\ \A block \in 1 .. Len(logs) : logs'[block] = logs[block]
    /\ LogOK(logs[Len(logs)])'
    /\ sent[k].from = "operator" =>
           \E i \in 1 .. Len(tasks) : /\ sent[k].wire = AnswerTo(tasks[i], i - 1)
                                      /\ i - 1 \in answered'

LEMMA MineReceives ==
    ASSUME StateOK, ChainOK, SentOK, NEW k \in DOMAIN sent, Mine(k)
    PROVE  Receives(k)
<1>1. contract = "binding"
  <2>1. sent # <<>>
    BY SentIs
  <2>2. QED
    BY <2>1 DEF ChainOK, StateOK
<1>2. CarriesCall(sent[k]) /\ sent[k].from \in Programs
  BY SentIs DEF SentOK, Transactions
<1>3. /\ Len(tasks) \in Nat /\ tasks \in Seq(Tasks)
      /\ logs \in Seq(Logs) /\ Len(logs) \in Nat
      /\ answered \subseteq 0 .. Len(tasks) - 1
  BY TasksIs, LogsIs DEF StateOK
<1>4. account + 1 <= MaxSends /\ account \in Nat /\ Len(tasks) <= account
      /\ Len(logs) = account + 1
  BY MineMines, MinesPending DEF StateOK, ChainOK
<1>5. ASSUME NEW log \in Logs, logs' = Append(logs, log)
      PROVE  /\ logs' \in Seq(Logs) /\ Len(logs') = Len(logs) + 1
             /\ \A block \in 1 .. Len(logs) : logs'[block] = logs[block]
             /\ logs'[Len(logs')] = log
  BY <1>3, <1>5, AppendProperties
<1>6. ASSUME ReceiveNewTask(sent[k].wire) PROVE Receives(k)
  <2> DEFINE task == [name |-> sent[k].wire.data[1][2], taskCreatedBlock |-> head + 1]
             log == NewTaskCreated(Len(tasks), task)
  <2>1. /\ Creates(sent[k].wire) /\ tasks' = Append(tasks, task) /\ logs' = Append(logs, log)
        /\ answered' = answered
    BY <1>6 DEF ReceiveNewTask
  <2>2. sent[k].from = "generator"
    BY <1>1, <1>2, <2>1, AnswerWire DEF CarriesCall, Programs
  <2>3. sent[k].wire.data[1][2] \in Names
    BY <1>2, <2>2, CreateWire DEF CarriesCall
  <2>4. task \in Tasks
    BY <1>4, <2>3, TrafficAssumption DEF Tasks, head
  <2> HIDE DEF task
  <2>5. log \in Logs
    BY <1>3, <1>4, <2>4, TrafficAssumption DEF Logs, Indexes
  <2>6. /\ tasks' \in Seq(Tasks) /\ Len(tasks') = Len(tasks) + 1
        /\ \A i \in 1 .. Len(tasks) : tasks'[i] = tasks[i]
        /\ tasks'[Len(tasks) + 1] = task
    BY <1>3, <2>1, <2>4, AppendProperties
  <2>7. LogOK(logs[Len(logs)])'
    <3>1. logs'[Len(logs')] = log
      BY <1>5, <2>1, <2>5
    <3>2. Len(tasks) + 1 \in 1 .. Len(tasks') /\ Len(tasks) + 1 - 1 = Len(tasks)
      BY <1>3, <2>6
    <3>3. PICK i : i = Len(tasks) + 1
      OBVIOUS
    <3>4. i \in 1 .. Len(tasks') /\ log = NewTaskCreated(i - 1, tasks'[i])
      BY <2>6, <3>2, <3>3
    <3>5. QED
      BY <3>1, <3>4 DEF LogOK
  <2> HIDE DEF log
  <2>8. answered' \subseteq 0 .. Len(tasks') - 1
    BY <1>3, <2>1, <2>6
  <2>9. QED
    BY <1>5, <2>1, <2>2, <2>5, <2>6, <2>7, <2>8 DEF Receives
<1>7. ASSUME ReceiveAnswer(sent[k].wire) PROVE Receives(k)
  <2>1. sent[k].from = "operator"
    BY <1>2, <1>7, CreateWire DEF CarriesCall, ReceiveAnswer, Programs
  <2>2. PICK i \in 1 .. Len(tasks) : sent[k].wire = AnswerTo(tasks[i], i - 1)
    BY <1>2, <2>1 DEF CarriesCall
  <2>3. sent[k].wire.data[2][2] = i - 1
    BY <1>1, <2>2, AnswerWire
  <2>4. PICK index : index = i - 1
    OBVIOUS
  <2>5. index \in 0 .. Len(tasks) - 1 /\ index + 1 = i /\ index \in Indexes
    BY <1>3, <1>4, <2>4, TrafficAssumption DEF Indexes
  <2> DEFINE log == TaskResponded(index, tasks[i])
  <2>6. /\ answered' = answered \cup {index} /\ tasks' = tasks
        /\ logs' = Append(logs, log)
    BY <1>7, <2>3, <2>4, <2>5 DEF ReceiveAnswer
  <2>7. log \in Logs
    BY <2>5, TasksIs DEF Logs
  <2>8. LogOK(logs[Len(logs)])'
    <3>1. logs'[Len(logs')] = log
      BY <1>5, <2>6, <2>7
    <3>2. QED
      BY <2>4, <2>6, <3>1 DEF LogOK
  <2> HIDE DEF log
  <2>9. QED
    BY <1>3, <1>5, <2>2, <2>4, <2>5, <2>6, <2>7, <2>8 DEF Receives
<1>8. ASSUME Revert(sent[k].wire) PROVE Receives(k)
  <2>1. /\ ~Creates(sent[k].wire) /\ ~Answers(sent[k].wire)
        /\ tasks' = tasks /\ answered' = answered /\ logs' = Append(logs, NoLog)
    BY <1>8 DEF Revert
  <2>2. LogOK(logs[Len(logs)])'
    BY <1>5, <2>1 DEF LogOK, Logs
  <2>3. sent[k].from = "operator"
    BY <1>1, <1>2, <2>1, CreateWire DEF CarriesCall, Programs
  <2>4. PICK i \in 1 .. Len(tasks) : sent[k].wire = AnswerTo(tasks[i], i - 1)
    BY <1>2, <2>3 DEF CarriesCall
  <2>5. i - 1 \in answered
    BY <1>1, <2>1, <2>4, AnswerWire
  <2>6. NoLog \in Logs
    BY DEF Logs
  <2>7. QED
    BY <1>3, <1>5, <2>1, <2>2, <2>4, <2>5, <2>6 DEF Receives
<1>9. QED
  BY <1>6, <1>7, <1>8 DEF Mine

----------------------------------------------------------------------------
(* A block preserves the invariant.                                        *)
LEMMA MineState ==
    ASSUME StateOK, NEW k, Mines(k), Receives(k), Mine(k)
    PROVE  StateOK'
<1>1. UNCHANGED <<contract, ticks, generator, operator>>
  BY DEF Mine
<1>2. account \in Nat /\ account + 1 = Len(logs) /\ account' = account + 1
  BY DEF StateOK, Mines
<1>3. account' \in Nat /\ account' + 1 = Len(logs')
  BY <1>2, LogsIs DEF Receives
<1>4. sent' \in Seq(Transactions) /\ Len(sent') <= MaxSends
  BY DEF StateOK, Mines
<1>5. tasks' \in Seq(Tasks) /\ answered' \subseteq 0 .. Len(tasks') - 1 /\ logs' \in Seq(Logs)
  BY DEF Receives
<1>6. QED
  BY <1>1, <1>3, <1>4, <1>5 DEF StateOK

LEMMA MineChain ==
    ASSUME StateOK, ChainOK, NEW k, Mines(k), Receives(k), Mine(k)
    PROVE  ChainOK'
<1>1. UNCHANGED contract
  BY DEF Mine
<1>2. contract = "binding"
  <2>1. sent # <<>>
    BY SentIs DEF Mines
  <2>2. QED
    BY <2>1 DEF ChainOK, StateOK
<1>3. Len(tasks') <= account'
  <2>1. account \in Nat /\ account' = account + 1 /\ Len(tasks) <= account
    BY DEF Mines, ChainOK, StateOK
  <2>2. Len(tasks) \in Nat /\ Len(tasks') \in {Len(tasks), Len(tasks) + 1}
    BY TasksIs DEF Receives
  <2>3. QED
    BY <2>1, <2>2
<1>4. Len(logs') \in Nat /\ DOMAIN logs' = 1 .. Len(logs')
  BY LenProperties DEF Receives
<1>5. ASSUME NEW block \in 1 .. Len(logs) PROVE LogOK(logs[block])'
  <2>1. LogOK(logs[block]) /\ logs'[block] = logs[block]
    BY LogsIs DEF ChainOK, Receives
  <2>2. \A i \in 1 .. Len(tasks) : i \in 1 .. Len(tasks') /\ tasks'[i] = tasks[i]
    BY TasksIs DEF Receives
  <2>3. QED
    BY <2>1, <2>2 DEF LogOK
<1>6. \A block \in DOMAIN logs' : block \in 1 .. Len(logs) \/ block = Len(logs')
  BY <1>4, LogsIs DEF Receives
<1>7. LogOK(logs[Len(logs)])'
  BY DEF Receives
<1>8. \A block \in DOMAIN logs' : LogOK(logs[block])'
  BY <1>5, <1>6, <1>7
<1>9. Cardinality(MinedTx)' = account'
  BY MinesPending
<1>10. QED
  BY <1>1, <1>2, <1>3, <1>8, <1>9 DEF ChainOK

LEMMA MineSent ==
    ASSUME StateOK, SentOK, NoncesOK, NEW k, Mines(k), Receives(k)
    PROVE  SentOK'
<1>1. account \in Nat /\ account' = account + 1 /\ DOMAIN sent' = DOMAIN sent
  BY DEF StateOK, Mines
<1>2. \A i \in 1 .. Len(tasks) : i \in 1 .. Len(tasks') /\ tasks'[i] = tasks[i]
  BY TasksIs DEF Receives
<1>3. SUFFICES ASSUME NEW l \in DOMAIN sent
               PROVE  /\ sent'[l].state = "mined" => sent'[l].nonce < account'
                      /\ sent'[l].state = "pending" => account' <= sent'[l].nonce
                      /\ sent'[l].state = "replaced" => \E j \in DOMAIN sent : l < j
                      /\ CarriesCall(sent[l])'
  BY <1>1 DEF SentOK
<1>4. /\ sent'[l].from = sent[l].from /\ sent'[l].nonce = sent[l].nonce
      /\ sent'[l].wire = sent[l].wire
      /\ sent'[l].state = IF l = k THEN "mined" ELSE sent[l].state
  BY DEF Mines
<1>5. CarriesCall(sent[l]) /\ sent[l].nonce \in Nat
  BY SentIs DEF SentOK, Transactions
<1>6. CASE l = k
  <2>1. sent'[l].nonce < account' /\ sent'[l].state = "mined"
    BY <1>1, <1>4, <1>6 DEF Mines
  <2>2. CarriesCall(sent[l])'
    BY <1>2, <1>4, <1>5, <1>6 DEF CarriesCall, Receives
  <2>3. QED
    BY <2>1, <2>2
<1>7. CASE l # k
  <2>1. CarriesCall(sent[l])'
    BY <1>2, <1>4, <1>5, <1>7 DEF CarriesCall, Receives
  <2>2. sent[l].state = "pending" => sent[l].nonce # account
    BY <1>7 DEF NoncesOK, PendingTx, Mines
  <2>3. QED
    BY <1>1, <1>4, <1>5, <1>7, <2>1, <2>2 DEF SentOK
<1>8. QED
  BY <1>6, <1>7

LEMMA MinePrograms ==
    ASSUME TrafficInv, NEW k, Mines(k), Receives(k), Mine(k)
    PROVE  GeneratorOK' /\ OperatorOK'
<1>1. StateOK /\ ChainOK /\ NoncesOK /\ GeneratorOK /\ OperatorOK
  BY DEF TrafficInv
<1>2. UNCHANGED <<contract, generator, operator>>
  BY DEF Mine
<1>3. \A n \in Nat : Reached(n) => Reached(n)'
  BY <1>1, MinesNonces
<1>4. \A from, tx : LastOf(from, tx) => LastOf(from, tx)'
  BY DEF LastOf, Mines
<1>5. generator.nonce \in Nat /\ operator.nonce \in Nat /\ operator.batch \in SUBSET Nat
  BY <1>1 DEF StateOK
<1>6. GeneratorOK'
  <2>1. Reached(generator.nonce) => Reached(generator.nonce)'
    BY <1>2, <1>3, <1>5
  <2>2. LastOf("generator", generator.tx) => LastOf("generator", generator.tx)'
    BY <1>2, <1>4
  <2>3. QED
    BY <1>1, <1>2, <2>1, <2>2 DEF GeneratorOK, Waiting
<1>7. OperatorOK'
  <2>1. Reached(operator.nonce) => Reached(operator.nonce)'
    BY <1>2, <1>3, <1>5
  <2>2. LastOf("operator", operator.tx) => LastOf("operator", operator.tx)'
    BY <1>2, <1>4
  <2>3. DOMAIN logs = 1 .. Len(logs) /\ DOMAIN logs \subseteq DOMAIN logs'
    BY <1>1, LogsIs, LenProperties DEF Receives
  <2>4. \A block \in DOMAIN logs : logs'[block] = logs[block]
    BY <2>3 DEF Receives
  <2>5. operator.batch # {} => NextLog' = NextLog
    <3>1. operator.batch # {} => Min(operator.batch) \in operator.batch
      BY <1>5, MinIsIn
    <3>2. operator.batch \subseteq DOMAIN logs
      BY <1>1 DEF OperatorOK
    <3>3. QED
      BY <1>2, <2>4, <3>1, <3>2 DEF NextLog
  <2>6. operator.batch \subseteq {block \in DOMAIN logs' : logs'[block] # NoLog}
    BY <1>1, <2>3, <2>4 DEF OperatorOK
  <2>7. operator.batch # {} /\ IsNewTask(NextLog) => IsNewTask(NextLog)'
    BY <2>5 DEF IsNewTask
  <2>8. QED
    BY <1>1, <1>2, <2>1, <2>2, <2>6, <2>7 DEF OperatorOK, Waiting
<1>8. QED
  BY <1>6, <1>7

LEMMA MineKeeps ==
    ASSUME TrafficInv, NEW k \in DOMAIN sent, Mine(k)
    PROVE  TrafficInv'
<1>1. StateOK /\ ChainOK /\ SentOK /\ NoncesOK
  BY DEF TrafficInv
<1>2. Mines(k) /\ Receives(k)
  BY <1>1, MineMines, MineReceives
<1>3. StateOK'
  BY <1>1, <1>2, MineState
<1>4. ChainOK' /\ SentOK' /\ NoncesOK'
  BY <1>1, <1>2, MineChain, MineSent, MinesNonces
<1>5. GeneratorOK' /\ OperatorOK'
  BY <1>2, MinePrograms
<1>6. QED
  BY <1>3, <1>4, <1>5 DEF TrafficInv

----------------------------------------------------------------------------
(* A step that leaves the chain and the node alone.                        *)
LEMMA Quiet ==
    ASSUME ChainOK, SentOK, NoncesOK, UNCHANGED <<chainVars, sent>>
    PROVE  /\ ChainOK' /\ SentOK' /\ NoncesOK'
           /\ \A n : Reached(n) <=> Reached(n)'
           /\ \A from, tx : LastOf(from, tx) <=> LastOf(from, tx)'
<1>1. UNCHANGED <<contract, tasks, answered, logs, account, sent>>
  BY DEF chainVars
<1>2. ChainOK'
  BY <1>1 DEF ChainOK, MinedTx, LogOK
<1>3. SentOK'
  BY <1>1 DEF SentOK, CarriesCall
<1>4. \A n : Reached(n) <=> Reached(n)'
  BY <1>1 DEF Reached, PendingAt
<1>5. NoncesOK'
  BY <1>1 DEF NoncesOK, PendingTx, Reached, PendingAt
<1>6. QED
  BY <1>1, <1>2, <1>3, <1>4, <1>5 DEF LastOf

(* The nonce the node answers with leaves no gap: the pending transactions *)
(* have each a nonce of their own, and there is none beyond a free one.    *)
LEMMA NonceReached ==
    ASSUME StateOK, SentOK, NoncesOK, NEW nonce \in NonceNow
    PROVE  nonce \in Nat /\ Reached(nonce)
<1>1. account \in Nat
  BY DEF StateOK
<1>2. IsFiniteSet(PendingTx) /\ Cardinality(PendingTx) \in Nat
  BY SomeSent DEF PendingTx
<1>3. nonce \in {account, account + Cardinality(PendingTx)}
  BY DEF NonceNow, PendingTx
<1>4. SUFFICES ASSUME NEW m \in account .. account + Cardinality(PendingTx) - 1,
                      PendingAt(m) = {}
               PROVE  FALSE
  BY <1>1, <1>2, <1>3 DEF Reached
<1>5. \A k \in PendingTx : sent[k].nonce \in account .. m - 1
  <2>1. ASSUME NEW k \in PendingTx PROVE sent[k].nonce \in account .. m - 1
    <3>1. sent[k].nonce \in Nat /\ account <= sent[k].nonce
      BY SentIs DEF PendingTx, SentOK, Transactions
    <3>2. sent[k].nonce # m
      BY <1>4 DEF PendingTx, PendingAt
    <3>3. ~(m \in account .. sent[k].nonce - 1)
      BY <1>4 DEF NoncesOK, Reached
    <3>4. QED
      BY <1>1, <1>2, <3>1, <3>2, <3>3
  <2>2. QED
    BY <2>1
<1> DEFINE nonceOf == [k \in PendingTx |-> sent[k].nonce]
<1>6. nonceOf \in Injection(PendingTx, account .. m - 1)
  BY <1>5 DEF NoncesOK, Injection, IsInjective
<1> HIDE DEF nonceOf
<1>7. IsFiniteSet(account .. m - 1) /\ Cardinality(account .. m - 1) = m - account
  <2>1. PICK last \in Int : last = m - 1
    BY <1>1, <1>2
  <2>2. /\ IsFiniteSet(account .. last)
        /\ Cardinality(account .. last) = IF account > last THEN 0 ELSE last - account + 1
    BY <1>1, FS_Interval
  <2>3. m \in Int /\ account <= m
    BY <1>1, <1>2
  <2>4. QED
    BY <1>1, <2>1, <2>2, <2>3
<1>8. Cardinality(PendingTx) <= m - account
  BY <1>6, <1>7, FS_Injection
<1>9. QED
  BY <1>1, <1>2, <1>8

----------------------------------------------------------------------------
(* A step of one program that sends nothing leaves the other as it was.    *)
LEMMA GeneratorKeptBy ==
    ASSUME TrafficInv, UNCHANGED <<chainVars, sent, generator>>
    PROVE  GeneratorOK'
<1>1. UNCHANGED contract
  BY DEF chainVars
<1>2. /\ \A n : Reached(n) <=> Reached(n)'
      /\ \A from, tx : LastOf(from, tx) <=> LastOf(from, tx)'
  BY Quiet DEF TrafficInv
<1>3. /\ Reached(generator.nonce) => Reached(generator.nonce)'
      /\ LastOf("generator", generator.tx) => LastOf("generator", generator.tx)'
  BY <1>2
<1>4. QED
  BY <1>1, <1>3 DEF TrafficInv, GeneratorOK, Waiting

LEMMA OperatorKeptBy ==
    ASSUME TrafficInv, UNCHANGED <<chainVars, sent, operator>>
    PROVE  OperatorOK'
<1>1. UNCHANGED logs
  BY DEF chainVars
<1>2. /\ \A n : Reached(n) <=> Reached(n)'
      /\ \A from, tx : LastOf(from, tx) <=> LastOf(from, tx)'
  BY Quiet DEF TrafficInv
<1>3. /\ Reached(operator.nonce) => Reached(operator.nonce)'
      /\ LastOf("operator", operator.tx) => LastOf("operator", operator.tx)'
  BY <1>2
<1>4. NextLog' = NextLog
  BY <1>1 DEF NextLog
<1>5. QED
  BY <1>1, <1>3, <1>4 DEF TrafficInv, OperatorOK, Waiting, IsNewTask

LEMMA StateKept ==
    ASSUME StateOK, UNCHANGED <<chainVars, sent>>, ticks' \in 0 .. MaxTicks,
           generator' \in [pc: {"sleep", "call", "send", "receipt"},
                           name: Names \cup {""}, nonce: Nat, tx: Nat],
           operator' \in [pc: {"start", "poll", "handle", "send", "receipt", "panicked"},
                          cursor: Nat, batch: SUBSET Nat, nonce: Nat, tx: Nat]
    PROVE  StateOK'
BY DEF StateOK, chainVars

LEMMA GeneratorSteps ==
    ASSUME TrafficInv, UNCHANGED <<chainVars, sent, operator>>,
           \/ \E name \in Names : Tick(name)
           \/ \E nonce \in NonceNow : FillCall(nonce)
           \/ CallDone \/ CallFails
    PROVE  TrafficInv'
<1>1. StateOK /\ ChainOK /\ SentOK /\ NoncesOK /\ GeneratorOK
  BY DEF TrafficInv
<1>2. /\ ChainOK' /\ SentOK' /\ NoncesOK' /\ OperatorOK'
      /\ \A n : Reached(n) <=> Reached(n)'
  BY <1>1, Quiet, OperatorKeptBy
<1>3. UNCHANGED contract
  BY DEF chainVars
<1> DEFINE GeneratorType == [pc: {"sleep", "call", "send", "receipt"},
                             name: Names \cup {""}, nonce: Nat, tx: Nat]
<1>4. generator \in GeneratorType /\ ticks \in 0 .. MaxTicks
      /\ operator' \in [pc: {"start", "poll", "handle", "send", "receipt", "panicked"},
                         cursor: Nat, batch: SUBSET Nat, nonce: Nat, tx: Nat]
  BY <1>1 DEF StateOK
<1>5. ASSUME generator' \in GeneratorType, ticks' \in 0 .. MaxTicks, GeneratorOK'
      PROVE  TrafficInv'
  BY <1>1, <1>2, <1>4, <1>5, StateKept DEF TrafficInv
<1>6. ASSUME NEW name \in Names, Tick(name) PROVE TrafficInv'
  <2>1. ticks' \in 0 .. MaxTicks
    <3>1. ticks < MaxTicks /\ ticks' = ticks + 1
      BY <1>6 DEF Tick
    <3>2. ticks \in 0 .. MaxTicks /\ MaxTicks \in Nat
      BY <1>4, TrafficAssumption
    <3>3. QED
      BY <3>1, <3>2
  <2>2. CASE generator' = generator
    <3>1. GeneratorOK'
      BY <2>2, GeneratorKeptBy
    <3>2. QED
      BY <1>4, <1>5, <2>1, <2>2, <3>1
  <2>3. CASE generator' = [generator EXCEPT !.pc = "call", !.name = name]
    <3>1. generator' \in GeneratorType /\ generator'.pc = "call" /\ generator'.name = name
      BY <1>4, <2>3
    <3>2. GeneratorOK'
      BY <1>6, <3>1 DEF GeneratorOK, Waiting
    <3>3. QED
      BY <1>5, <2>1, <3>1, <3>2
  <2>4. QED
    BY <1>6, <2>2, <2>3 DEF Tick
<1>7. ASSUME NEW nonce \in NonceNow, FillCall(nonce) PROVE TrafficInv'
  <2>1. ticks' \in 0 .. MaxTicks /\ generator.name \in Names
    BY <1>1, <1>4, <1>7 DEF FillCall, GeneratorOK
  <2>2. nonce \in Nat /\ Reached(nonce)'
    BY <1>1, <1>2, NonceReached
  <2>3. CASE Creates(NewTaskCall)
    <3>1. contract = "binding"
      BY <2>3 DEF Creates
    <3>2. generator' = [generator EXCEPT !.pc = "send", !.nonce = nonce]
      BY <1>7, <2>3 DEF FillCall
    <3>3. generator' \in GeneratorType /\ generator'.pc = "send" /\ generator'.nonce = nonce
          /\ generator'.name = generator.name
      BY <1>4, <2>2, <3>2
    <3>4. Reached(generator.nonce)'
      BY <2>2, <3>3
    <3>5. GeneratorOK'
      BY <1>3, <2>1, <3>1, <3>3, <3>4 DEF GeneratorOK, Waiting
    <3>6. QED
      BY <1>5, <2>1, <3>3, <3>5
  <2>4. CASE ~Creates(NewTaskCall)
    <3>1. generator' = [generator EXCEPT !.pc = "sleep"]
      BY <1>7, <2>4 DEF FillCall
    <3>2. generator' \in GeneratorType /\ generator'.pc = "sleep"
      BY <1>4, <3>1
    <3>3. GeneratorOK'
      BY <3>2 DEF GeneratorOK, Waiting
    <3>4. QED
      BY <1>5, <2>1, <3>2, <3>3
  <2>5. QED
    BY <2>3, <2>4
<1>8. ASSUME CallDone \/ CallFails PROVE TrafficInv'
  <2>1. generator' = [generator EXCEPT !.pc = "sleep"] /\ ticks' = ticks
    BY <1>8 DEF CallDone, CallFails
  <2>2. generator' \in GeneratorType /\ generator'.pc = "sleep"
    BY <1>4, <2>1
  <2>3. GeneratorOK'
    BY <2>2 DEF GeneratorOK, Waiting
  <2>4. QED
    BY <1>4, <1>5, <2>1, <2>2, <2>3
<1>9. QED
  BY <1>6, <1>7, <1>8

(* The operator's steps that send nothing preserve the invariant.          *)
LEMMA NextLogRead ==
    ASSUME TrafficInv, operator.batch # {}, IsNewTask(NextLog)
    PROVE  DecodesLog(NextLog) /\
           \E i \in 1 .. Len(tasks) : AnswerCall = AnswerTo(tasks[i], i - 1)
<1>1. Min(operator.batch) \in operator.batch
  BY MinIsIn DEF TrafficInv, StateOK
<1>2. LogOK(NextLog) /\ NextLog # NoLog
  BY <1>1 DEF TrafficInv, OperatorOK, ChainOK, NextLog
<1>3. PICK i \in 1 .. Len(tasks) :
          DecodesLog(NextLog) /\ decode_log(NextLog) = [taskIndex |-> i - 1, task |-> tasks[i]]
  <2>1. StateOK /\ ChainOK
    BY DEF TrafficInv
  <2>2. PICK log : log = NextLog
    OBVIOUS
  <2>3. QED
    BY <1>2, <2>1, <2>2, NewTaskRead
<1>4. AnswerCall = AnswerTo(tasks[i], i - 1)
  BY <1>3 DEF AnswerCall, AnswerTo
<1>5. QED
  BY <1>3, <1>4

LEMMA OperatorSteps ==
    ASSUME TrafficInv, UNCHANGED <<chainVars, sent, ticks, generator>>,
           \/ \E nonce \in NonceNow : FillAnswer(nonce)
           \/ StartMonitor \/ Poll \/ SkipLog \/ AnswerDone \/ AnswerFails \/ NextPoll
    PROVE  TrafficInv'
<1>1. StateOK /\ ChainOK /\ SentOK /\ NoncesOK /\ OperatorOK
  BY DEF TrafficInv
<1>2. /\ ChainOK' /\ SentOK' /\ NoncesOK' /\ GeneratorOK'
      /\ \A n : Reached(n) <=> Reached(n)'
  BY <1>1, Quiet, GeneratorKeptBy
<1>3. UNCHANGED logs /\ DOMAIN logs = 1 .. head /\ head \in Nat \ {0}
  <2>1. account \in Nat /\ account + 1 = Len(logs)
    BY <1>1 DEF StateOK
  <2>2. QED
    BY <1>1, <2>1, LogsIs DEF chainVars, head
<1> DEFINE OperatorType == [pc: {"start", "poll", "handle", "send", "receipt", "panicked"},
                            cursor: Nat, batch: SUBSET Nat, nonce: Nat, tx: Nat]
           Logged == {block \in DOMAIN logs : logs[block] # NoLog}
<1>4. operator \in OperatorType /\ ticks' \in 0 .. MaxTicks
      /\ generator' \in [pc: {"sleep", "call", "send", "receipt"},
                          name: Names \cup {""}, nonce: Nat, tx: Nat]
  BY <1>1 DEF StateOK
<1>5. operator.batch \subseteq Logged /\ Logged \subseteq Nat
  BY <1>1, <1>3 DEF OperatorOK
<1>6. ASSUME operator' \in OperatorType, OperatorOK'
      PROVE  TrafficInv'
  BY <1>1, <1>2, <1>4, <1>6, StateKept DEF TrafficInv
<1>7. ASSUME operator' \in OperatorType, operator'.pc \in {"poll", "handle"},
             1 <= operator'.cursor, operator'.batch \subseteq Logged
      PROVE  TrafficInv'
  <2>1. OperatorOK'
    BY <1>3, <1>7 DEF OperatorOK, Waiting
  <2>2. QED
    BY <1>6, <1>7, <2>1
<1>8. ASSUME NEW nonce \in NonceNow, FillAnswer(nonce) PROVE TrafficInv'
  <2>1. operator.batch # {} /\ IsNewTask(NextLog) /\ operator.pc = "handle"
    BY <1>8 DEF FillAnswer
  <2>2. operator' = [operator EXCEPT !.pc = "send", !.nonce = nonce]
    BY <1>8, <2>1, NextLogRead DEF FillAnswer
  <2>3. nonce \in Nat /\ Reached(nonce)'
    BY <1>1, <1>2, NonceReached
  <2>4. /\ operator' \in OperatorType /\ operator'.pc = "send" /\ operator'.nonce = nonce
        /\ operator'.batch = operator.batch /\ operator'.cursor = operator.cursor
    BY <1>4, <2>2, <2>3
  <2>5. Reached(operator.nonce)'
    BY <2>3, <2>4
  <2>6. NextLog' = NextLog /\ 1 <= operator.cursor
    BY <1>1, <1>3, <2>1, <2>4 DEF NextLog, OperatorOK
  <2>7. OperatorOK'
    BY <1>3, <1>5, <2>1, <2>4, <2>5, <2>6 DEF OperatorOK, Waiting, IsNewTask
  <2>8. QED
    BY <1>6, <2>4, <2>7
<1>9. CASE StartMonitor
  <2>1. operator' = [operator EXCEPT !.pc = "poll", !.cursor = head]
    BY <1>9 DEF StartMonitor
  <2>2. /\ operator' \in OperatorType /\ operator'.pc = "poll" /\ operator'.cursor = head
        /\ operator'.batch = operator.batch
    BY <1>3, <1>4, <2>1
  <2>3. QED
    BY <1>3, <1>5, <1>7, <2>2
<1>10. CASE Poll
  <2> DEFINE batch == {block \in operator.cursor .. head : logs[block] # NoLog}
  <2>1. operator' = [operator EXCEPT !.pc = "handle", !.batch = batch]
        /\ operator.pc = "poll"
    BY <1>10 DEF Poll
  <2>2. 1 <= operator.cursor /\ operator.cursor \in Nat
    BY <1>1, <1>4, <2>1 DEF OperatorOK
  <2>3. batch \subseteq Logged
    BY <1>3, <2>2
  <2> HIDE DEF batch
  <2>4. QED
    BY <1>4, <1>5, <1>7, <2>1, <2>2, <2>3
<1>11. CASE SkipLog \/ AnswerDone \/ AnswerFails
  <2>1. Rest \in SUBSET Nat /\ Rest \subseteq Logged
    BY <1>5 DEF Rest
  <2>2. /\ operator' \in OperatorType /\ operator'.pc = "handle"
        /\ operator'.cursor = operator.cursor /\ operator'.batch = Rest
        /\ operator.pc # "start"
    <3>1. CASE SkipLog
      <4>1. operator' = [operator EXCEPT !.batch = Rest] /\ operator.pc = "handle"
        BY <3>1 DEF SkipLog
      <4>2. QED
        BY <1>4, <2>1, <4>1
    <3>2. CASE AnswerDone \/ AnswerFails
      <4>1. operator' = [operator EXCEPT !.pc = "handle", !.batch = Rest]
            /\ operator.pc \in {"handle", "send", "receipt"}
        BY <3>2 DEF AnswerDone, AnswerFails
      <4>2. QED
        BY <1>4, <2>1, <4>1
    <3>3. QED
      BY <1>11, <3>1, <3>2
  <2>3. 1 <= operator.cursor
    BY <1>1, <2>2 DEF OperatorOK
  <2>4. QED
    BY <1>7, <2>1, <2>2, <2>3
<1>12. CASE NextPoll
  <2>1. operator' = [operator EXCEPT !.pc = "poll", !.cursor = head]
    BY <1>12 DEF NextPoll
  <2>2. /\ operator' \in OperatorType /\ operator'.pc = "poll" /\ operator'.cursor = head
        /\ operator'.batch = operator.batch
    BY <1>3, <1>4, <2>1
  <2>3. QED
    BY <1>3, <1>5, <1>7, <2>2
<1>13. QED
  BY <1>8, <1>9, <1>10, <1>11, <1>12

----------------------------------------------------------------------------
(* The two steps that send preserve the invariant.                         *)
LEMMA SendKeeps ==
    ASSUME StateOK, ChainOK, SentOK, NoncesOK, contract = "binding", UNCHANGED chainVars,
           NEW from \in Programs, NEW nonce \in Nat, NEW wire \in Wires,
           Accept(from, nonce, wire), Reached(nonce),
           CarriesCall([from |-> from, nonce |-> nonce, wire |-> wire, state |-> "pending"])
    PROVE  /\ sent' \in Seq(Transactions) /\ Len(sent') <= MaxSends /\ Len(sent) + 1 \in Nat
           /\ ChainOK' /\ SentOK' /\ NoncesOK'
           /\ \A n \in Nat : Reached(n) => Reached(n)'
           /\ \A tx : tx = Len(sent) + 1 => LastOf(from, tx)'
           /\ \A other \in Programs \ {from}, tx \in Nat :
                  LastOf(other, tx) => LastOf(other, tx)'
<1>1. Sends(from, nonce, wire) /\ nonce >= account
  BY AcceptSends DEF Accept
<1>2. UNCHANGED <<contract, tasks, answered, logs, account>>
  BY DEF chainVars
<1>3. SentOK' /\ NoncesOK' /\ \A n \in Nat : Reached(n) => Reached(n)'
  BY <1>1, <1>2, SendsSent, SendsNonces
<1>4. ChainOK'
  <2>1. MinedTx' = MinedTx
    BY <1>1, <1>2, SendsPending
  <2>2. QED
    BY <1>2, <2>1 DEF ChainOK, LogOK
<1>5. /\ \A tx : tx = Len(sent) + 1 => LastOf(from, tx)'
      /\ \A other \in Programs \ {from}, tx \in Nat :
             LastOf(other, tx) => LastOf(other, tx)'
  BY <1>1, <1>2, SendsLast
<1>6. sent' \in Seq(Transactions) /\ Len(sent') <= MaxSends /\ Len(sent) + 1 \in Nat
  BY <1>1, SentIs DEF Sends
<1>7. QED
  BY <1>3, <1>4, <1>5, <1>6

LEMMA StateSent ==
    ASSUME StateOK, UNCHANGED <<chainVars, ticks>>,
           sent' \in Seq(Transactions) /\ Len(sent') <= MaxSends,
           generator' \in [pc: {"sleep", "call", "send", "receipt"},
                           name: Names \cup {""}, nonce: Nat, tx: Nat],
           operator' \in [pc: {"start", "poll", "handle", "send", "receipt", "panicked"},
                          cursor: Nat, batch: SUBSET Nat, nonce: Nat, tx: Nat]
    PROVE  StateOK'
BY DEF StateOK, chainVars

LEMMA SendCallKeeps ==
    ASSUME TrafficInv, SendCall
    PROVE  TrafficInv'
<1>1. StateOK /\ ChainOK /\ SentOK /\ NoncesOK /\ GeneratorOK /\ OperatorOK
  BY DEF TrafficInv
<1>2. generator.pc = "send" /\ UNCHANGED <<chainVars, ticks, operator>>
  BY DEF SendCall
<1> DEFINE GeneratorType == [pc: {"sleep", "call", "send", "receipt"},
                             name: Names \cup {""}, nonce: Nat, tx: Nat]
<1>3. /\ generator \in GeneratorType
      /\ operator \in [pc: {"start", "poll", "handle", "send", "receipt", "panicked"},
                        cursor: Nat, batch: SUBSET Nat, nonce: Nat, tx: Nat]
      /\ ticks \in 0 .. MaxTicks
  BY <1>1 DEF StateOK
<1>4. CASE /\ Accept("generator", generator.nonce, NewTaskCall)
           /\ generator' = [generator EXCEPT !.pc = "receipt", !.tx = Len(sent) + 1]
  <2>1. generator' = [generator EXCEPT !.pc = "receipt", !.tx = Len(sent) + 1]
    BY <1>4
  <2>2. contract = "binding" /\ Reached(generator.nonce) /\ generator.name \in Names
    BY <1>1, <1>2 DEF GeneratorOK
  <2>3. PICK nonce \in Nat : nonce = generator.nonce
    BY <1>3
  <2>4. PICK wire \in Wires : wire = NewTaskCall
    BY <2>2 DEF NewTaskCall, Wires
  <2>5. CarriesCall([from |-> "generator", nonce |-> nonce, wire |-> wire, state |-> "pending"])
    BY <2>2, <2>4 DEF CarriesCall, NewTaskCall
  <2>6. /\ sent' \in Seq(Transactions) /\ Len(sent') <= MaxSends /\ Len(sent) + 1 \in Nat
        /\ ChainOK' /\ SentOK' /\ NoncesOK'
        /\ \A n \in Nat : Reached(n) => Reached(n)'
        /\ \A tx : tx = Len(sent) + 1 => LastOf("generator", tx)'
        /\ \A tx \in Nat : LastOf("operator", tx) => LastOf("operator", tx)'
    <3>1. PICK from \in Programs : from = "generator"
      BY DEF Programs
    <3>2. "operator" \in Programs \ {from}
      BY <3>1 DEF Programs
    <3>3. Accept(from, nonce, wire) /\ Reached(nonce)
          /\ CarriesCall([from |-> from, nonce |-> nonce, wire |-> wire, state |-> "pending"])
      BY <1>4, <2>2, <2>3, <2>4, <2>5, <3>1
    <3>4. /\ sent' \in Seq(Transactions) /\ Len(sent') <= MaxSends /\ Len(sent) + 1 \in Nat
          /\ ChainOK' /\ SentOK' /\ NoncesOK'
          /\ \A n \in Nat : Reached(n) => Reached(n)'
          /\ \A tx : tx = Len(sent) + 1 => LastOf(from, tx)'
          /\ \A other \in Programs \ {from}, tx \in Nat :
                 LastOf(other, tx) => LastOf(other, tx)'
      BY <1>1, <1>2, <2>2, <3>3, SendKeeps
    <3>5. QED
      BY <3>1, <3>2, <3>4
  <2>7. generator' \in GeneratorType /\ generator'.pc = "receipt"
        /\ generator'.tx = Len(sent) + 1
    BY <1>3, <2>1, <2>6
  <2>8. GeneratorOK'
    BY <2>6, <2>7 DEF GeneratorOK, Waiting
  <2>9. OperatorOK'
    BY <1>1, <1>2, <1>3, <2>6 DEF OperatorOK, Waiting, chainVars, NextLog, IsNewTask
  <2>10. StateOK'
    BY <1>1, <1>2, <1>3, <2>6, <2>7, StateSent
  <2>11. QED
    BY <2>6, <2>8, <2>9, <2>10 DEF TrafficInv
<1>5. CASE generator' = [generator EXCEPT !.pc = "sleep"] /\ UNCHANGED sent
  <2>1. generator' \in GeneratorType /\ generator'.pc = "sleep"
    BY <1>3, <1>5
  <2>2. GeneratorOK'
    BY <2>1 DEF GeneratorOK, Waiting
  <2>3. ChainOK' /\ SentOK' /\ NoncesOK' /\ OperatorOK'
    BY <1>1, <1>2, <1>5, Quiet, OperatorKeptBy
  <2>4. StateOK'
    BY <1>1, <1>2, <1>3, <1>5, <2>1, StateKept
  <2>5. QED
    BY <2>2, <2>3, <2>4 DEF TrafficInv
<1>6. QED
  BY <1>4, <1>5 DEF SendCall

LEMMA SendAnswerKeeps ==
    ASSUME TrafficInv, SendAnswer
    PROVE  TrafficInv'
<1>1. StateOK /\ ChainOK /\ SentOK /\ NoncesOK /\ GeneratorOK /\ OperatorOK
  BY DEF TrafficInv
<1>2. operator.pc = "send" /\ UNCHANGED <<chainVars, ticks, generator>>
  BY DEF SendAnswer
<1> DEFINE OperatorType == [pc: {"start", "poll", "handle", "send", "receipt", "panicked"},
                            cursor: Nat, batch: SUBSET Nat, nonce: Nat, tx: Nat]
           Logged == {block \in DOMAIN logs : logs[block] # NoLog}
<1>3. /\ operator \in OperatorType
      /\ generator \in [pc: {"sleep", "call", "send", "receipt"},
                         name: Names \cup {""}, nonce: Nat, tx: Nat]
      /\ ticks \in 0 .. MaxTicks
  BY <1>1 DEF StateOK
<1>4. /\ operator.batch # {} /\ IsNewTask(NextLog) /\ Reached(operator.nonce)
      /\ 1 <= operator.cursor /\ operator.batch \subseteq Logged
  BY <1>1, <1>2 DEF OperatorOK
<1>5. UNCHANGED <<contract, logs>>
  BY <1>2 DEF chainVars
<1>6. CASE /\ Accept("operator", operator.nonce, AnswerCall)
           /\ operator' = [operator EXCEPT !.pc = "receipt", !.tx = Len(sent) + 1]
  <2>1. operator' = [operator EXCEPT !.pc = "receipt", !.tx = Len(sent) + 1]
    BY <1>6
  <2>2. PICK i \in 1 .. Len(tasks) : AnswerCall = AnswerTo(tasks[i], i - 1)
    BY <1>4, NextLogRead
  <2>3. contract = "binding"
    <3>1. tasks # <<>>
      BY <1>1, <2>2, TasksIs
    <3>2. QED
      BY <1>1, <3>1 DEF ChainOK, StateOK
  <2>4. PICK nonce \in Nat : nonce = operator.nonce
    BY <1>3
  <2>5. PICK wire \in Wires : wire = AnswerCall
    BY <1>1, <2>2, <2>3, AnswerWire
  <2>6. CarriesCall([from |-> "operator", nonce |-> nonce, wire |-> wire, state |-> "pending"])
    BY <2>2, <2>5 DEF CarriesCall
  <2>7. /\ sent' \in Seq(Transactions) /\ Len(sent') <= MaxSends /\ Len(sent) + 1 \in Nat
        /\ ChainOK' /\ SentOK' /\ NoncesOK'
        /\ \A n \in Nat : Reached(n) => Reached(n)'
        /\ \A tx : tx = Len(sent) + 1 => LastOf("operator", tx)'
        /\ \A tx \in Nat : LastOf("generator", tx) => LastOf("generator", tx)'
    <3>1. PICK from \in Programs : from = "operator"
      BY DEF Programs
    <3>2. "generator" \in Programs \ {from}
      BY <3>1 DEF Programs
    <3>3. Accept(from, nonce, wire) /\ Reached(nonce)
          /\ CarriesCall([from |-> from, nonce |-> nonce, wire |-> wire, state |-> "pending"])
      BY <1>4, <1>6, <2>4, <2>5, <2>6, <3>1
    <3>4. /\ sent' \in Seq(Transactions) /\ Len(sent') <= MaxSends /\ Len(sent) + 1 \in Nat
          /\ ChainOK' /\ SentOK' /\ NoncesOK'
          /\ \A n \in Nat : Reached(n) => Reached(n)'
          /\ \A tx : tx = Len(sent) + 1 => LastOf(from, tx)'
          /\ \A other \in Programs \ {from}, tx \in Nat :
                 LastOf(other, tx) => LastOf(other, tx)'
      BY <1>1, <1>2, <2>3, <3>3, SendKeeps
    <3>5. QED
      BY <3>1, <3>2, <3>4
  <2>8. /\ operator' \in OperatorType /\ operator'.pc = "receipt"
        /\ operator'.tx = Len(sent) + 1 /\ operator'.batch = operator.batch
        /\ operator'.cursor = operator.cursor
    BY <1>3, <2>1, <2>7
  <2>9. OperatorOK'
    BY <1>4, <1>5, <2>7, <2>8 DEF OperatorOK, Waiting
  <2>10. GeneratorOK'
    BY <1>1, <1>2, <1>3, <1>5, <2>7 DEF GeneratorOK, Waiting
  <2>11. StateOK'
    BY <1>1, <1>2, <1>3, <2>7, <2>8, StateSent
  <2>12. QED
    BY <2>7, <2>9, <2>10, <2>11 DEF TrafficInv
<1>7. CASE operator' = [operator EXCEPT !.pc = "handle", !.batch = Rest] /\ UNCHANGED sent
  <2>1. Rest \subseteq operator.batch
    BY DEF Rest
  <2>2. /\ operator' \in OperatorType /\ operator'.pc = "handle"
        /\ operator'.batch \subseteq Logged /\ operator'.cursor = operator.cursor
    BY <1>3, <1>4, <1>7, <2>1
  <2>3. OperatorOK'
    BY <1>4, <1>5, <2>2 DEF OperatorOK, Waiting
  <2>4. ChainOK' /\ SentOK' /\ NoncesOK' /\ GeneratorOK'
    BY <1>1, <1>2, <1>7, Quiet, GeneratorKeptBy
  <2>5. StateOK'
    BY <1>1, <1>2, <1>3, <1>7, <2>2, StateKept
  <2>6. QED
    BY <2>3, <2>4, <2>5 DEF TrafficInv
<1>8. QED
  BY <1>6, <1>7 DEF SendAnswer

----------------------------------------------------------------------------
(* TrafficInv holds throughout.                                            *)
LEMMA TrafficInit == Init => TrafficInv
<1> SUFFICES ASSUME Init PROVE TrafficInv
  OBVIOUS
<1>1. sent = <<>> /\ tasks = <<>> /\ account = 0 /\ answered = {} /\ logs = <<NoLog>>
  BY DEF Init
<1>2. StateOK
  <2>1. /\ <<>> \in Seq(Transactions) /\ <<>> \in Seq(Tasks)
        /\ <<NoLog>> \in Seq(Logs) /\ Len(<<NoLog>>) = 1
    BY DEF Logs
  <2>2. Len(<<>>) = 0
    OBVIOUS
  <2>3. sent \in Seq(Transactions) /\ Len(sent) = 0 /\ Len(sent) <= MaxSends
    BY <1>1, <2>1, <2>2, TrafficAssumption
  <2>4. /\ generator \in [pc: {"sleep", "call", "send", "receipt"},
                           name: Names \cup {""}, nonce: Nat, tx: Nat]
        /\ operator \in [pc: {"start", "poll", "handle", "send", "receipt", "panicked"},
                          cursor: Nat, batch: SUBSET Nat, nonce: Nat, tx: Nat]
    BY DEF Init
  <2>5. contract \in {"binding", "repository"} /\ ticks \in 0 .. MaxTicks
    <3>1. contract \in {"binding", "repository"} /\ ticks = 0
      BY TrafficAssumption DEF Init, AllContracts
    <3>2. QED
      BY <3>1, TrafficAssumption
  <2>6. /\ account \in Nat /\ account + 1 = Len(logs) /\ logs \in Seq(Logs)
        /\ tasks \in Seq(Tasks) /\ answered \subseteq 0 .. Len(tasks) - 1
    BY <1>1, <2>1
  <2>7. QED
    BY <2>3, <2>4, <2>5, <2>6 DEF StateOK
<1>3. DOMAIN sent = {} /\ DOMAIN logs = {1} /\ logs[1] = NoLog /\ Len(tasks) = 0
  <2>1. DOMAIN sent = {} /\ Len(tasks) = 0
    BY <1>1
  <2>2. DOMAIN logs = {1} /\ logs[1] = NoLog
    BY <1>1
  <2>3. QED
    BY <2>1, <2>2
<1>4. ChainOK
  <2>1. MinedTx = {}
    BY <1>3 DEF MinedTx
  <2>2. QED
    BY <1>1, <1>3, <2>1, FS_EmptySet DEF ChainOK, LogOK
<1>5. SentOK /\ NoncesOK
  BY <1>3 DEF SentOK, NoncesOK, PendingTx
<1>6. GeneratorOK /\ OperatorOK
  BY DEF Init, GeneratorOK, OperatorOK, Waiting
<1>7. QED
  BY <1>2, <1>4, <1>5, <1>6 DEF TrafficInv

LEMMA TrafficStutters ==
    ASSUME TrafficInv, UNCHANGED vars
    PROVE  TrafficInv'
<1>1. UNCHANGED <<chainVars, sent, ticks, generator, operator>>
  BY DEF vars
<1>2. StateOK' /\ ChainOK' /\ SentOK' /\ NoncesOK'
  <2>1. StateOK'
    BY <1>1 DEF TrafficInv, StateOK, chainVars
  <2>2. QED
    BY <1>1, <2>1, Quiet DEF TrafficInv
<1>3. GeneratorOK' /\ OperatorOK'
  BY <1>1, GeneratorKeptBy, OperatorKeptBy
<1>4. QED
  BY <1>2, <1>3 DEF TrafficInv

LEMMA TrafficNext == TrafficInv /\ [Next]_vars => TrafficInv'
<1> SUFFICES ASSUME TrafficInv, [Next]_vars PROVE TrafficInv'
  OBVIOUS
<1>1. ASSUME NEW k \in DOMAIN sent, Mine(k) PROVE TrafficInv'
  BY <1>1, MineKeeps
<1>2. ASSUME NEW name \in Names, Tick(name) PROVE TrafficInv'
  <2>1. UNCHANGED <<chainVars, sent, operator>>
    BY <1>2 DEF Tick
  <2>2. QED
    BY <1>2, <2>1, GeneratorSteps
<1>3. ASSUME NEW nonce \in NonceNow, FillCall(nonce) PROVE TrafficInv'
  <2>1. UNCHANGED <<chainVars, sent, operator>>
    BY <1>3 DEF FillCall
  <2>2. QED
    BY <1>3, <2>1, GeneratorSteps
<1>4. CASE CallDone \/ CallFails
  <2>1. UNCHANGED <<chainVars, sent, operator>>
    BY <1>4 DEF CallDone, CallFails
  <2>2. QED
    BY <1>4, <2>1, GeneratorSteps
<1>5. ASSUME NEW nonce \in NonceNow, FillAnswer(nonce) PROVE TrafficInv'
  <2>1. UNCHANGED <<chainVars, sent, ticks, generator>>
    BY <1>5 DEF FillAnswer
  <2>2. QED
    BY <1>5, <2>1, OperatorSteps
<1>6. CASE StartMonitor \/ Poll \/ SkipLog \/ AnswerDone \/ AnswerFails \/ NextPoll
  <2>1. UNCHANGED <<chainVars, sent, ticks, generator>>
    BY <1>6 DEF StartMonitor, Poll, SkipLog, AnswerDone, AnswerFails, NextPoll
  <2>2. QED
    BY <1>6, <2>1, OperatorSteps
<1>7. CASE SendCall
  BY <1>7, SendCallKeeps
<1>8. CASE SendAnswer
  BY <1>8, SendAnswerKeeps
<1>9. CASE UNCHANGED vars
  BY <1>9, TrafficStutters
<1>10. QED
  BY <1>1, <1>2, <1>3, <1>4, <1>5, <1>6, <1>7, <1>8, <1>9 DEF Next

LEMMA TrafficInvariant == Spec => []TrafficInv
BY TrafficInit, TrafficNext, PTL DEF Spec

----------------------------------------------------------------------------
(* The types, and the nonces of the pending transactions: one each, with   *)
(* none left out, whatever nonces the node answered the two programs with. *)
LEMMA TrafficTyped == TrafficInv => TypeOK
<1> SUFFICES ASSUME TrafficInv PROVE TypeOK
  OBVIOUS
<1>1. StateOK /\ SentOK /\ NoncesOK
  BY DEF TrafficInv
<1>2. /\ tasks \in Seq(Tasks) /\ answered \subseteq 0 .. Len(tasks) - 1
      /\ account + 1 = Len(logs) /\ account \in Nat /\ ticks \in 0 .. MaxTicks
      /\ generator.pc \in {"sleep", "call", "send", "receipt"}
      /\ operator.pc \in {"start", "poll", "handle", "send", "receipt", "panicked"}
  BY <1>1 DEF StateOK
<1>3. ASSUME NEW k \in DOMAIN sent
      PROVE  /\ sent[k].from \in {"generator", "operator"}
             /\ sent[k].state \in {"pending", "mined", "replaced"}
             /\ sent[k].state = "mined" <=> sent[k].nonce < account /\ sent[k].state # "replaced"
  <2>1. /\ sent[k].from \in Programs /\ sent[k].state \in States /\ sent[k].nonce \in Nat
    BY <1>1, SentIs DEF Transactions
  <2>2. /\ sent[k].state = "mined" => sent[k].nonce < account
        /\ sent[k].state = "pending" => account <= sent[k].nonce
    BY <1>1 DEF SentOK
  <2>3. QED
    BY <1>2, <2>1, <2>2 DEF Programs, States
<1>4. ASSUME NEW nonce PROVE Cardinality(PendingAt(nonce)) <= 1
  <2>1. \A k, l \in PendingAt(nonce) : k = l
    BY <1>1 DEF NoncesOK, PendingAt, PendingTx
  <2>2. CASE PendingAt(nonce) = {}
    BY <2>2, FS_EmptySet
  <2>3. CASE PendingAt(nonce) # {}
    <3>1. PICK k : PendingAt(nonce) = {k}
      BY <2>1, <2>3
    <3>2. QED
      BY <3>1, FS_Singleton
  <2>4. QED
    BY <2>2, <2>3
<1>5. ASSUME NEW k \in DOMAIN sent, sent[k].state = "pending",
             NEW nonce \in account .. sent[k].nonce
      PROVE  PendingAt(nonce) # {}
  <2>1. sent[k].nonce \in Nat /\ Reached(sent[k].nonce)
    BY <1>1, <1>5, SentIs DEF NoncesOK, PendingTx, Transactions
  <2>2. CASE nonce = sent[k].nonce
    BY <1>5, <2>2 DEF PendingAt
  <2>3. CASE nonce # sent[k].nonce
    BY <1>2, <2>1, <2>3 DEF Reached
  <2>4. QED
    BY <2>2, <2>3
<1>6. QED
  BY <1>2, <1>3, <1>4, <1>5 DEF TypeOK

(* The types of the traffic: TypeOK holds throughout, and with it that the *)
(* account's pending transactions have the nonces that follow the chain's, *)
(* one each and with no gap the chain would wait for.                      *)
THEOREM TypeCorrect == Spec => []TypeOK
BY TrafficInvariant, TrafficTyped, PTL

(* Through the event, the decoder of the operator, its call and the        *)
(* contract goes the task the contract keeps: TasksGoRoundUnchanged, the   *)
(* operator's expect (start_operator.rs:108) never panics and an answer    *)
(* that is mined is of a task that counts as answered.                     *)
THEOREM TasksGoRound == Spec => []TasksGoRoundUnchanged
<1>1. TrafficInv => TasksGoRoundUnchanged
  <2> SUFFICES ASSUME TrafficInv PROVE TasksGoRoundUnchanged
    OBVIOUS
  <2>1. ASSUME NEW k \in DOMAIN sent, sent[k].from = "operator", sent[k].state = "mined"
        PROVE  sent[k].wire.data[2][2] \in answered
    <3>1. PICK i \in 1 .. Len(tasks) :
              sent[k].wire = AnswerTo(tasks[i], i - 1) /\ i - 1 \in answered
      BY <2>1 DEF TrafficInv, SentOK, CarriesCall
    <3>2. contract = "binding"
      <4>1. sent # <<>>
        BY SentIs DEF TrafficInv
      <4>2. QED
        BY <4>1 DEF TrafficInv, ChainOK, StateOK
    <3>3. sent[k].wire.data[2][2] = i - 1
      BY <3>1, <3>2, AnswerWire DEF TrafficInv
    <3>4. QED
      BY <3>1, <3>3
  <2>2. QED
    BY <2>1 DEF TasksGoRoundUnchanged, TrafficInv, OperatorOK
<1>2. QED
  BY <1>1, TrafficInvariant, PTL

(* The two programs share an account, and one may replace the transaction  *)
(* the other waits for: AtMostOneStuck, they never both wait for ever.     *)
(* What replaced a transaction came later, and either waits for the last   *)
(* it has sent: of two that are replaced, each would have to come later.   *)
THEOREM OneProgramGoesOn == Spec => []AtMostOneStuck
<1>1. TrafficInv => AtMostOneStuck
  <2> SUFFICES ASSUME TrafficInv, Stuck(generator), Stuck(operator) PROVE FALSE
    BY DEF AtMostOneStuck
  <2>1. LastOf("generator", generator.tx) /\ LastOf("operator", operator.tx)
    BY DEF TrafficInv, GeneratorOK, OperatorOK, Stuck
  <2>2. /\ \E l \in DOMAIN sent : generator.tx < l
        /\ \E l \in DOMAIN sent : operator.tx < l
    BY <2>1 DEF TrafficInv, SentOK, Stuck, LastOf
  <2>3. /\ DOMAIN sent = 1 .. Len(sent) /\ Len(sent) \in Nat
        /\ \A l \in DOMAIN sent : sent[l].from \in {"generator", "operator"}
    BY SentIs DEF TrafficInv, Transactions, Programs
  <2>4. QED
    BY <2>1, <2>2, <2>3 DEF LastOf
<1>2. QED
  BY <1>1, TrafficInvariant, PTL
=============================================================================
