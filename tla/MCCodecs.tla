------------------------------ MODULE MCCodecs ------------------------------
(***************************************************************************)
(* Conversions for TLC.  An object of the ledger's types is written, its   *)
(* encoding is perhaps replaced by one that another program would write,   *)
(* the encoding is read back and what was read is written again.  A datum  *)
(* is also written to JSON, and read as RawPlutusData; an identifier is    *)
(* written as text or as bytes.                                            *)
(***************************************************************************)
EXTENDS Serialization, LedgerTypes, PlutusDatum, Identifiers

VARIABLES
  own,     \* the encoding of object
  kind     \* how wire differs from own

vars == <<type, object, own, wire, kind, got, again, phase>>

-----------------------------------------------------------------------------
(* Examples of a type: a first one, and all that differ from it in one place. *)

RECURSIVE Examples(_, _)
First(t) == CHOOSE x \in Examples(t, FALSE) : TRUE
All(t) == Examples(t, TRUE)

B(size, id) == [bytes |-> <<size, id>>]
Obj(name, f) == [obj |-> name, fields |-> f]
SetOf(s, tagged) == [set |-> s, tagged |-> tagged, indef |-> FALSE]
SizeOf(c) == IF c.shape = "hash" THEN Max(c.sizes) ELSE 40

Empty == Obj("MultiAsset", <<>>)
Tokens(n) == Obj("MultiAsset", <<<<Obj("ScriptHash", <<B(28, 1)>>),
                                   Obj("Asset", <<<<Obj("AssetName", <<B(3, 1)>>), [int |-> n]>>>>)>>>>)
Lovelace(n) == Obj("Value", <<[int |-> n], Empty>>)

Datums == {Nil, [int |-> 0], [int |-> 7], B(3, 1)}
Outputs ==
  {Obj("TransactionOutput", <<Obj("Address", <<B(57, 1)>>), v, h, d, s, [bool |-> p]>>) :
     v \in {Lovelace(5), Obj("Value", <<[int |-> 5], Tokens(2)>>), Obj("Value", <<[int |-> 5], Tokens(0)>>),
            Lovelace(-1)},
     h \in {Nil, Obj("DatumHash", <<B(32, 1)>>)}, d \in Datums,
     s \in {Nil, Obj("PlutusV2Script", <<B(40, 1)>>), First(Cls("NativeScript"))}, p \in BOOLEAN}

FirstFields(fields) == [i \in 1..Len(fields) |-> First(fields[i].type)]
OneOther(fields) ==
  LET first == FirstFields(fields)
  IN  UNION {{[first EXCEPT ![i] = v] : v \in All(fields[i].type)} : i \in 1..Len(fields)}

\* A body and a witness set have examples of their own.
Transactions ==
  LET f == Classes["Transaction"].fields
      first == FirstFields(f)
  IN  {Obj("Transaction", <<first[1], first[2], v, a>>) : v \in All(f[3].type), a \in All(f[4].type)}

TwoKeys(k, l, v) ==
  IF Sorted(<<<<ToPrimitive(k), 1>>, <<ToPrimitive(l), 2>>>>)[1][2] = 1 THEN <<<<k, v>>, <<l, v>>>>
  ELSE <<<<l, v>>, <<k, v>>>>

FirstOfClass(name, c) ==
  CASE c.shape \in {"hash", "raw"} -> Obj(name, <<B(SizeOf(c), 1)>>)
    [] c.shape = "text" -> Obj(name, <<[str |-> CHOOSE x \in c.texts : TRUE]>>)
    [] c.shape = "enum" -> Obj(name, <<[int |-> Min(c.among)]>>)
    [] c.shape \in {"variant", "script"} ->
         LET k == Min(DOMAIN c.variants)
         IN  [obj |-> name, variant |-> k, fields |-> FirstFields(c.variants[k])]
    [] c.shape = "dict" ->
         Obj(name, IF c.hashable THEN <<<<First(c.key), First(c.value)>>>> ELSE <<>>)
    [] c.shape = "eras" -> Obj(name, <<First(c.eras[1])>>)
    [] c.shape = "output" ->
         Obj(name, <<Obj("Address", <<B(57, 1)>>), Lovelace(5), Nil, [int |-> 7], Nil, [bool |-> FALSE]>>)
    [] OTHER -> Obj(name, FirstFields(c.fields))

AllOfClass(name, c) ==
  CASE c.shape = "hash" -> {Obj(name, <<B(n, 1)>>) : n \in c.sizes \ 2..31} \cup {Obj(name, <<B(SizeOf(c), 2)>>)}
    [] c.shape = "enum" -> {Obj(name, <<[int |-> n]>>) : n \in c.among}
    [] c.shape \in {"raw", "text"} -> {FirstOfClass(name, c)}
    [] c.shape \in {"variant", "script"} ->
         UNION {{[obj |-> name, variant |-> k, fields |-> f] :
                   f \in OneOther(c.variants[k]) \cup {FirstFields(c.variants[k])}} : k \in DOMAIN c.variants}
    [] c.shape = "dict" ->
         {FirstOfClass(name, c), Obj(name, <<>>)}
         \cup (IF c.hashable THEN {Obj(name, <<<<k, First(c.value)>>>>) : k \in All(c.key)}
                                   \cup {Obj(name, <<<<First(c.key), v>>>>) : v \in All(c.value)}
                                   \cup {Obj(name, TwoKeys(First(c.key), k, First(c.value))) :
                                           k \in All(c.key) \ {First(c.key)}}
               ELSE {})
    [] c.shape = "eras" -> UNION {{Obj(name, <<d>>) : d \in All(c.eras[i])} : i \in 1..Len(c.eras)}
    [] c.shape = "output" -> Outputs
    [] name = "Transaction" -> Transactions
    [] OTHER -> {Obj(name, f) : f \in OneOther(c.fields) \cup {FirstFields(c.fields)}}

FirstOf(t) ==
  CASE Is(t, "any") -> [int |-> 7]
    [] Is(t, "prim") ->
         CHOOSE v \in {[int |-> 5], B(29, 1), [str |-> "a"], [frac |-> 1], [bool |-> TRUE], Nil} : Is(v, t.prim)
    [] Is(t, "class") -> FirstOfClass(t.class, Classes[t.class])
    [] Is(t, "list") -> ListOf(<<First(t.list)>>)
    [] Is(t, "hook") -> ListOf(IF t.hook = "NativeScript" THEN <<>> ELSE <<First(Cls(t.hook))>>)
    [] Is(t, "set") -> SetOf(<<First(t.set)>>, TRUE)
    [] Is(t, "union") -> IF Is(t.union[1], "other") THEN Nil ELSE First(t.union[1])
    [] Is(t, "among") -> [int |-> 0]
    [] Is(t, "host") -> [ip |-> <<t.host, 1>>]
    [] Is(t, "other") ->
         CASE t.other = "Dict" -> [map |-> <<<<[int |-> 0], [int |-> 1]>>>>]
           [] t.other = "Version" -> ListOf(<<[int |-> 10], [int |-> 0]>>)
           [] t.other = "Tuple" -> ListOf(<<First(Cls("Anchor")), Nil>>)

AllOf(t) ==
  CASE Is(t, "prim") /\ t.prim = "int" -> {[int |-> 0], [int |-> 5]}
    [] Is(t, "prim") /\ t.prim = "bool" -> {[bool |-> b] : b \in BOOLEAN}
    [] Is(t, "prim") /\ t.prim = "str" -> {[str |-> "a"], [int |-> 5]}  \* the second of a wrong type
    [] Is(t, "class") -> AllOfClass(t.class, Classes[t.class])
    [] Is(t, "list") -> {ListOf(<<>>)} \cup {ListOf(<<v>>) : v \in All(t.list)}
    [] Is(t, "hook") -> {ListOf(<<>>)} \cup IF t.hook = "NativeScript" THEN {ListOf(<<First(Cls(t.hook))>>)}
                                            ELSE {ListOf(<<v>>) : v \in All(Cls(t.hook))}
    [] Is(t, "set") ->
         {SetOf(<<v>>, b) : v \in All(t.set), b \in BOOLEAN} \cup {SetOf(<<>>, TRUE)}
         \cup {SetOf(<<First(t.set), v>>, TRUE) : v \in All(t.set) \ {First(t.set)}}
    [] Is(t, "union") -> UNION {All(t.union[i]) : i \in 1..Len(t.union)}
    [] Is(t, "among") -> {[int |-> n] : n \in {m \in {0, 2, 65535} : m \in t.among}}
    [] Is(t, "host") -> {[ip |-> <<t.host, 1>>], Nil}
    [] OTHER -> {First(t)}

Examples(t, all) == IF all THEN AllOf(t) ELSE {FirstOf(t)}

Types == {Certificate, GovAction, Relay, Cls("AuxiliaryData"), Cls("ProposalProcedure"),
          Cls("VotingProcedures"), Cls("TransactionOutput"), Cls("TransactionBody"),
          Cls("TransactionWitnessSet"), Cls("Transaction")}

\* RegDRepCert, which is not in the union, is written where a certificate may be.
WrittenAs(t) == {t} \cup (IF t = Certificate THEN {Cls("RegDRepCert")} ELSE {})

-----------------------------------------------------------------------------
(* Encodings that another program may write: <<how it differs, the encoding>> *)

RECURSIVE Variants(_)
Variants(w) ==
  LET Inside(s, With(_)) ==
        UNION {{<<v[1], With([s EXCEPT ![i] = v[2]])>> : v \in Variants(s[i])} : i \in 1..Len(s)}
  IN
  CASE Is(w, "list") ->
         {<<"indefinite", [ilist |-> w.list]>>, <<"longer", ListOf(Append(w.list, [int |-> 99]))>>}
         \cup (IF w.list = <<>> THEN {} ELSE {<<"shorter", ListOf(Front(w.list))>>})
         \cup Inside(w.list, ListOf)
    [] Is(w, "map") ->
         (IF Len(w.map) > 1 THEN {<<"reversed", [map |-> Reverse(w.map)]>>} ELSE {})
         \cup UNION {{<<v[1], [map |-> [w.map EXCEPT ![i][2] = v[2]]]>> : v \in Variants(w.map[i][2])} :
                       i \in 1..Len(w.map)}
    [] Is(w, "tag") -> {<<"untagged", w.of>>} \cup {<<v[1], [w EXCEPT !.of = v[2]]>> : v \in Variants(w.of)}
    [] OTHER -> {}

-----------------------------------------------------------------------------
(* Datums: classes with the constructors where tags change, and values of their fields *)

MCDatumClasses ==
  LET Class(id, fields) == [constr |-> id, fields |-> fields]
  IN  "Unit" :> Class(0, <<>>) @@ "Pair" :> Class(6, <<Integer, Bytes>>)
      @@ "Nested" :> Class(7, <<[class |-> "Pair"]>>)
      @@ "Many" :> Class(127, <<[list |-> [class |-> "Pair"]], [list |-> Integer]>>)
      @@ "Book" :> Class(128, <<[dict |-> <<Integer, [class |-> "Unit"]>>], [bstr |-> TRUE]>>)
      @@ "Void" :> Class(200, <<>>)
      @@ "Choice" :> Class(1000, <<[union |-> <<[class |-> "Unit"], [class |-> "Pair"], [class |-> "Void"]>>]>>)
      @@ "Either" :> Class(2, <<[union |-> <<Integer, [class |-> "Unit"]>>]>>)
      @@ "Open" :> Class(1, <<[datum |-> TRUE], [indef |-> TRUE]>>)

PairOf(n) == [plutus |-> "Pair", fields |-> <<[int |-> 1], [bytes |-> <<n, 1>>]>>]
TagOf(of) == [tag |-> 121, of |-> of]

RECURSIVE DatumsOf(_)
DatumsOf(t) ==
  CASE Is(t, "prim") -> IF t.prim = "int" THEN {[int |-> 1]} ELSE {[bytes |-> <<n, 1>>] : n \in {3, 40}}
    [] Is(t, "bstr") -> {[bstr |-> <<n, 1>>] : n \in {3, 40, 70}}
    [] Is(t, "list") -> {ListOf(<<>>)} \cup {ListOf(<<d, d>>) : d \in DatumsOf(t.list)}
                        \cup {[ilist |-> <<d>>] : d \in DatumsOf(t.list)}
    [] Is(t, "dict") -> {[map |-> <<>>]} \cup {[map |-> <<<<k, v>>>>] : k \in DatumsOf(t.dict[1]), v \in DatumsOf(t.dict[2])}
    [] Is(t, "union") -> UNION {DatumsOf(t.union[i]) : i \in 1..Len(t.union)}
    [] Is(t, "indef") -> {[ilist |-> <<>>], [ilist |-> <<[int |-> 1], PairOf(3)>>], [ilist |-> <<ListOf(<<[int |-> 1]>>)>>]}
    [] Is(t, "datum") ->
         {[int |-> 1], [bytes |-> <<3, 1>>], [ilist |-> <<[int |-> 1]>>], [map |-> <<<<[int |-> 1], PairOf(3)>>>>],
          PairOf(3), PairOf(40), ListOf(<<[int |-> 1]>>), [raw |-> TagOf([ilist |-> <<[int |-> 1]>>])],
          [raw |-> TagOf(ListOf(<<[int |-> 1]>>))], [raw |-> [bytes |-> <<70, 1>>]]}
    [] Is(t, "class") ->
         LET f == DatumClasses[t.class].fields
             with == IF f = <<>> THEN {<<>>} ELSE IF Len(f) = 1 THEN {<<a>> : a \in DatumsOf(f[1])}
                     ELSE {<<a, b>> : a \in DatumsOf(f[1]), b \in DatumsOf(f[2])}
         IN  {[plutus |-> t.class, fields |-> v] : v \in with}

\* The encoding of a program that writes definite lists.
RECURSIVE Definite(_)
Definite(w) ==
  CASE IsList(w) -> ListOf(Each(Items(w), Definite))
    [] Is(w, "map") -> [map |-> EachPair(w.map, Definite)]
    [] Is(w, "tag") -> [w EXCEPT !.of = Definite(w.of)]
    [] OTHER -> w

-----------------------------------------------------------------------------
(* Identifiers, with numbers around the limits of their bytes *)

MCDigests == {[i \in 1..HashSize |-> 0], [i \in 1..HashSize |-> i],
              [i \in 1..HashSize |-> IF i = 1 THEN 255 ELSE IF i = HashSize THEN 128 ELSE 5]}
MCNumbers == {0, 127, 128, 16383, 16384, 2097152}
MCIndexes == {0, 15, 16, 255, 256, 4095, 4096, 65535}

\* The second and third begin like an address with a pointer.
MCTxIds == {[i \in 1..TxIdSize |-> 0]} \cup
           {[i \in 1..TxIdSize |-> IF i = 1 THEN n ELSE IF i = 30 THEN 129 ELSE 1] : n \in {64, 81}}

Digest == [i \in 1..HashSize |-> i]
PointerBytes == <<64>> \o Digest \o EncodePointer(<<0, 128, 127>>)

\* Bytes of every header and of some wrong sizes, and pointers that are padded,
\* unfinished, or both.
OtherShelley ==
  {<<h>> \o s : h \in 0..255, s \in {Digest, Digest \o Digest, Tail(PointerBytes), <<>>}}
  \cup {Append(<<h>> \o Digest, 0) : h \in {1, 97, 240}} \cup {<<h>> \o Tail(Digest) : h \in {0, 65, 96, 225}}
  \cup {<<>>, Append(PointerBytes, 129), <<64>> \o Digest \o <<128, 0, 1, 2>>, <<81>> \o Digest \o <<1, 128, 129, 0, 2, 128>>}

OtherByron ==
  LET p == ByronPayload(Digest, "testnet", 0)
      Wire(q) == [form |-> "array", arity |-> 2, tag |-> 24, payload |-> q, crc |-> Crc32(q)]
  IN  {Wire([p EXCEPT !.canonical = FALSE]), Wire([p EXCEPT !.type = 1]), Wire([p EXCEPT !.hash = Tail(@)]),
       Wire([p EXCEPT !.attrs = "list"]), Wire([p EXCEPT !.arity = 2]), Wire([p EXCEPT !.type = 2])}
      \cup {[Wire(p) EXCEPT !.arity = n] : n \in {1, 3}}
      \cup {[Wire(p) EXCEPT !.tag = 25], [Wire(p) EXCEPT !.payload.type = 2]}

MCOtherBytes == {Octets(s) : s \in OtherShelley} \cup OtherByron

-----------------------------------------------------------------------------
Init ==
  /\ \/ /\ phase = "object"
        /\ type \in Types
        /\ \E t \in WrittenAs(type) : object \in All(t)
        /\ wire = Nil /\ got = Nil /\ again = Nil
     \/ /\ phase = "datum"
        /\ type \in [datum : DOMAIN DatumClasses, raw : BOOLEAN]
        /\ object \in DatumsOf([class |-> type.datum])
        /\ wire = Nil /\ got = Nil /\ again = Nil
     \/ IdInit
     \/ OtherInit
  /\ own = Nil
  /\ kind = "own"

Write ==
  /\ phase = "object" /\ phase' = "written"
  /\ own' = ToPrimitive(object) /\ wire' = own'
  /\ UNCHANGED <<type, object, kind, got, again>>

\* Only for the first example of the types with many.
Tamper ==
  /\ phase = "written" /\ kind = "own"
  /\ type \notin {Certificate, GovAction, Relay, Cls("AuxiliaryData")} => object = First(type)
  /\ \E v \in Variants(own) : kind' = v[1] /\ wire' = v[2]
  /\ UNCHANGED <<type, object, own, got, again, phase>>

Read ==
  /\ phase = "written" /\ phase' = "read"
  /\ got' = Restore(type, wire)
  /\ UNCHANGED <<type, object, own, wire, kind, again>>

Rewrite ==
  /\ phase = "read" /\ ~Failed(got) /\ phase' = "rewritten"
  /\ again' = ToPrimitive(got.ok)
  /\ UNCHANGED <<type, object, own, wire, kind, got>>

WriteDatum ==
  /\ phase = "datum" /\ phase' = "datum written"
  /\ own' = ToCbor(object)
  /\ \/ kind' = "own" /\ wire' = own'
     \/ kind' = "definite" /\ wire' = Definite(own')
     \/ kind' = "json" /\ wire' = ToJson(object)
  /\ UNCHANGED <<type, object, got, again>>

ReadDatum ==
  /\ phase = "datum written" /\ phase' = "datum read"
  /\ got' = IF kind = "json"
            THEN IF type.raw THEN Ok([raw |-> RawOfJson(wire)]) ELSE FromJson(type.datum, wire)
            ELSE IF type.raw THEN RawFromCbor(wire) ELSE FromCbor(type.datum, wire)
  /\ UNCHANGED <<type, object, own, wire, kind, again>>

RewriteDatum ==
  /\ phase = "datum read" /\ ~Failed(got) /\ phase' = "datum rewritten"
  /\ again' = ToCbor(got.ok)
  /\ UNCHANGED <<type, object, own, wire, kind, got>>

Ended ==
  \/ phase \in {"rewritten", "datum rewritten", "id rewritten"}
  \/ phase \in {"read", "datum read", "id read"} /\ Failed(got)

Next ==
  \/ Write \/ Tamper \/ Read \/ Rewrite
  \/ WriteDatum \/ ReadDatum \/ RewriteDatum
  \/ IdNext /\ UNCHANGED <<own, kind>>
  \/ Ended /\ UNCHANGED vars

Spec == Init /\ [][Next]_vars

-----------------------------------------------------------------------------
RECURSIVE Parts(_)
Parts(x) ==
  LET Of(s) == UNION {Parts(s[i]) : i \in 1..Len(s)} IN
  CASE Is(x, "obj") /\ Classes[x.obj].shape = "dict" ->
         {x} \cup UNION {Parts(x.fields[i][1]) \cup Parts(x.fields[i][2]) : i \in 1..Len(x.fields)}
    [] Is(x, "obj") /\ Classes[x.obj].shape # "dict" -> {x} \cup Of(x.fields)
    [] Is(x, "list") -> Of(x.list)
    [] Is(x, "set") -> {x} \cup Of(x.set)
    [] OTHER -> {}

\* Every object inside is valid, those below a transaction body too.
Sound ==
  /\ Fits(object, type)
  /\ \A y \in Parts(object) :
       Is(y, "obj") =>
         /\ Validates(y)
         /\ y.obj = "TransactionBody" =>
              \A i \in 1..Len(y.fields) : Fits(y.fields[i], Classes[y.obj].fields[i].type)

\* What the code is known to lose or to be unable to read back.
Loses(y) ==
  \/ Is(y, "set") /\ ~y.tagged  \* read as a list, which it equals
  \/ /\ Is(y, "set") /\ y.set # <<>> /\ Is(y.set[1], "obj")
     /\ y.set[1].obj \in {Certificate.union[i].class : i \in 1..Len(Certificate.union)}
  \/ /\ Is(y, "obj")
     /\ \/ y.obj = "NewConstitution"
        \/ y.obj = "ShelleyMarryMetadata" /\ y.fields[2] = Nil
        \/ y.obj = "Transaction" /\ y.fields[3] = Nil /\ y.fields[4] # Nil
        \/ /\ y.obj \in {"Asset", "MultiAsset"}
           /\ \E k \in 1..Len(y.fields) : ~NotVoid(y.fields[k][2])
        \/ /\ y.obj = "TransactionOutput"
           /\ \/ y.fields[6] = [bool |-> TRUE]
              \/ y.fields[4] # Nil /\ (~Truthy(y.fields[4]) \/ y.fields[3] # Nil)

\* An object that passes validation is read back as it was, whatever its optional
\* fields (ArrayCBORSerializable, MapCBORSerializable, DictCBORSerializable,
\* CodedSerializable, OrderedSet and the classes' own from_primitive), except for
\* the losses that Loses lists.
RoundTrip ==
  phase \in {"read", "rewritten"} /\ kind = "own" /\ Sound /\ (\A y \in Parts(object) : ~Loses(y))
    => got = Ok(object)

\* An output whose map form is chosen by what reading it does not give back
\* (post_alonzo, or a datum besides its hash), or whose only tokens are zeros.
Unstable(y) ==
  /\ Is(y, "obj")
  /\ \/ /\ y.obj = "TransactionOutput" /\ y.fields[5] = Nil
        /\ IF Truthy(y.fields[4]) THEN y.fields[3] # Nil ELSE y.fields[6] = [bool |-> TRUE]
     \/ y.obj = "Value" /\ y.fields[2].fields # <<>> /\ ToPrimitive(y.fields[2]).map = <<>>

\* What was written and read is written again to the same encoding, even where
\* the object read is not the one written: the hash of a transaction body (its
\* id) survives transport.  An accepted encoding of another program is kept or
\* brought to the own form, and never to a third: a set without its tag is kept,
\* the order of a map is normalised, an element too many is dropped or kept, an
\* indefinite list is kept or made definite (serialization.py:847-1090).
RewriteStable ==
  phase = "rewritten" =>
    /\ kind = "own" /\ (\A y \in Parts(object) : ~Unstable(y)) => again = wire
    /\ kind = "untagged" => again = wire
    /\ kind = "reversed" => again = own
    /\ kind \in {"longer", "indefinite"} => again \in {own, wire}

MembersOf(t) == IF Is(t, "union") THEN t.union ELSE IF Is(t, "class") /\ t.class = "AuxiliaryData"
                THEN Classes["AuxiliaryData"].eras ELSE <<t>>

OthersRefuse(answers) ==
  \A i, j \in 1..Len(answers) : i # j /\ ~Failed(answers[i]) => answers[j] = Refused

\* Where a member of a union accepts an encoding every other one refuses it, with
\* the exception that the union catches: the order of the members does not
\* matter (the comment in AuxiliaryData.from_primitive; the same is assumed of
\* Certificate, GovAction and Relay).
OneMember ==
  phase = "written" =>
    OthersRefuse([i \in 1..Len(MembersOf(type)) |-> Restore(MembersOf(type)[i], wire)])

-----------------------------------------------------------------------------
Content(d) == Plain(DatumPrimitive(d))

RECURSIVE Within(_)
Within(d) ==
  {d} \cup CASE Is(d, "plutus") -> UNION {Within(d.fields[i]) : i \in 1..Len(d.fields)}
             [] IsList(d) -> UNION {Within(Items(d)[i]) : i \in 1..Len(Items(d))}
             [] Is(d, "map") -> UNION {Within(d.map[i][2]) : i \in 1..Len(d.map)}
             [] Is(d, "raw") -> Within(d.raw)
             [] Is(d, "tag") -> Within(d.of)
             [] OTHER -> {}

\* What the classes of a datum cannot restore: a byte string too long for bytes; and
\* from JSON a constructor in an untyped list, which is taken for the class around
\* it, and a member of a union that is no class.
NotRestored ==
  /\ ~type.raw
  /\ \/ \E d \in Within(object) : Is(d, "bytes") /\ d.bytes[1] > 64
     \/ kind = "json" /\ type.datum = "Open" /\ \E d \in Within(object.fields[2]) : Is(d, "plutus")
     \/ kind = "json" /\ type.datum = "Either" /\ Is(object.fields[1], "int")

\* Where the encoding survives: lists of both kinds are told apart by no JSON and
\* made indefinite by RawPlutusData, which leaves what is inside an indefinite list
\* as JSON gave it: definite; so are the fields below a constructor from 128 on.
\* The chunks of a long byte string are joined for good.
Survives ==
  LET Has(P(_)) == \E d \in Within(object) : P(d)
      definite == Has(LAMBDA d : Is(d, "list"))
      indefinite == Has(LAMBDA d : Is(d, "ilist"))
      bare == [ilist |-> <<>>] \in Within(object)
      long == Has(LAMBDA d : \E k \in {"bstr", "bytes"} : Is(d, k) /\ d[k][1] > 64)
      far == Has(LAMBDA d : Is(d, "plutus") /\ DatumClasses[d.plutus].constr > 127)
  IN  CASE kind = "own" -> IF type.raw THEN ~long ELSE type.datum = "Open" => ~definite
        [] kind = "definite" -> IF type.raw THEN ~definite /\ ~bare /\ ~long ELSE ~indefinite
        [] kind = "json" -> IF type.raw THEN ~definite /\ ~indefinite /\ ~far
                            ELSE ~definite /\ (type.datum = "Open" => ~long)

\* Whatever way a datum takes, through its encoding, a definite one or JSON, as an
\* object of its class or as RawPlutusData, the same data is read.  It is written
\* again to the encoding of the first object, and so has the datum hash that locks
\* an output, where Survives says so (PlutusData.to_shallow_primitive,
\* RawPlutusData.to_primitive, and the from_primitive and from_dict of both).  JSON
\* is written again to the same JSON, also where the encoding changes (what
\* test_raw_plutus_data_json compares).
DatumKept ==
  /\ phase = "datum read" /\ ~NotRestored => ~Failed(got) /\ Content(got.ok) = Content(object)
  /\ phase = "datum rewritten" /\ Survives => again = own
  /\ phase = "datum rewritten" /\ kind = "json" => ToJson(got.ok) = wire

=============================================================================
