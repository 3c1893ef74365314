----------------------------- MODULE PlutusDatum -----------------------------
(***************************************************************************)
(* Plutus data: objects of PlutusData classes and RawPlutusData, their     *)
(* CBOR encodings, which datum hashes are made of, and their JSON form.    *)
(*                                                                         *)
(* Beside the primitives of Serialization there are [bstr], a ByteString,  *)
(* which beyond 64 bytes is written in [chunks]; [plutus, fields], an      *)
(* object of a class; and [raw], a RawPlutusData.  JSON is [int], [bytes], *)
(* [list], [map] and [constructor, fields].                                *)
(*                                                                         *)
(* Types of fields are [prim], [class], [list], [dict], [union], [bstr]    *)
(* (ByteString), [indef] (IndefiniteList) and [datum] (Datum).             *)
(***************************************************************************)
EXTENDS Serialization

CONSTANT DatumClasses  \* name -> [constr, fields]

Each(s, Op(_)) == [i \in 1..Len(s) |-> Op(s[i])]
EachPair(s, Op(_)) == [i \in 1..Len(s) |-> <<Op(s[i][1]), Op(s[i][2])>>]

NoTag == 0

GetTag(id) ==
  CASE id \in 0..6 -> 121 + id [] id \in 7..127 -> 1280 + (id - 7) [] OTHER -> NoTag

\* get_constructor_id_and_fields: more tags are read than are written.
ConstructorOf(w) ==
  CASE w.tag = 102 -> IF Len(Items(w.of)) = 2 THEN Ok(<<Items(w.of)[1].int, Items(w.of)[2]>>) ELSE Refused
    [] w.tag \in 121..127 -> Ok(<<w.tag - 121, w.of>>)
    [] w.tag \in 1280..1535 -> Ok(<<w.tag - 1280 + 7, w.of>>)
    [] OTHER -> Refused

-----------------------------------------------------------------------------
(* Writing *)

\* default_encoder and the library: lists keep their kind.
RECURSIVE Encoded(_)
Encoded(p) ==
  CASE Is(p, "bstr") -> IF p.bstr[1] > 64 THEN [chunks |-> p.bstr] ELSE [bytes |-> p.bstr]
    [] Is(p, "list") -> ListOf(Each(p.list, Encoded))
    [] Is(p, "ilist") -> [ilist |-> Each(p.ilist, Encoded)]
    [] Is(p, "map") -> [map |-> EachPair(p.map, Encoded)]
    [] Is(p, "tag") -> [p EXCEPT !.of = Encoded(p.of)]
    [] OTHER -> p

\* RawPlutusData.to_primitive: a definite list becomes indefinite, also under a tag;
\* below a list that is indefinite already nothing changes.
RECURSIVE RawPrimitive(_)
RawPrimitive(p) ==
  CASE Is(p, "list") /\ p.list # <<>> -> [ilist |-> Each(p.list, RawPrimitive)]
    [] Is(p, "map") -> [map |-> EachPair(p.map, RawPrimitive)]
    [] Is(p, "tag") /\ Is(p.of, "list") ->
         LET s == Each(p.of.list, RawPrimitive)
         IN  [p EXCEPT !.of = IF p.tag = 102 \/ s = <<>> THEN ListOf(s) ELSE [ilist |-> s]]
    [] OTHER -> p

\* Mutant: an empty list of fields is indefinite too.
BodyIndefinite(s) == [ilist |-> s]

Body(s) == IF s = <<>> THEN ListOf(s) ELSE [ilist |-> s]

\* PlutusData.to_shallow_primitive and the _dfs of to_primitive.
RECURSIVE DatumPrimitive(_)
DatumPrimitive(d) ==
  CASE Is(d, "plutus") ->
         LET body == Body(Each(d.fields, DatumPrimitive))
             id == DatumClasses[d.plutus].constr
         IN  IF GetTag(id) # NoTag THEN [tag |-> GetTag(id), of |-> body]
             ELSE [tag |-> 102, of |-> ListOf(<<[int |-> id], body>>)]
    [] Is(d, "raw") -> RawPrimitive(d.raw)
    [] Is(d, "list") -> ListOf(Each(d.list, DatumPrimitive))
    [] Is(d, "ilist") -> [ilist |-> Each(d.ilist, DatumPrimitive)]
    [] Is(d, "map") -> [map |-> EachPair(d.map, DatumPrimitive)]
    [] OTHER -> d

ToCbor(d) == Encoded(DatumPrimitive(d))

-----------------------------------------------------------------------------
(* Reading *)

\* The library joins the chunks of a byte string.
RECURSIVE Loaded(_)
Loaded(w) ==
  CASE Is(w, "chunks") -> [bytes |-> w.chunks]
    [] Is(w, "list") -> ListOf(Each(w.list, Loaded))
    [] Is(w, "ilist") -> [ilist |-> Each(w.ilist, Loaded)]
    [] Is(w, "map") -> [map |-> EachPair(w.map, Loaded)]
    [] Is(w, "tag") -> [w EXCEPT !.of = Loaded(w.of)]
    [] OTHER -> w

RECURSIVE RestoreDatum(_, _)

\* __post_init__
TooLong(fields) == \E i \in 1..Len(fields) : Is(fields[i], "bytes") /\ fields[i].bytes[1] > 64

\* The constructor: too few arguments raise TypeError.
MakeDatum(name, fields) ==
  CASE Len(fields) < Len(DatumClasses[name].fields) -> Raises
    [] TooLong(fields) -> Raises
    [] OTHER -> Ok([plutus |-> name, fields |-> fields])

FromFields(name, v) ==
  LET types == DatumClasses[name].fields
      n == IF Len(Items(v)) < Len(types) THEN Len(Items(v)) ELSE Len(types)
      read == Gather([i \in 1..n |-> RestoreDatum(types[i], Items(v)[i])])
  IN  IF ~IsList(v) THEN Refused ELSE IF Failed(read) THEN read ELSE MakeDatum(name, read.ok)

\* PlutusData.from_primitive
FromTag(name, v) ==
  LET id == DatumClasses[name].constr IN
  CASE ~Is(v, "tag") -> Refused
    [] Is(v, "tag") /\ v.tag = 102 ->
         IF Items(v.of)[1] # [int |-> id] \/ Len(Items(v.of)) # 2 THEN Refused
         ELSE FromFields(name, Items(v.of)[2])
    [] OTHER -> IF GetTag(id) # v.tag THEN Refused ELSE FromFields(name, v.of)

\* _restore_typed_primitive for the types of fields.  A Datum is the first of its
\* union: a definite list fits only IndefiniteList, a tag only RawPlutusData.
RestoreDatum(t, v) ==
  CASE Is(t, "prim") -> IF Is(v, t.prim) THEN Ok(v) ELSE Refused
    [] Is(t, "class") -> FromTag(t.class, v)
    [] Is(t, "bstr") -> IF Is(v, "bytes") THEN Ok([bstr |-> v.bytes]) ELSE Refused
    [] Is(t, "indef") ->  \* what can be iterated: of a map the keys, of bytes the octets
         CASE IsList(v) -> Ok([ilist |-> Items(v)])
           [] Is(v, "map") -> Ok([ilist |-> Each(v.map, Head)])
           [] Is(v, "bytes") -> Ok([ilist |-> <<[int |-> v.bytes[2]]>>])
           [] OTHER -> Refused
    [] Is(t, "list") ->
         IF ~IsList(v) THEN Refused
         ELSE Then(Gather(Each(Items(v), LAMBDA x : RestoreDatum(t.list, x))),
                   LAMBDA s : IF Is(v, "list") THEN ListOf(s) ELSE [ilist |-> s])
    [] Is(t, "dict") ->
         IF ~Is(v, "map") THEN Refused
         ELSE Then(Gather(Each(v.map, LAMBDA p : Gather(<<RestoreDatum(t.dict[1], p[1]),
                                                          RestoreDatum(t.dict[2], p[2])>>))),
                   LAMBDA s : [map |-> s])
    [] Is(t, "union") ->
         LET able == {i \in 1..Len(t.union) : RestoreDatum(t.union[i], v) # Refused}
         IN  IF able = {} THEN Refused ELSE RestoreDatum(t.union[Min(able)], v)
    [] Is(t, "datum") -> Ok(IF Is(v, "list") THEN [ilist |-> v.list] ELSE IF Is(v, "tag") THEN [raw |-> v] ELSE v)

FromCbor(name, w) == FromTag(name, Loaded(w))

\* RawPlutusData.from_primitive: a definite list is not among its types.
RawFromCbor(w) == IF Is(w, "list") THEN Refused ELSE Ok([raw |-> Loaded(w)])

-----------------------------------------------------------------------------
(* JSON *)

RECURSIVE ToJson(_)
ToJson(d) ==
  CASE Is(d, "bstr") -> [bytes |-> d.bstr]
    [] IsList(d) -> ListOf(Each(Items(d), ToJson))
    [] Is(d, "map") -> [map |-> EachPair(d.map, ToJson)]
    [] Is(d, "plutus") -> [constructor |-> DatumClasses[d.plutus].constr, fields |-> Each(d.fields, ToJson)]
    [] Is(d, "raw") -> ToJson(RawPrimitive(d.raw))
    [] Is(d, "tag") -> LET c == ConstructorOf(d).ok
                       IN  [constructor |-> c[1], fields |-> Each(Items(c[2]), ToJson)]
    [] OTHER -> d

RawTagged(id, fields) ==
  IF GetTag(id) = NoTag THEN [tag |-> 102, of |-> ListOf(<<[int |-> id], [ilist |-> fields]>>)]
  ELSE [tag |-> GetTag(id), of |-> ListOf(fields)]

\* More than 64 hexadecimal digits, which are 32 bytes.
BytesOf(b) == IF b[1] > 32 THEN [bstr |-> b] ELSE [bytes |-> b]

\* RawPlutusData.from_dict
RECURSIVE RawOfJson(_)
RawOfJson(j) ==
  CASE Is(j, "constructor") -> RawTagged(j.constructor, Each(j.fields, RawOfJson))
    [] Is(j, "map") -> [map |-> EachPair(j.map, RawOfJson)]
    [] Is(j, "bytes") -> BytesOf(j.bytes)
    [] Is(j, "list") -> [ilist |-> Each(j.list, RawOfJson)]
    [] OTHER -> j

RECURSIVE FromJson(_, _)

\* A field of a class by its type.  Only members of a union that are classes are
\* looked at; a class is told from other types by isclass.
FieldFromJson(name, t, j) ==
  LET ByType(u) == IF Is(u, "class") THEN u.class ELSE name IN
  CASE Is(t, "class") -> FromJson(t.class, j)
    [] Is(t, "datum") -> Ok([raw |-> RawOfJson(j)])
    [] Is(t, "union") ->
         LET classes == {i \in 1..Len(t.union) : Is(t.union[i], "class")}
             able == {i \in classes : DatumClasses[t.union[i].class].constr = j.constructor}
         IN  CASE classes # {} /\ ~Is(j, "constructor") -> Raises
               [] classes = {} \/ able = {} -> Refused
               [] OTHER -> FromJson(t.union[Min(able)].class, j)
    [] Is(t, "list") -> IF ~Is(j, "list") THEN Refused ELSE FromJson(ByType(t.list), j)
    [] Is(t, "dict") ->
         IF ~Is(j, "map") THEN Refused
         ELSE Then(Gather(Each(j.map, LAMBDA p : Gather(<<FromJson(ByType(t.dict[1]), p[1]),
                                                          FromJson(ByType(t.dict[2]), p[2])>>))),
                   LAMBDA s : [map |-> s])
    [] OTHER -> FromJson(name, j)

\* PlutusData.from_dict: what is no constructor is converted without a look at the
\* class.
FromJson(name, j) ==
  CASE Is(j, "constructor") ->
         LET types == DatumClasses[name].fields
             n == IF Len(j.fields) < Len(types) THEN Len(j.fields) ELSE Len(types)
             read == Gather([i \in 1..n |-> FieldFromJson(name, types[i], j.fields[i])])
         IN  IF j.constructor # DatumClasses[name].constr THEN Refused
             ELSE IF Failed(read) THEN read ELSE MakeDatum(name, read.ok)
    [] Is(j, "map") ->
         Then(Gather(Each(j.map, LAMBDA p : Gather(<<FromJson(name, p[1]), FromJson(name, p[2])>>))),
              LAMBDA s : [map |-> s])
    [] Is(j, "bytes") -> Ok(BytesOf(j.bytes))
    [] Is(j, "list") -> Then(Gather(Each(j.list, LAMBDA x : FromJson(name, x))), LAMBDA s : [ilist |-> s])
    [] OTHER -> Ok(j)

\* Python's equality: the kinds of lists and of byte strings are the same.
RECURSIVE Plain(_)
Plain(d) ==
  CASE Is(d, "bstr") -> [bytes |-> d.bstr]
    [] IsList(d) -> ListOf(Each(Items(d), Plain))
    [] Is(d, "map") -> [map |-> EachPair(d.map, Plain)]
    [] Is(d, "plutus") -> [d EXCEPT !.fields = Each(d.fields, Plain)]
    [] Is(d, "raw") -> [raw |-> Plain(d.raw)]
    [] Is(d, "tag") -> [d EXCEPT !.of = Plain(d.of)]
    [] OTHER -> d

=============================================================================
