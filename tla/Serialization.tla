---------------------------- MODULE Serialization ----------------------------
(***************************************************************************)
(* The serialization framework: how an object of a declared class becomes  *)
(* a CBOR primitive and how a primitive is restored to the type that a     *)
(* field declares.                                                         *)
(*                                                                         *)
(* Primitives are records whose field names their kind: [int], [bytes]     *)
(* (a size and an identity), [str], [bool], [frac], [nil], [list],         *)
(* [ilist] (of indefinite length), [map] (a sequence of pairs) and         *)
(* [tag, of].  Objects are [obj, fields], with the number of the variant   *)
(* where a class has several; ordered sets are [set, tagged, indef]; an IP *)
(* address is [ip].  The CBOR library, which writes and reads primitives,  *)
(* is external and exact; a map it reads has no key twice.                 *)
(*                                                                         *)
(* Types are [any], [prim], [class], [list], [hook] (a list restored by    *)
(* list_hook), [union], [set, nonEmpty], [among] (the values of an Enum or *)
(* a range), [host] (an IP address of a size), [embedded] (a tag that      *)
(* holds an encoding) and [other], a hint that _restore_typed_primitive    *)
(* does not know.                                                          *)
(***************************************************************************)
EXTENDS Results, Integers, Sequences, SequencesExt, FiniteSetsExt

CONSTANT
  Classes  \* name -> [shape, ...]: the declarations of the classes

ListOf(s) == [list |-> s]

\* The first failure, in order, or all the values.
Gather(results) ==
  LET bad == {i \in 1..Len(results) : Failed(results[i])}
  IN  IF bad # {} THEN results[Min(bad)] ELSE Ok([i \in 1..Len(results) |-> results[i].ok])

-----------------------------------------------------------------------------
(* Writing *)

RECURSIVE ToPrimitive(_)

\* Mutant: what is None is always left out.
KeptNotNil(fields, values) ==
  SelectSeq([i \in 1..Len(fields) |-> i], LAMBDA i : values[i] # Nil)

\* The fields that are written: an optional one that is None is left out.
Kept(fields, values) ==
  SelectSeq([i \in 1..Len(fields) |-> i], LAMBDA i : ~(values[i] = Nil /\ fields[i].optional))

\* ArrayCBORSerializable: the later fields move up when an earlier one is left out.
ToArray(fields, values) ==
  LET kept == Kept(fields, values)
  IN  [i \in 1..Len(kept) |-> ToPrimitive(values[kept[i]])]

ToMap(fields, values) ==
  LET kept == Kept(fields, values)
  IN  [map |-> [i \in 1..Len(kept) |->
                 <<[int |-> fields[kept[i]].key], ToPrimitive(values[kept[i]])>>]]

\* The order of keys: the shorter encoding first, then by its bytes.  Keys are
\* integers, byte strings or lists of these.
IntWidth(n) == IF n < 24 THEN 1 ELSE IF n < 256 THEN 2 ELSE IF n < 65536 THEN 3 ELSE 5
Flat(w) ==
  IF Is(w, "int") THEN <<w.int>> ELSE IF Is(w, "bytes") THEN w.bytes ELSE FlattenSeq([i \in 1..Len(w.list) |->
    IF Is(w.list[i], "int") THEN <<w.list[i].int>> ELSE w.list[i].bytes])
Width(w) ==
  LET Scalar(k) == IF Is(k, "int") THEN IntWidth(k.int) ELSE IntWidth(k.bytes[1]) + k.bytes[1]
  IN  IF Is(w, "list") THEN 1 + FoldLeft(LAMBDA n, k : n + Scalar(k), 0, w.list) ELSE Scalar(w)
Precedes(a, b) ==
  \E i \in 1..Len(b) :
    Len(a) >= i - 1 /\ SubSeq(a, 1, i - 1) = SubSeq(b, 1, i - 1) /\ (Len(a) < i \/ a[i] < b[i])

Sorted(pairs) ==
  SortSeq(pairs, LAMBDA a, b : Precedes(<<Width(a[1])>> \o Flat(a[1]), <<Width(b[1])>> \o Flat(b[1])))

\* Python's truth of a value.
Truthy(v) == v \notin {Nil, [int |-> 0], [bytes |-> <<0, 0>>], [map |-> <<>>], [bool |-> FALSE]}

\* Asset and MultiAsset: what is zero, or has become empty, is left out.
NotVoid(v) == v # [int |-> 0] /\ v # [map |-> <<>>] /\ ~(Is(v, "obj") /\ v.fields = <<>>)
Normalized(c, pairs) == IF c.normal THEN SelectSeq(pairs, LAMBDA p : NotVoid(p[2])) ELSE pairs

Version(script) ==
  CASE script.obj = "NativeScript" -> 0
    [] script.obj = "PlutusV1Script" -> 1
    [] script.obj = "PlutusV2Script" -> 2
    [] script.obj = "PlutusV3Script" -> 3

\* TransactionOutput: address, amount, datum_hash, datum, script, post_alonzo.
ToOutput(f) ==
  LET datum == IF f[3] = Nil /\ f[4] = Nil THEN Nil
               ELSE IF Truthy(f[3]) THEN ListOf(<<[int |-> 0], ToPrimitive(f[3])>>)
               ELSE ListOf(<<[int |-> 1], [tag |-> 24, of |-> f[4]]>>)
      script == IF f[5] = Nil THEN Nil
                ELSE [tag |-> 24, of |-> ListOf(<<[int |-> Version(f[5])], ToPrimitive(f[5])>>)]
  IN  IF Truthy(f[4]) \/ Truthy(f[5]) \/ Truthy(f[6])
      THEN ToMap(Classes["_TransactionOutputPostAlonzo"].fields, <<f[1], f[2], datum, script>>)
      ELSE ListOf(ToArray(Classes["_TransactionOutputLegacy"].fields, <<f[1], f[2], f[3]>>))

\* x is an object of the class c.
OfObject(x, c) ==
  CASE c.shape \in {"hash", "raw", "text", "enum"} -> x.fields[1]
    [] c.shape \in {"array", "direct"} -> ListOf(ToArray(c.fields, x.fields))
    [] c.shape = "value" ->
         IF x.fields[2].fields = <<>> THEN x.fields[1] ELSE ListOf(ToArray(c.fields, x.fields))
    [] c.shape = "eras" -> ToPrimitive(x.fields[1])
    [] c.shape = "tagged" -> [tag |-> c.tag, of |-> ToMap(c.fields, x.fields)]
    [] c.shape = "coded" -> ListOf(<<[int |-> c.code]>> \o ToArray(c.fields, x.fields))
    [] c.shape = "pool" -> ListOf(<<[int |-> c.code]>> \o ToPrimitive(x.fields[1]).list)
    [] c.shape \in {"variant", "script"} ->
         ListOf(<<[int |-> x.variant]>> \o ToArray(c.variants[x.variant], x.fields))
    [] c.shape = "map" -> ToMap(c.fields, x.fields)
    [] c.shape = "dict" ->
         [map |-> Sorted(Normalized(c, [i \in 1..Len(x.fields) |->
                    <<ToPrimitive(x.fields[i][1]), ToPrimitive(x.fields[i][2])>>]))]
    [] c.shape = "output" -> ToOutput(x.fields)

\* to_shallow_primitive of the class, and the _dfs of to_primitive.
ToPrimitive(x) ==
  CASE Is(x, "obj") -> OfObject(x, Classes[x.obj])
    [] Is(x, "set") ->
         LET each == [i \in 1..Len(x.set) |-> ToPrimitive(x.set[i])]
             items == IF x.indef THEN [ilist |-> each] ELSE ListOf(each)
         IN  IF x.tagged THEN [tag |-> 258, of |-> items] ELSE items
    [] Is(x, "list") -> ListOf([i \in 1..Len(x.list) |-> ToPrimitive(x.list[i])])
    [] Is(x, "ilist") -> [ilist |-> [i \in 1..Len(x.ilist) |-> ToPrimitive(x.ilist[i])]]
    [] Is(x, "map") -> [map |-> [i \in 1..Len(x.map) |->
                                 <<ToPrimitive(x.map[i][1]), ToPrimitive(x.map[i][2])>>]]
    [] Is(x, "ip") -> [bytes |-> x.ip]
    [] OTHER -> x

-----------------------------------------------------------------------------
(* Reading *)

RECURSIVE Restore(_, _)
RECURSIVE FromPrimitive(_, _)

\* isinstance; a bool is an int.
IsInstance(v, p) == Is(v, p) \/ (p = "int" /\ Is(v, "bool"))

IsList(v) == Is(v, "list") \/ Is(v, "ilist")
Items(v) == IF Is(v, "list") THEN v.list ELSE v.ilist

\* The elements are restored as far as there are fields; what is missing takes
\* its default, or the constructor raises TypeError; what is left over becomes
\* an attribute that is never written again.
FromArray(fields, values) ==
  LET n == IF Len(values) < Len(fields) THEN Len(values) ELSE Len(fields)
      read == Gather([i \in 1..n |-> Restore(fields[i].type, values[i])])
  IN  CASE Failed(read) -> read
        [] \E i \in n + 1..Len(fields) : fields[i].default = <<>> -> Raises
        [] OTHER -> Ok([i \in 1..Len(fields) |->
                         IF i <= n THEN read.ok[i] ELSE fields[i].default[1]])

\* Keys in the order of the map; one that is not declared is refused.
FromMap(fields, pairs) ==
  LET At(k) == {i \in 1..Len(fields) : [int |-> fields[i].key] = k}
      read == Gather([j \in 1..Len(pairs) |->
                IF At(pairs[j][1]) = {} THEN Refused
                ELSE Restore(fields[Min(At(pairs[j][1]))].type, pairs[j][2])])
      Given(i) == {j \in 1..Len(pairs) : pairs[j][1] = [int |-> fields[i].key]}
  IN  CASE Failed(read) -> read
        [] \E i \in 1..Len(fields) : Given(i) = {} /\ fields[i].default = <<>> -> Raises
        [] OTHER -> Ok([i \in 1..Len(fields) |->
                         IF Given(i) = {} THEN fields[i].default[1] ELSE read.ok[Max(Given(i))]])

\* DictCBORSerializable: only classes are restored; __setitem__ checks the types,
\* and a key of a class without __hash__ cannot be stored.
FromDict(c, pairs) ==
  LET One(t, v) == IF Is(t, "class") \/ Is(t, "any") THEN Restore(t, v)
                   ELSE IF IsInstance(v, t.prim) THEN Ok(v) ELSE Raises
      read == Gather([i \in 1..Len(pairs) |->
                Gather(<<One(c.key, pairs[i][1]), One(c.value, pairs[i][2])>>)])
  IN  CASE Failed(read) -> read
        [] pairs # <<>> /\ ~c.hashable -> Raises
        [] OTHER -> Ok(Normalized(c, read.ok))

\* Elements handed to the constructor: too few raise IndexError, what is left
\* over is not looked at, and a hash is constructed, not restored.
Construct(fields, values) ==
  IF Len(values) < Len(fields) THEN Raises
  ELSE Gather([i \in 1..Len(fields) |->
         LET t == fields[i].type
             hash == Is(t, "class") /\ Classes[t.class].shape = "hash"
         IN  IF hash /\ ~Is(values[i], "bytes") THEN Raises ELSE Restore(t, values[i])])

\* Variants told apart by a number; an unknown one is refused, raises, or is taken
\* for the last.  The rest is constructed or, for a native script, restored.
FromVariant(name, c, values) ==
  LET known == values # <<>> /\ Is(values[1], "int") /\ values[1].int \in DOMAIN c.variants
      code == IF known THEN values[1].int ELSE Max(DOMAIN c.variants)
      rest == IF c.shape = "script" THEN FromArray(c.variants[code], Tail(values))
              ELSE Construct(c.variants[code], Tail(values))
  IN  CASE values = <<>> -> Raises
        [] values # <<>> /\ ~known /\ c.unknown = "refused" -> Refused
        [] values # <<>> /\ ~known /\ c.unknown = "raises" -> Raises
        [] OTHER -> Then(rest, LAMBDA f : [obj |-> name, variant |-> code, fields |-> f])

\* An amount of lovelace alone becomes a Value.
AsValue(a) ==
  IF Is(a, "int") THEN [obj |-> "Value", fields |-> <<a, [obj |-> "MultiAsset", fields |-> <<>>]>>]
  ELSE a

\* A list is the legacy form, anything else the map; post_alonzo is not kept.
FromOutput(v) ==
  IF Is(v, "list")
  THEN Then(FromPrimitive("_TransactionOutputLegacy", v), LAMBDA o :
         <<o.fields[1], AsValue(o.fields[2]), o.fields[3], Nil, Nil, [bool |-> FALSE]>>)
  ELSE Then(FromPrimitive("_TransactionOutputPostAlonzo", v), LAMBDA o :
         LET d == o.fields[3]
             byHash == d # Nil /\ d.variant = 0
         IN  <<o.fields[1], AsValue(o.fields[2]), IF byHash THEN d.fields[1] ELSE Nil,
               IF d = Nil \/ byHash THEN Nil ELSE d.fields[1].of,
               IF o.fields[4] = Nil THEN Nil ELSE o.fields[4].fields[1], [bool |-> FALSE]>>)

\* from_primitive of the class c, with what limit_primitive_type lets through.
FromClass(name, c, v) ==
  LET Object(f) == [obj |-> name, fields |-> f] IN
  CASE c.shape = "hash" ->  \* a string is read as hexadecimal digits or bech32
         IF Is(v, "str") THEN Raises
         ELSE IF ~Is(v, "bytes") THEN Refused
         ELSE IF v.bytes[1] \notin c.sizes THEN Raises ELSE Ok(Object(<<v>>))
    [] c.shape = "raw" -> IF Is(v, "bytes") THEN Ok(Object(<<v>>)) ELSE Refused
    [] c.shape = "text" ->
         IF ~Is(v, "str") THEN Refused ELSE IF v.str \in c.texts THEN Ok(Object(<<v>>)) ELSE Raises
    [] c.shape = "enum" ->
         IF ~Is(v, "int") THEN Refused ELSE IF v.int \in c.among THEN Ok(Object(<<v>>)) ELSE Raises
    [] c.shape \in {"array", "value"} ->
         IF ~IsList(v) THEN Refused ELSE Then(FromArray(c.fields, Items(v)), Object)
    [] c.shape = "direct" ->
         IF ~Is(v, "list") THEN Refused ELSE Then(Construct(c.fields, v.list), Object)
    [] c.shape = "coded" ->
         IF ~Is(v, "list") THEN Refused
         ELSE IF v.list = <<>> THEN Raises
         ELSE IF v.list[1] # [int |-> c.code] THEN Refused
         ELSE Then(FromArray(c.fields, Tail(v.list)), Object)
    [] c.shape = "pool" ->
         IF ~Is(v, "list") THEN Refused
         ELSE IF v.list = <<>> THEN Raises
         ELSE IF v.list[1] # [int |-> c.code] THEN Refused
         ELSE IF Len(v.list) = 1 THEN Raises
         ELSE Then(FromPrimitive("PoolParams",
                     IF Is(v.list[2], "list") THEN v.list[2] ELSE ListOf(Tail(v.list))),
                   LAMBDA p : Object(<<p>>))
    [] c.shape \in {"variant", "script"} ->
         IF ~Is(v, "list") THEN Refused ELSE FromVariant(name, c, v.list)
    [] c.shape = "map" ->
         IF ~Is(v, "map") THEN Refused ELSE Then(FromMap(c.fields, v.map), Object)
    [] c.shape = "dict" ->
         IF ~Is(v, "map") THEN Refused ELSE Then(FromDict(c, v.map), Object)
    [] c.shape = "tagged" ->
         IF ~Is(v, "tag") \/ v.tag # c.tag \/ ~Is(v.of, "map") THEN Refused
         ELSE Then(FromMap(c.fields, v.of.map), Object)
    [] c.shape = "eras" -> Then(Restore([union |-> c.eras], v), LAMBDA d : Object(<<d>>))
    [] c.shape = "scriptRef" ->
         IF ~Is(v, "tag") \/ ~Is(v.of, "list") THEN Raises
         ELSE Then(FromVariant("_Script", Classes["_Script"], v.of.list), LAMBDA d : Object(d.fields))
    [] c.shape = "output" -> Then(FromOutput(v), Object)

FromPrimitive(name, v) == FromClass(name, Classes[name], v)

Distinct(s) == FoldLeft(LAMBDA a, x : IF Contains(a, x) THEN a ELSE Append(a, x), <<>>, s)

\* Mutant: every set is taken for a tagged one.
FromSetTagging(t, v) ==
  LET list == IF Is(v, "tag") THEN v.of ELSE v
      read == IF Is(t.set, "class")
              THEN Gather([i \in 1..Len(Items(list)) |-> FromPrimitive(t.set.class, Items(list)[i])])
              ELSE Ok(Items(list))
  IN  IF ~IsList(list) THEN Raises ELSE Then(read, LAMBDA s : [set |-> s, tagged |-> TRUE, indef |-> FALSE])

\* OrderedSet and NonEmptyOrderedSet: only items of a class are restored, into a
\* plain list; a union of classes is no class, and its items stay as they are.
FromSet(t, v) ==
  LET tagged == Is(v, "tag") /\ v.tag = 258
      list == IF tagged THEN v.of ELSE v
      isClass == Is(t.set, "class")
      read == IF isClass
              THEN Gather([i \in 1..Len(Items(list)) |-> FromPrimitive(t.set.class, Items(list)[i])])
              ELSE Ok(Items(list))
  IN  CASE ~(tagged /\ IsList(v.of)) /\ ~Is(v, "list") -> Raises
        [] Failed(read) -> read
        [] t.nonEmpty /\ read.ok = <<>> -> Raises
        [] OTHER -> Ok([set |-> Distinct(read.ok), tagged |-> tagged,
                        indef |-> Is(list, "ilist") /\ ~isClass /\ read.ok # <<>>])

\* The first member that does not refuse, whether it succeeds or raises.
FromUnion(ts, v) ==
  LET last == {i \in 1..Len(ts) : Restore(ts[i], v) # Refused}
  IN  IF last = {} THEN Refused ELSE Restore(ts[Min(last)], v)

\* _restore_typed_primitive
Restore(t, v) ==
  CASE Is(t, "any") -> Ok(v)
    [] Is(t, "prim") -> IF IsInstance(v, t.prim) THEN Ok(v) ELSE Refused
    [] Is(t, "class") -> FromPrimitive(t.class, v)
    [] Is(t, "set") -> FromSet(t, v)
    [] Is(t, "list") ->
         IF ~IsList(v) THEN Refused
         ELSE Then(Gather([i \in 1..Len(Items(v)) |-> Restore(t.list, Items(v)[i])]),
                   LAMBDA s : IF Is(v, "list") THEN ListOf(s) ELSE [ilist |-> s])
    [] Is(t, "hook") ->
         IF ~IsList(v) THEN Raises
         ELSE Then(Gather([i \in 1..Len(Items(v)) |-> FromPrimitive(t.hook, Items(v)[i])]), ListOf)
    [] Is(t, "union") -> FromUnion(t.union, v)
    [] Is(t, "among") -> IF Is(v, "int") /\ v.int \in t.among THEN Ok(v) ELSE Raises
    [] Is(t, "embedded") -> IF Is(v, "tag") THEN Ok(v) ELSE Raises
    [] Is(t, "host") ->
         IF ~Is(v, "bytes") THEN Ok(IF Is(v, "str") THEN v ELSE Nil)
         ELSE IF v.bytes[1] = t.host THEN Ok([ip |-> v.bytes]) ELSE Raises
    [] Is(t, "other") ->
         IF t.other = "Dict" \/ (t.other = "Version" /\ Is(v, "frac")) THEN Raises ELSE Refused

-----------------------------------------------------------------------------
(* Checking before an object is encoded *)

RECURSIVE Fits(_, _)

\* validate of a class, where it does not raise.  A transaction body's looks only
\* at the range of the mint, so that nothing below a body is looked at.
ValidatesAs(x, c) ==
  LET Each(fields) == \A i \in 1..Len(fields) : Fits(x.fields[i], fields[i].type)
      Nested(v) == Is(v, "obj") => Fits(v, [class |-> v.obj])
  IN  CASE c.shape \in {"array", "direct", "value", "coded", "pool", "tagged"} -> Each(c.fields)
        [] c.shape \in {"variant", "script"} -> Each(c.variants[x.variant])
        [] c.shape = "map" -> x.obj = "TransactionBody" \/ Each(c.fields)
        [] c.shape = "dict" -> \A i \in 1..Len(x.fields), j \in 1..2 : Nested(x.fields[i][j])
        [] c.shape = "output" -> Each(c.fields) /\ x.fields[2].fields[1].int >= 0
        [] OTHER -> \A i \in 1..Len(x.fields) : Nested(x.fields[i])

Validates(x) == ValidatesAs(x, Classes[x.obj])

\* _check_recursive; the elements of a NonEmptyOrderedSet are not looked at.
Fits(v, t) ==
  \/ Is(t, "any")
  \/ /\ Is(v, "obj") => Validates(v)
     /\ CASE Is(t, "prim") -> IsInstance(v, t.prim)
          [] Is(t, "class") -> Is(v, "obj") /\ v.obj = t.class
          [] Is(t, "union") -> \E i \in 1..Len(t.union) : Fits(v, t.union[i])
          [] Is(t, "list") -> IsList(v) /\ \A i \in 1..Len(Items(v)) : Fits(Items(v)[i], t.list)
          [] Is(t, "hook") -> IsList(v) /\ \A i \in 1..Len(Items(v)) : Fits(Items(v)[i], [class |-> t.hook])
          [] Is(t, "set") /\ t.nonEmpty -> Is(v, "set") => v.set # <<>>
          [] Is(t, "set") /\ ~t.nonEmpty ->
               Is(v, "set") /\ \A i \in 1..Len(v.set) : Fits(v.set[i], t.set)
          [] Is(t, "among") -> Is(v, "int") /\ v.int \in t.among
          [] Is(t, "host") -> Is(v, "str") \/ Is(v, "ip") \/ v = Nil
          [] Is(t, "other") -> t.other # "Version" /\ ~(t.other = "Dict" /\ Is(v, "map"))

=============================================================================
