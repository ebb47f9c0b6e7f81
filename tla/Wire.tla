-------------------------------- MODULE Wire --------------------------------
(***************************************************************************)
(* What a value of a Rust type is on the wire, as the server reads and     *)
(* writes it, and what the client generators are told of the type: the     *)
(* TagMeta that #[derive(Tag)] leaves behind.  The byte layout belongs to  *)
(* the crate afastdata, which is not in this repository; it is modelled    *)
(* from docs/en/src/binary-protocol.md and from what every generated       *)
(* client reads and writes.                                                *)
(*                                                                         *)
(* A cell of the wire is a digit below Base, so an integer of w cells has  *)
(* w digits, least significant first; a character is one cell.  Floats are *)
(* left out: they are copied bit by bit.                                   *)
(***************************************************************************)
EXTENDS Integers, Sequences, FiniteSets, SequencesExt, Functions, TLC

CONSTANTS
  None,       \* Rust's None and unit; null, default in the clients
  Undef,      \* JavaScript's undefined
  Broken,     \* what the server makes of a request that it refuses
  Marker,     \* the marker of the application, "afast" unless it sets one
  TagWidth,   \* cells of an enum tag: features tag-u8, tag-u16, tag-u32
  Layers,     \* the types of the application, those a type is made of before it
  Values      \* the values considered of each type

Base == 4
Cells == Seq(0..Base - 1)
Pow[n \in Nat] == IF n = 0 THEN 1 ELSE Base * Pow[n - 1]

Types == UNION {Layers[i] : i \in DOMAIN Layers}

(***************************************************************************)
(* Types.  A field has its type, its rules, and may be skipped.  A rule    *)
(* whose arguments are not all literals (a negative number is not one) is  *)
(* dropped by the macro and stays in force on the server: "plain".         *)
(***************************************************************************)
IntType(w, s)      == [k |-> "int", w |-> w, s |-> s]
U32                == IntType(4, FALSE)
Bool               == [k |-> "bool"]
Str                == [k |-> "str"]
Unit               == [k |-> "unit"]
Opt(t)             == [k |-> "opt", of |-> t]
Vec(t)             == [k |-> "vec", of |-> t]
Struct(n, fs)      == [k |-> "struct", name |-> n, fields |-> fs]
Enum(n, vs)        == [k |-> "enum", name |-> n, variants |-> vs]
Field(n, t, rs)    == [name |-> n, ty |-> t, rules |-> rs, skip |-> FALSE, with |-> ""]
Skipped(n, t, m)   == [name |-> n, ty |-> t, rules |-> <<>>, skip |-> m = "", with |-> m]
Variant(n, fs)     == [name |-> n, fields |-> fs]
Payload            == <<"__0">>

Bound(cmp, n)      == [k |-> cmp, n |-> n, plain |-> n >= 0]
Length(min, max)   == [k |-> "len", min |-> min, max |-> max, plain |-> min >= 0 /\ max >= 0]
OneOf(vals)        == [k |-> "of", vals |-> vals, plain |-> TRUE]

(* The members of a sequence at some of its indices, in their order.       *)
Chosen(s, indices) ==
  LET upTo[i \in 0..Len(s)] == IF i = 0 THEN <<>>
                               ELSE IF i \in indices THEN Append(upTo[i - 1], s[i]) ELSE upTo[i - 1]
  IN  upTo[Len(s)]

(* marker.rs, should_include_field. *)
IsIncluded(f) == ~f.skip /\ (f.with = "" \/ f.with # Marker)
Included(fields) == Chosen(fields, {i \in DOMAIN fields : IsIncluded(fields[i])})

(* The types a type is made of.  What follows the structure of a type is a *)
(* function of the type that uses its own values for these.                *)
Parts(t) ==
  LET Inside(fields) == {f.ty : f \in Range(Included(fields))}
  IN  CASE t.k \in {"opt", "vec"} -> {t.of}
        [] t.k = "struct"         -> Inside(t.fields)
        [] t.k = "enum"           -> UNION {Inside(x.fields) : x \in Range(t.variants)}
        [] OTHER                  -> {}

(* The types inside a type, itself among them. *)
WithinOf(inside, t) == {t} \cup UNION {inside[u] : u \in Parts(t)}
Within[t \in Types] == WithinOf([u \in Parts(t) |-> Within[u]], t)

(* The struct or enum inside the wrappers, which is what the generators    *)
(* get as "structure" beside the type.                                     *)
StructureOf(inside, t) == IF t.k \in {"opt", "vec"} THEN inside[t.of] ELSE t
Structure[t \in Types] == StructureOf([u \in Parts(t) |-> Structure[u]], t)

(* A variant whose only field has no name: its data is the payload. *)
IsTuple(v) == Len(v.fields) = 1 /\ v.fields[1].name = Payload

(***************************************************************************)
(* What the derive macro and Rust see to.  A type is made of types that    *)
(* were there before it, fields and variants have names of their own, the  *)
(* tag has room for the variants.  Two things the generators rely on: the  *)
(* unit type is a whole return type, and a payload is never skipped.       *)
(***************************************************************************)
IsSeq(s)         == s \in Seq(Range(s))
Distinct(fields) == \A i, j \in DOMAIN fields : fields[i].name = fields[j].name => i = j
IsRule(r)        == /\ r.k \in {"gt", "gte", "lt", "lte", "len", "of"}
                    /\ r.k = "len" => r.min \in Int /\ r.max \in Int /\ (r.plain => r.min >= 0 /\ r.max >= 0)
WellMade(fields) == /\ IsSeq(fields) /\ Distinct(Included(fields))
                    /\ \A f \in Range(fields) : \A i \in DOMAIN f.rules : IsRule(f.rules[i])

WellFormed(t) ==
  /\ t.k \in {"int", "bool", "str", "unit", "opt", "vec", "struct", "enum"}
  /\ t.k = "int" => t.w \in {1, 2, 4, 8} /\ t.s \in BOOLEAN
  /\ t.k = "struct" => WellMade(t.fields)
  /\ t.k = "enum" => /\ IsSeq(t.variants) /\ Distinct(t.variants) /\ Len(t.variants) <= Pow[TagWidth]
                     /\ \A i \in DOMAIN t.variants : LET x == t.variants[i] IN
                          WellMade(x.fields) /\ (IsTuple(x) => IsIncluded(x.fields[1]))
  /\ \A u \in Parts(t) : u.k # "unit"

ASSUME TagAssumption == TagWidth \in {1, 2, 4}

ASSUME LayersAssumption ==
  /\ Layers \in Seq(SUBSET Types)
  /\ \A i \in DOMAIN Layers : \A t \in Layers[i] :
       WellFormed(t) /\ \A u \in Parts(t) : \E j \in 1..i - 1 : u \in Layers[j]

(* Values of structs are functions of the included fields, values of enums *)
(* pairs of tag and data.                                                  *)
FromFields(fields, vals) == [n \in {fields[i].name : i \in DOMAIN fields} |->
                               vals[CHOOSE i \in DOMAIN fields : fields[i].name = n]]

Digits(w, n) == [i \in 1..w |-> (n \div Pow[i - 1]) % Base]
Unsigned(ds) == LET below[i \in 0..Len(ds)] == IF i = 0 THEN 0 ELSE below[i - 1] + ds[i] * Pow[i - 1]
                IN  below[Len(ds)]
Signed(ds)   == LET n == Unsigned(ds)
                IN  IF 2 * n >= Pow[Len(ds)] THEN n - Pow[Len(ds)] ELSE n
Number(t, ds) == IF t.s THEN Signed(ds) ELSE Unsigned(ds)
Numbers(t)    == IF t.s THEN -(Pow[t.w] \div 2) .. Pow[t.w] \div 2 - 1 ELSE 0 .. Pow[t.w] - 1

(* The values of a type are such: a list or a string has a length that     *)
(* fits into the count before it.                                          *)
FieldsFit(fields, v) ==
  /\ v = [n \in {fields[i].name : i \in DOMAIN fields} |-> v[n]]
  /\ \A i \in DOMAIN fields : v[fields[i].name] \in Values[fields[i].ty]

Fits(t, v) ==
  CASE t.k = "int"    -> v \in Numbers(t)
    [] t.k = "bool"   -> v \in BOOLEAN
    [] t.k = "str"    -> v \in Cells /\ Len(v) < Pow[4]
    [] t.k = "unit"   -> v = None
    [] t.k = "opt"    -> v = None \/ v \in Values[t.of]
    [] t.k = "vec"    -> v \in Seq(Values[t.of]) /\ Len(v) < Pow[4]
    [] t.k = "struct" -> FieldsFit(Included(t.fields), v)
    [] t.k = "enum"   -> \E i \in DOMAIN t.variants : LET x == t.variants[i] IN
                         /\ v = <<x.name, v[2]>>
                         /\ IF x.fields = <<>> THEN v[2] = None
                            ELSE IF IsTuple(x) THEN v[2] \in Values[x.fields[1].ty]
                            ELSE FieldsFit(Included(x.fields), v[2])

ASSUME ValuesAssumption == \A t \in Types : \A v \in Values[t] : Fits(t, v)

(* What is not there is no value of anything else. *)
ASSUME NoneAssumption == \A t \in Types : None \in Values[t] => t.k \in {"opt", "unit"}

(* What reading gives: a value, or nothing, and the cells that are left.   *)
Got(v, rest)  == [ok |-> TRUE, v |-> v, rest |-> rest]
Failed(d)     == [ok |-> FALSE, v |-> None, rest |-> d]
Rest(d, n)    == SubSeq(d, n + 1, Len(d))

(* What is made of what was read, when something was. *)
Made(r, v)    == IF r.ok THEN Got(v, r.rest) ELSE r

(* Several values are read in turn, each from where the one before it      *)
(* ended, until one fails.                                                 *)
ReadAll(read, ts, d) ==
  LET upTo[i \in 0..Len(ts)] ==
        IF i = 0 THEN Got(<<>>, d)
        ELSE LET before == upTo[i - 1]
                 last   == read[ts[i]][before.rest]
             IN  IF before.ok THEN Made(last, Append(before.v, last.v)) ELSE before
  IN  upTo[Len(ts)]

FieldTypes(fields) == [i \in DOMAIN fields |-> fields[i].ty]

(* How many items a list or a string claims to have. *)
Count(d) == Unsigned(SubSeq(d, 1, 4))

(* The fields of a struct or a variant, one after the other. *)
WriteFields(write, fields, v) ==
  FlattenSeq([i \in DOMAIN Included(fields) |-> write[Included(fields)[i].ty][v[Included(fields)[i].name]]])

(***************************************************************************)
(* The server, external.                                                   *)
(***************************************************************************)
ServerWriteOf(write, t) ==
  [v \in Values[t] |->
    CASE t.k = "int"    -> Digits(t.w, v)
      [] t.k = "bool"   -> IF v THEN <<1>> ELSE <<0>>
      [] t.k = "str"    -> Digits(4, Len(v)) \o v
      [] t.k = "unit"   -> <<>>
      [] t.k = "opt"    -> IF v = None THEN <<0>> ELSE <<1>> \o write[t.of][v]
      [] t.k = "vec"    -> Digits(4, Len(v)) \o FlattenSeq([i \in DOMAIN v |-> write[t.of][v[i]]])
      [] t.k = "struct" -> WriteFields(write, t.fields, v)
      [] t.k = "enum"   -> LET i == CHOOSE j \in DOMAIN t.variants : t.variants[j].name = v[1]
                               x == t.variants[i]
                           IN  Digits(TagWidth, i - 1)
                               \o WriteFields(write, x.fields, IF IsTuple(x) THEN [n \in {Payload} |-> v[2]] ELSE v[2])]

ServerWrite[t \in Types] == ServerWriteOf([u \in Parts(t) |-> ServerWrite[u]], t)

(* What a rule asks of a value that is there. *)
Satisfied(r, v) ==
  CASE r.k = "gt"  -> v > r.n
    [] r.k = "gte" -> v >= r.n
    [] r.k = "lt"  -> v < r.n
    [] r.k = "lte" -> v <= r.n
    [] r.k = "len" -> (r.min < 0 \/ Len(v) >= r.min) /\ (r.max < 0 \/ Len(v) <= r.max)
    [] r.k = "of"  -> v \in r.vals

Obeyed(f, v) == v = None \/ \A i \in DOMAIN f.rules : Satisfied(f.rules[i], v)

(* Reading validates each struct and variant as it is completed.           *)
ServerReadFields(read, fields, d) ==
  LET fs == Included(fields)
      r  == ReadAll(read, FieldTypes(fs), d)
  IN  IF r.ok /\ \E i \in DOMAIN fs : ~Obeyed(fs[i], r.v[i]) THEN Failed(d) ELSE Made(r, FromFields(fs, r.v))

ServerReadInt(t, d) ==
  IF Len(d) < t.w THEN Failed(d) ELSE Got(Number(t, SubSeq(d, 1, t.w)), Rest(d, t.w))

ServerReadOf(read, t) ==
  [d \in Cells |->
    CASE t.k = "int"    -> ServerReadInt(t, d)
      [] t.k = "bool"   -> IF d = <<>> \/ Head(d) > 1 THEN Failed(d) ELSE Got(Head(d) = 1, Tail(d))
      [] t.k = "str"    -> IF Len(d) < 4 \/ Len(d) < 4 + Count(d) THEN Failed(d)
                           ELSE Got(SubSeq(d, 5, 4 + Count(d)), Rest(d, 4 + Count(d)))
      [] t.k = "unit"   -> Got(None, d)
      [] t.k = "opt"    -> IF d = <<>> \/ Head(d) > 1 THEN Failed(d)
                           ELSE IF Head(d) = 0 THEN Got(None, Tail(d)) ELSE read[t.of][Tail(d)]
      [] t.k = "vec"    -> IF Len(d) < 4 THEN Failed(d)
                           ELSE ReadAll(read, [i \in 1..Count(d) |-> t.of], Rest(d, 4))
      [] t.k = "struct" -> ServerReadFields(read, t.fields, d)
      [] t.k = "enum"   -> LET i == ServerReadInt(IntType(TagWidth, FALSE), d) IN
                           IF ~i.ok \/ i.v \notin 0..Len(t.variants) - 1 THEN Failed(d)
                           ELSE LET x == t.variants[i.v + 1]
                                    r == ServerReadFields(read, x.fields, i.rest)
                                IN  Made(r, <<x.name, IF x.fields = <<>> THEN None
                                                      ELSE IF IsTuple(x) THEN r.v[Payload] ELSE r.v>>)]

ServerRead[t \in Types] == ServerReadOf([u \in Parts(t) |-> ServerRead[u]], t)

(* The parameters of a handler: its extractors, by their kind. *)
Of(params, kind) == Chosen(params, {i \in DOMAIN params : params[i].x = kind})
IsStruct(p)      == p.ty.k = "struct"

(* build_call_invoker_impl: the extractors of the handler in the order of  *)
(* its signature, each from where the one before it ended; what is left of *)
(* the payload is not looked at.                                           *)
Extracted(params, d) == LET r == ReadAll(ServerRead, FieldTypes(params), d) IN IF r.ok THEN r.v ELSE Broken
=============================================================================
