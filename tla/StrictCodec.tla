----------------------------- MODULE StrictCodec -----------------------------
(***************************************************************************)
(* What the generated Rust, Kotlin and C# code does with bytes and with    *)
(* the rules of a type.  Unlike JavaScript these languages fail when they  *)
(* read past the end or meet a tag that names no variant, and they know    *)
(* whether an Option is empty.  The generators differ in two points:       *)
(* signless, are all integers signed, whatever Rust says (Kotlin), and     *)
(* enumsToo, do the checks of a field look into enums (not in Rust).  What *)
(* does not compile is not a behaviour: of each language only the types    *)
(* that do are considered (see MCCalls).                                   *)
(***************************************************************************)
EXTENDS Web

(* The readers: two's complement where the type that the value is          *)
(* converted to has a sign.                                                *)
StrictReadInt(signless, t, d) ==
  IF Len(d) < t.w THEN Failed(d)
  ELSE LET ds == SubSeq(d, 1, t.w)
       IN  Got(IF t.s \/ signless THEN Signed(ds) ELSE Unsigned(ds), Rest(d, t.w))

(* Those that are read as they were written. *)
StrictNumber(signless, t) == t.k = "int" /\ signless => t.s

StrictReadByte(d) == IF d = <<>> THEN Failed(d) ELSE Got(Head(d), Tail(d))

(* The expressions that build a value from a reader. *)
StrictReadFields(read, fields, d) ==
  LET r == ReadAll(read, FieldTypes(Included(fields)), d)
  IN  Made(r, FromFields(Included(fields), r.v))

StrictReadVariant(read, x, d) ==
  LET r == IF IsTuple(x) THEN read[x.fields[1].ty][d] ELSE StrictReadFields(read, x.fields, d)
  IN  Made(r, <<x.name, IF x.fields = <<>> THEN None ELSE r.v>>)

StrictReadOf(signless, read, t) ==
  [d \in Cells |->
    CASE t.k = "int"    -> StrictReadInt(signless, t, d)
      [] t.k = "bool"   -> LET r == StrictReadByte(d) IN Made(r, r.v = 1)
      [] t.k = "str"    -> IF Len(d) < 4 \/ Len(d) < 4 + Count(d) THEN Failed(d)
                           ELSE Got(SubSeq(d, 5, 4 + Count(d)), Rest(d, 4 + Count(d)))
      [] t.k = "vec"    -> IF Len(d) < 4 THEN Failed(d)
                           ELSE ReadAll(read, [i \in 1..Count(d) |-> t.of], Rest(d, 4))
      [] t.k = "opt"    -> LET r == StrictReadByte(d) IN
                           IF r.ok THEN IF r.v = 1 THEN read[t.of][r.rest] ELSE Got(None, r.rest) ELSE r
      [] t.k = "struct" -> StrictReadFields(read, t.fields, d)
      [] t.k = "enum"   -> LET i == Unsigned(SubSeq(d, 1, TagWidth)) IN
                           IF Len(d) < TagWidth \/ i >= Len(t.variants) THEN Failed(d)
                           ELSE StrictReadVariant(read, t.variants[i + 1], Rest(d, TagWidth))]

StrictRead(signless) ==
  LET read[t \in Types] == StrictReadOf(signless, [u \in Parts(t) |-> read[u]], t) IN read

(* The statements that write a value. *)
StrictWriteOf(write, t) ==
  [v \in Values[t] |->
    CASE t.k = "int"    -> Digits(t.w, v)
      [] t.k = "bool"   -> <<IF v THEN 1 ELSE 0>>
      [] t.k = "str"    -> Digits(4, Len(v)) \o v
      [] t.k = "vec"    -> Digits(4, Len(v)) \o FlattenSeq([i \in DOMAIN v |-> write[t.of][v[i]]])
      [] t.k = "opt"    -> IF v = None THEN <<0>> ELSE <<1>> \o write[t.of][v]
      [] t.k = "struct" -> WriteFields(write, t.fields, v)
      [] t.k = "enum"   -> LET i == CHOOSE j \in DOMAIN t.variants : t.variants[j].name = v[1]
                               x == t.variants[i]
                           IN  Digits(TagWidth, i - 1)
                               \o (IF IsTuple(x) THEN write[x.fields[1].ty][v[2]]
                                   ELSE WriteFields(write, x.fields, v[2]))]

StrictWrite[t \in Types] == StrictWriteOf([u \in Parts(t) |-> StrictWrite[u]], t)

(***************************************************************************)
(* Validation.  A rule is the comparison it names.  The payload of a tuple *)
(* variant is checked by its own rules only.  A check of the items of a    *)
(* list does not compile.                                                  *)
(***************************************************************************)
StrictCheck(r, x) == CASE r.k = "len" -> Len(x) >= r.min /\ Len(x) <= r.max
                       [] r.k = "of"  -> x \in r.vals
                       [] OTHER       -> Satisfied(r, x)

StrictChecks(f, x) == \A i \in DOMAIN f.rules : f.rules[i].plain => StrictCheck(f.rules[i], x)

StrictFieldsPass(passes, fields, v) ==
  \A i \in DOMAIN Included(fields) :
    LET f == Included(fields)[i]
        x == v[f.name]
    IN  \/ f.ty.k = "opt" /\ x = None
        \/ StrictChecks(f, x) /\ passes[f.ty][x]

StrictVariantsPass(passes, variants, v) ==
  \A i \in DOMAIN variants :
    LET x == variants[i] IN
    v[1] = x.name /\ x.fields # <<>> =>
      IF IsTuple(x) THEN StrictChecks(x.fields[1], v[2]) ELSE StrictFieldsPass(passes, x.fields, v[2])

StrictPassesOf(enumsToo, passes, t) ==
  [v \in Values[t] |->
    CASE t.k = "opt"    -> passes[t.of][v]
      [] t.k = "struct" -> StrictFieldsPass(passes, t.fields, v)
      [] t.k = "enum"   -> enumsToo => StrictVariantsPass(passes, t.variants, v)
      [] OTHER          -> TRUE]

StrictPasses(enumsToo) ==
  LET passes[t \in Types] == StrictPassesOf(enumsToo, [u \in Parts(t) |-> passes[u]], t) IN passes
=============================================================================
