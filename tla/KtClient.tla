------------------------------ MODULE KtClient ------------------------------
(***************************************************************************)
(* codegen/kt.rs: the Kotlin methods.  Every integer is a Byte, Short, Int *)
(* or Long, whether Rust's has a sign or not.                              *)
(***************************************************************************)
EXTENDS StrictCodec

(* generate_request_serialize_kt, response_expr_kt, generate_return_kt *)
KtWrite        == StrictWrite
KtRead         == StrictRead(TRUE)
KtReturn(t, d) == IF t.k = "unit" THEN None ELSE KtRead[t][d].v

(* generate_validation_kt, emit_validation_checks_kt, generate_enum_validation_kt *)
KtPasses    == StrictPasses(TRUE)
KtCheck(r, x) == StrictCheck(r, x)
KtVariantsPass(passes, variants, v) == StrictVariantsPass(passes, variants, v)

(***************************************************************************)
(* handler_method_kt                                                       *)
(***************************************************************************)
KtValid(ps, vals)  == \A i \in DOMAIN ps : IsStruct(ps[i]) => KtPasses[ps[i].ty][vals[i]]

KtPreflight(params, customs, args) == KtValid(Of(params, "Custom"), customs) /\ KtValid(Of(params, "Data"), args)

KtRequest(params, customs, args) ==
  LET cs == Of(params, "Custom")
      ds == Of(params, "Data")
  IN  FlattenSeq([i \in DOMAIN cs |-> IF IsStruct(cs[i]) THEN KtWrite[cs[i].ty][customs[i]] ELSE <<>>])
      \o FlattenSeq([i \in DOMAIN ds |-> KtWrite[ds[i].ty][args[i]]])

(* toString of a data class names every field, so it tells requests apart  *)
(* as long as no string holds what separates the fields.                   *)
KtCacheRequest(params, args) == args

(***************************************************************************)
(* ordinary_handler_method_kt.  The path is walked once: each field is     *)
(* looked for behind the one before it.  Nothing is escaped.               *)
(***************************************************************************)
KtWalk(acc, f, text) ==
  LET hits == {i \in DOMAIN acc.left : acc.left[i].kind = "param" /\ IsPrefix(f.name, acc.left[i].text)}
      i    == Min(hits)
  IN  IF hits = {} THEN acc
      ELSE [done |-> acc.done \o Sent(SubSeq(acc.left, 1, i - 1)) \o <<"/">> \o text
                     \o Rest(acc.left[i].text, Len(f.name)),
            left |-> Rest(acc.left, i)]

KtPath(api, params) ==
  LET w == FoldLeft(LAMBDA acc, f : KtWalk(acc, f, Text(f.ty, params[f.name])),
                    [done |-> <<>>, left |-> api.path], Included(FieldsOf(api.params, "Param")))
  IN  w.done \o Sent(w.left)

KtQuery(api, queries) ==
  LET given == SelectSeq(Included(FieldsOf(api.params, "Query")), LAMBDA f : queries[f.name] # None)
  IN  Join([i \in DOMAIN given |-> given[i].name \o <<"=">> \o Text(given[i].ty, queries[given[i].name])], "&")

KtUrl(api, args) == [path |-> KtPath(api, args.params), query |-> KtQuery(api, args.queries)]

KtHeaders(api, given) ==
  (IF FieldsOf(api.params, "Body") = <<>> THEN <<>> ELSE <<"content", "type">> :> <<"application/json">>)
  @@ FoldLeft(LAMBDA acc, h : NotNull(h) @@ acc, <<>>, given)

(* Gson takes the names of the Kotlin fields, which are in camel case: a   *)
(* name of several words is another name.                                  *)
Camel(name) == IF Len(name) > 1 THEN <<"camel">> \o name ELSE name
KtBody(api, body) == LET old(n) == CHOOSE m \in DOMAIN body : Camel(m) = n
                   IN  [n \in {Camel(m) : m \in DOMAIN body} |-> body[old(n)]]
KtOrdinaryReturn(fields, json) ==
  [n \in DOMAIN json |-> IF Camel(n) \in DOMAIN json THEN json[Camel(n)] ELSE None]

KtOrdinaryCacheRequest(api, args) == args
=============================================================================
