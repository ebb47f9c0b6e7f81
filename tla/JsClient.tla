------------------------------ MODULE JsClient ------------------------------
(***************************************************************************)
(* codegen/js.rs.  The JavaScript it generates does what the TypeScript    *)
(* of codegen/ts.rs does, with JSDoc in the place of the types: what       *)
(* differs is that Content-Type is set after the headers functions ran.    *)
(***************************************************************************)
EXTENDS TsClient

(* generate_request_serialize_js, response_expr_js, generate_return_js *)
JsWrite        == TsWrite
JsRead         == TsRead
JsReturn(t, d) == TsReturn(t, d)

(* generate_validation_js, generate_enum_validation_js, and the checks of a rule *)
JsFieldsPass(passes, fields, v)     == TsFieldsPass(passes, fields, v)
JsVariantsPass(passes, variants, v) == TsVariantsPass(passes, variants, v)
JsCheck(r, x)                       == TsCheck(r, x)

(* handler_method_js *)
JsPreflight(params, customs, args) == TsPreflight(params, customs, args)
JsRequest(params, customs, args) ==
  LET cs == Of(params, "Custom")
      ds == Of(params, "Data")
  IN  FlattenSeq([i \in DOMAIN cs |-> IF IsStruct(cs[i]) THEN JsWrite[cs[i].ty][customs[i]] ELSE <<>>])
      \o FlattenSeq([i \in DOMAIN ds |-> JsWrite[ds[i].ty][args[i]]])
JsCacheRequest(params, args) == args

(* ordinary_handler_method_js *)
JsPath(api, params)  == TsPath(api, params)
JsQuery(api, query)  == TsQuery(api, query)
JsUrl(api, args)     == [path |-> Sent(JsPath(api, args.params)), query |-> JsQuery(api, args.queries)]
JsHeaders(api, given) == JsonType(api) @@ FoldLeft(LAMBDA acc, h : NotNull(h) @@ acc, <<>>, given)
JsBody(api, body)    == body
JsOrdinaryCacheRequest(api, args) == <<JsUrl(api, args), args.body>>
JsOrdinaryReturn(fields, json)    == json

(* The @typedefs: handler_type_exports_js, collect_type_exports_js *)
JsTypeExports(acc, h) == TypeExports(acc, h)
JsExports(service)    == FoldLeft(JsTypeExports, [emitted |-> {}, declared |-> {}], service).declared
=============================================================================
