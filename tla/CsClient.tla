------------------------------ MODULE CsClient ------------------------------
(***************************************************************************)
(* codegen/cs.rs: the C# methods.                                          *)
(***************************************************************************)
EXTENDS StrictCodec

(* generate_request_serialize_cs, response_expr_cs, generate_return_cs *)
CsWrite        == StrictWrite
CsRead         == StrictRead(FALSE)
CsReturn(t, d) == IF t.k = "unit" THEN None ELSE CsRead[t][d].v

(* generate_validation_cs, emit_validation_checks_cs *)
CsPasses    == StrictPasses(TRUE)
CsCheck(r, x) == StrictCheck(r, x)

(***************************************************************************)
(* handler_method_cs.  A method with a Custom parameter does not compile:  *)
(* what the function returns is cast to the name of the variable.          *)
(***************************************************************************)
CsPreflight(params, customs, args) ==
  LET ds == Of(params, "Data")
  IN  \A i \in DOMAIN ds : IsStruct(ds[i]) => CsPasses[ds[i].ty][args[i]]
CsRequest(params, customs, args) ==
  LET ds == Of(params, "Data") IN FlattenSeq([i \in DOMAIN ds |-> CsWrite[ds[i].ty][args[i]]])

(* ToString of a class that does not define it is the name of the class.   *)
CsCacheRequest(params, args) == LET ds == Of(params, "Data") IN [i \in DOMAIN ds |-> ds[i].ty.name]

(***************************************************************************)
(* ordinary_handler_method_cs.  Replace takes every occurrence; the = of   *)
(* a query is escaped with the name; no headers functions are asked.       *)
(***************************************************************************)
Replaced(path, name, text) ==
  [i \in DOMAIN path |->
     IF path[i].kind = "param" /\ IsPrefix(name, path[i].text)
     THEN Routes!Static(text \o Rest(path[i].text, Len(name))) ELSE path[i]]

CsPath(api, params) ==
  FoldLeft(LAMBDA acc, f : Replaced(acc, f.name, Escape(Text(f.ty, params[f.name]))),
           api.path, Included(FieldsOf(api.params, "Param")))

IsDefault(v) == v \in {None, FALSE} \/ v = 0
CsQuery(api, queries) ==
  LET given == SelectSeq(Included(FieldsOf(api.params, "Query")), LAMBDA f : ~IsDefault(queries[f.name]))
  IN  Join([i \in DOMAIN given |-> Escape(given[i].name \o <<"=">>)
                                   \o Escape(Text(given[i].ty, queries[given[i].name]))], "&")

CsUrl(api, args) == [path |-> Sent(CsPath(api, args.params)), query |-> CsQuery(api, args.queries)]

CsHeaders(api, given) ==
  IF FieldsOf(api.params, "Body") = <<>> THEN <<>> ELSE <<"content", "type">> :> <<"application/json">>

(* JsonSerializer takes the names of the C# properties, in Pascal case,    *)
(* and finds none of them in what the server sends.                        *)
Pascal(name) == <<"Pascal">> \o name
CsBody(api, body) == [n \in {Pascal(m) : m \in DOMAIN body} |-> body[Tail(n)]]
CsOrdinaryReturn(fields, json) == [n \in DOMAIN json |-> IF Pascal(n) \in DOMAIN json THEN json[Pascal(n)] ELSE None]

CsOrdinaryCacheRequest(api, args) == api.name
=============================================================================
