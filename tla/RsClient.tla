------------------------------ MODULE RsClient ------------------------------
(***************************************************************************)
(* codegen/rs.rs: the Rust methods.  There is no cache, and ordinary       *)
(* handlers get no method.                                                 *)
(***************************************************************************)
EXTENDS StrictCodec

(* generate_request_serialize_rs, response_expr_rs, generate_return_rs *)
RsWrite        == StrictWrite
RsRead         == StrictRead(FALSE)
RsReturn(t, d) == IF t.k = "unit" THEN None ELSE RsRead[t][d].v

(* generate_validation_rs, emit_validation_checks_rs *)
RsPasses    == StrictPasses(FALSE)
RsCheck(r, x) == StrictCheck(r, x)

(* handler_method_rs: the arguments are validated before the customs       *)
(* functions are called, and what those give is not validated.             *)
RsPreflight(params, customs, args) ==
  LET ds == Of(params, "Data")
  IN  \A i \in DOMAIN ds : IsStruct(ds[i]) => RsPasses[ds[i].ty][args[i]]
RsRequest(params, customs, args) ==
  LET cs == Of(params, "Custom")
      ds == Of(params, "Data")
  IN  FlattenSeq([i \in DOMAIN cs |-> IF IsStruct(cs[i]) THEN RsWrite[cs[i].ty][customs[i]] ELSE <<>>])
      \o FlattenSeq([i \in DOMAIN ds |-> RsWrite[ds[i].ty][args[i]]])
=============================================================================
