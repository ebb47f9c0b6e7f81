-------------------------------- MODULE Web ---------------------------------
(***************************************************************************)
(* The values of an ordinary (JSON over HTTP) handler as text: what an URL *)
(* holds of them and what the extractors Param, Query, Header and Body of  *)
(* app/ordinary.rs and app/extractors.rs make of it.                       *)
(*                                                                         *)
(* A text is a sequence of characters, a character a string.  The name of  *)
(* a field is the sequence of its words; as text, one character per word.  *)
(***************************************************************************)
EXTENDS Wire

CONSTANT Unsafe   \* the characters that an URL has to escape, among them & = /

ASSUME {"&", "=", "/", ":"} \subseteq Unsafe

Routes == INSTANCE Router

(* String(value), toString, ToString. *)
Text(t, v) == CASE t.k = "int"  -> <<ToString(v)>>
                [] t.k = "bool" -> <<IF v THEN "true" ELSE "false">>
                [] t.k = "opt"  -> IF v = None THEN <<"null">>
                                   ELSE IF t.of.k = "str" THEN v ELSE <<ToString(v)>>
                [] OTHER        -> v

Escape(text)     == [i \in DOMAIN text |-> IF text[i] \in Unsafe THEN "%" \o text[i] ELSE text[i]]
EscapeForm(text) == [i \in DOMAIN text |-> IF text[i] = " " THEN "+" ELSE Escape(text)[i]]

(* percent_decode *)
PercentDecode(text) ==
  [i \in DOMAIN text |-> IF text[i] = "+" THEN " "
                         ELSE IF \E c \in Unsafe : text[i] = "%" \o c
                         THEN CHOOSE c \in Unsafe : text[i] = "%" \o c ELSE text[i]]

Split(text, c) == FoldLeft(LAMBDA acc, x : IF x = c THEN Append(acc, <<>>)
                                           ELSE [acc EXCEPT ![Len(acc)] = Append(@, x)], <<<<>>>>, text)
Join(texts, c) == FoldLeft(LAMBDA acc, x : IF acc = <<>> THEN x ELSE acc \o <<c>> \o x, <<>>, texts)

(* A path is a pattern with texts in the place of some of its parameters;  *)
(* a parameter left in it is sent as it is written, with its colon.        *)
Sent(path) == FlattenSeq([i \in DOMAIN path |->
                <<"/">> \o IF path[i].kind = "static" THEN path[i].text ELSE <<":">> \o path[i].text])

(* The headers a function gave, without those that are null. *)
NotNull(h) == [n \in {m \in DOMAIN h : h[m] # None} |-> h[n]]

-----------------------------------------------------------------------------
(* The server.  A JSON object is a function of its keys.                   *)

(* parse_query_to_json: the last of several values of a key counts. *)
QueryJson(text) ==
  FoldLeft(LAMBDA acc, pair : LET kv == Split(pair, "=")
                                  v  == IF Len(kv) = 1 THEN <<>> ELSE Join(Tail(kv), "=")
                              IN  IF kv[1] = <<>> THEN acc
                                  ELSE (PercentDecode(kv[1]) :> PercentDecode(v)) @@ acc,
           <<>>, Split(text, "&"))

(* path_params_to_json: what the router captured, as it stands in the URL. *)
ParamsJson(pattern, path) == LET c == Routes!Captures(pattern, path) IN [n \in DOMAIN c |-> c[n][1]]

(* from_value_lenient, for a string: it may stand for a number or a bool. *)
Bare[t \in Types] == IF t.k = "opt" THEN Bare[t.of] ELSE t
Lenient(t, text) ==
  LET b == Bare[t] IN
  CASE b.k = "int"  -> IF \E n \in Numbers(b) : <<ToString(n)>> = text
                       THEN CHOOSE n \in Numbers(b) : <<ToString(n)>> = text ELSE Broken
    [] b.k = "bool" -> IF text \in {<<"true">>, <<"false">>} THEN text = <<"true">> ELSE Broken
    [] OTHER        -> text

(* A struct of one JSON object: every field but an Option must be there.   *)
(* Text out of an URL is read leniently.                                   *)
FromJson(fields, json, lenient) ==
  LET v == [i \in DOMAIN fields |->
              LET f == fields[i] IN
              IF f.name \in DOMAIN json THEN LET x == json[f.name] IN IF lenient THEN Lenient(f.ty, x) ELSE x
              ELSE IF f.ty.k = "opt" THEN None ELSE Broken]
  IN  IF \E i \in DOMAIN v : v[i] = Broken THEN Broken ELSE FromFields(fields, v)

(* fill_standard_header_defaults: a field named like a header that every   *)
(* browser sends is empty when the request has no such header.             *)
StandardHeaders == {<<"content", "type">>}
HeaderJson(fields, headers) ==
  headers @@ [n \in {fields[i].name : i \in DOMAIN fields} \cap StandardHeaders |-> <<>>]

(* The first extractor of a kind; a struct without fields where none is.  *)
FieldsOf(params, kind) ==
  LET ps == SelectSeq(params, LAMBDA p : p.x = kind)
  IN  IF ps = <<>> THEN <<>> ELSE ps[1].ty.fields

(* build_ordinary_invoker_impl, after the router found the handler. *)
Extract(api, url, headers, body) ==
  LET path == Split(Tail(url.path), "/")
      got == [params  |-> FromJson(FieldsOf(api.params, "Param"), ParamsJson(api.path, path), TRUE),
              queries |-> FromJson(FieldsOf(api.params, "Query"), QueryJson(url.query), TRUE),
              headers |-> LET fs == FieldsOf(api.params, "Header") IN FromJson(fs, HeaderJson(fs, headers), FALSE),
              body    |-> FromJson(FieldsOf(api.params, "Body"), body, FALSE)]
  IN  IF ~Routes!Matches(api.path, path) \/ \E p \in DOMAIN got : got[p] = Broken THEN Broken ELSE got
=============================================================================
