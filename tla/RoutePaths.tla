----------------------------- MODULE RoutePaths -----------------------------
(***************************************************************************)
(* What becomes of a path: joined and matched (build.rs, axum), stripped   *)
(* of its prefix and rewritten (proxy.rs, template.rs of apigate-macros),  *)
(* and searched for a sticky parameter (path_sticky.rs).  A text is a      *)
(* sequence of tokens; "/", "{" and "}" are themselves, every other token  *)
(* is some non-empty text without them.                                    *)
(***************************************************************************)
EXTENDS Naturals, Sequences, SequencesExt, FiniteSetsExt

CONSTANT MaxCaptures   \* parameters a template can address (u8::MAX + 1)

(* Recursive functions do here what SelectSeq, SelectInSeq and FlattenSeq   *)
(* do: the numbers of S up to n in order, the members of a list at the     *)
(* places S, the first of S (0 if none is), and lists joined to one.       *)
InOrder(S, n) ==
  LET at[k \in 0 .. n] ==
        IF k = 0 THEN <<>> ELSE IF k \in S THEN Append(at[k - 1], k) ELSE at[k - 1]
  IN  at[n]
Chosen(s, S) == LET at == InOrder(S, Len(s)) IN [j \in DOMAIN at |-> s[at[j]]]
First(S)     == IF S = {} THEN 0 ELSE Min(S)
Flatten(ss) ==
  LET f[k \in 0 .. Len(ss)] == IF k = 0 THEN <<>> ELSE f[k - 1] \o ss[k] IN f[Len(ss)]

(* split('/') and split('/').filter(non-empty). *)
PieceStep(ps, token) == IF token = "/" THEN Append(ps, <<>>)
                                       ELSE Append(Front(ps), Append(Last(ps), token))
Pieces(text) ==
  LET ps[k \in 0 .. Len(text)] == IF k = 0 THEN <<<<>>>> ELSE PieceStep(ps[k - 1], text[k])
  IN  ps[Len(text)]
Segments(text) == LET ps == Pieces(text) IN Chosen(ps, {k \in DOMAIN ps : ps[k] # <<>>})

IsParam(seg)   == Len(seg) > 1 /\ Head(seg) = "{" /\ Last(seg) = "}"
ParamName(seg) == SubSeq(seg, 2, Len(seg) - 1)
ParamsIn(segs) == {k \in DOMAIN segs : IsParam(segs[k])}
Named(segs, name) == {k \in ParamsIn(segs) : ParamName(segs[k]) = name}
Without(prefix, text) == SubSeq(text, Len(prefix) + 1, Len(text))

-----------------------------------------------------------------------------
(* build.rs: join. *)

TrimSlashes(text) ==
  SubSeq(text, 1, Max({i \in DOMAIN text : text[i] # "/"} \union {0}))
Join(prefix, path) ==
  TrimSlashes(prefix) \o (IF path # <<>> /\ Head(path) = "/" THEN path ELSE <<"/">> \o path)

(* axum's matcher: a parameter is one whole non-empty segment. *)
PathMatches(pattern, path) ==
  LET ps == Pieces(pattern)
      segs == Pieces(path)
  IN  /\ Len(ps) = Len(segs)
      /\ \A k \in DOMAIN ps : IF IsParam(ps[k]) THEN segs[k] # <<>> ELSE ps[k] = segs[k]

ParamAt(pattern, k) == IsParam(Pieces(pattern)[k])

(* The segment that the router matched with a parameter, as it was sent    *)
(* (extractors get it percent-decoded); should two share a name, the first. *)
Captured(pattern, path, name) == Pieces(path)[First(Named(Pieces(pattern), name))]
ParamNames(pattern) == {ParamName(Pieces(pattern)[k]) : k \in ParamsIn(Pieces(pattern))}

-----------------------------------------------------------------------------
(* template.rs: `to` compiled against the route path. *)

RouteParams(path) == LET ps == Chosen(Segments(path), ParamsIn(Segments(path)))
                     IN  [k \in DOMAIN ps |-> ParamName(ps[k])]

RouteSourceParses(path) ==
  LET names == RouteParams(path)
  IN  /\ \A k \in DOMAIN names : names[k] # <<>>
      /\ IsInjective(names)
      /\ Len(names) <= MaxCaptures

(* parse_rewrite_target: outside braces, or inside them collecting a name. *)
Lit(token)     == [capture |-> 0, token |-> token]
Capture(index) == [capture |-> index, token |-> "none"]

TargetStep(s, token, names) ==
  CASE token = "{" /\ ~s.inside -> [s EXCEPT !.inside = TRUE, !.name = <<>>]
    [] token = "}" -> LET i == First({k \in DOMAIN names : names[k] = s.name})
                      IN  [s EXCEPT !.inside = FALSE, !.valid = @ /\ s.inside /\ i # 0,
                                    !.dst = Append(@, Capture(i))]
    [] token # "}" /\ s.inside -> [s EXCEPT !.name = Append(@, token)]
    [] OTHER -> [s EXCEPT !.dst = Append(@, Lit(token))]

NoTarget == [inside |-> FALSE, name |-> <<>>, dst |-> <<>>, valid |-> TRUE]
RewriteTarget(to, names) ==
  LET s[k \in 0 .. Len(to)] == IF k = 0 THEN NoTarget ELSE TargetStep(s[k - 1], to[k], names)
  IN  s[Len(to)]

TemplateCompiles(path, to) ==
  /\ RouteSourceParses(path)
  /\ LET t == RewriteTarget(to, RouteParams(path)) IN t.valid /\ ~t.inside

Template(path, to) == [src |-> Segments(path), dst |-> RewriteTarget(to, RouteParams(path)).dst]

-----------------------------------------------------------------------------
(* proxy.rs. *)

StripPrefix(path, prefix) ==
  IF ~IsPrefix(prefix, path) THEN path
  ELSE LET rest == Without(prefix, path)
       IN  IF rest # <<>> /\ Head(rest) = "/" THEN rest ELSE <<"/">>

(* capture_raw: segment by segment; what follows a last slash is nothing. *)
RawSegments(path) == LET ps == Pieces(Tail(path))
                     IN  IF Last(ps) = <<>> THEN Front(ps) ELSE ps

CapturesMatch(src, path) ==
  LET raw == RawSegments(path)
  IN  /\ path # <<>> /\ Head(path) = "/"
      /\ Len(raw) = Len(src)
      /\ \A k \in DOMAIN src : IsParam(src[k]) \/ src[k] = raw[k]

CaptureRawBySegment(src, path) == RawSegments(path)

CaptureRaw(src, path) ==
  LET at == InOrder(ParamsIn(src), Len(src)) IN [i \in DOMAIN at |-> RawSegments(path)[at[i]]]

RenderTemplate(tpl, path) ==
  Flatten([k \in DOMAIN tpl.dst |->
    IF tpl.dst[k].capture = 0 THEN <<tpl.dst[k].token>>
    ELSE CaptureRaw(tpl.src, path)[tpl.dst[k].capture]])

(* rewrite_path_and_query; the query is carried over unchanged. *)
UriText(text) == "bad" \notin Range(text)   \* "bad": what no URI can hold

Rewritable(meta, path) ==
  meta.rewrite.kind = "Template" =>
    LET tpl == meta.rewrite.template
        stripped == StripPrefix(path, meta.prefix)
    IN  CapturesMatch(tpl.src, stripped) /\ UriText(RenderTemplate(tpl, stripped))

RewritePath(meta, path) ==
  CASE meta.rewrite.kind = "Static"      -> meta.rewrite.to
    [] meta.rewrite.kind = "StripPrefix" -> StripPrefix(path, meta.prefix)
    [] meta.rewrite.kind = "Template"    ->
         RenderTemplate(meta.rewrite.template, StripPrefix(path, meta.prefix))

-----------------------------------------------------------------------------
(* path_sticky.rs: extract_param; <<>> when the parameter is not found. *)

ExtractParamFromFullPath(routePath, prefix, path, param) ==
  LET at == First(Named(Segments(routePath), param))
  IN  IF at \in DOMAIN Segments(path) THEN Segments(path)[at] ELSE <<>>

ExtractParam(routePath, prefix, path, param) ==
  LET values == Segments(IF IsPrefix(prefix, path) THEN Without(prefix, path) ELSE path)
      at == First(Named(Segments(routePath), param))
  IN  IF at \in DOMAIN values THEN values[at] ELSE <<>>
=============================================================================
