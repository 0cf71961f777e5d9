-------------------------------- MODULE Dtd --------------------------------
(***************************************************************************)
(* dtd::Parser: a document checked against the description of its elements *)
(* by ordered choice and backtracking, with the calls to the Factory it    *)
(* causes, the identifiers it records and the references it resolves, at   *)
(* once or later.                                                          *)
(*                                                                         *)
(* A content is a tuple whose head is its class.  A node of the document   *)
(* is [kind, tag, attrs, kids], kind being "elem", "text" or "blank"; a    *)
(* node is designated by the path of its ranks from the root.  What the    *)
(* application builds for an element is designated by the path too.        *)
(*                                                                         *)
(* Attribute objects are shared by all the parses of a program, the        *)
(* identifiers by the parses of one Parser.                                *)
(***************************************************************************)
EXTENDS Integers, Sequences, SequencesExt

CONSTANTS Elems,      \* the descriptions of elements (Element objects)
          Tag,        \* the name of each
          Content,    \* the content of each
          Attrs,      \* the attributes of each, in the order of their creation
          Name, Kind, \* of an attribute: its name, "cdata", "id" or "ref"
          Flags,      \* subset of {"required", "strict", "forward"}
          Roots,      \* pairs of an element and the set of documents given to it
          Crops,      \* possible values of the CROP flag
          MaxParses   \* bound on the number of parses

AllAttrs == UNION {Range(Attrs[e]) : e \in Elems}
Owner(a) == CHOOSE e \in Elems : a \in Range(Attrs[e])

\* What the constants are assumed to be.
Parameters ==
  /\ MaxParses \in Nat /\ Crops \subseteq BOOLEAN
  /\ \A a \in AllAttrs : Kind[a] \in {"cdata", "id", "ref"}
  /\ \A a \in AllAttrs : Flags[a] \subseteq {"required", "strict", "forward"}

VARIABLES p,        \* the state of the parser and of the attributes
          doc, root,
          result,   \* "idle", "yes", "no", "raise", "loop" or "pending"
          parses

vars == <<p, doc, root, result, parses>>

NoRef == <<0>>

\* The attributes as they are before any parse.
Reset(a) == [set |-> FALSE, v |-> "init", ref |-> NoRef]

\* A parser: the children it iterates on, their parent, the current rank.
Parser ==
  [kids |-> <<>>, path |-> <<>>, i |-> 1, crop |-> TRUE,
   ids |-> {}, patches |-> {}, posts |-> <<>>,
   at |-> [a \in AllAttrs |-> Reset(a)],
   made |-> [e \in Elems |-> NoRef], links |-> {}, events |-> <<>>,
   fresh |-> TRUE]

Init ==
  /\ p = Parser /\ doc = <<>> /\ root = "none" /\ result = "idle" /\ parses = 0

-----------------------------------------------------------------------------
(* Moves among the children of an element.                                  *)

ended(s) == s.i > Len(s.kids)
current(s) == s.kids[s.i]

\* Blank texts are passed over, if asked for.
setNode(s) ==
  LET seen == {k \in s.i .. Len(s.kids) : ~s.crop \/ s.kids[k].kind # "blank"}
  IN  [s EXCEPT !.i = IF seen = {} THEN Len(s.kids) + 1
                      ELSE CHOOSE k \in seen : \A j \in seen : k <= j]
next(s) == setNode([s EXCEPT !.i = @ + 1])
backtrack(s, m) == setNode([s EXCEPT !.i = m])
Rest(s) == SubSeq(s.kids, s.i, Len(s.kids))

Here(s) == Append(s.path, s.i)
Call(s, c) == [s EXCEPT !.events = Append(@, c)]

\* What a parse returns: whether it succeeds, throws or loops; and the parser.
Out(o, s) == [out |-> o, s |-> s]

-----------------------------------------------------------------------------
(* Attributes, identifiers and references                                   *)

Known(s, id) == \E x \in s.ids : x[1] = id
getID(s, id) == (CHOOSE x \in s.ids : x[1] = id)[2]

\* reset() of a CDATA attribute gives its value back but not its flag.
reset(s, a) ==
  [s EXCEPT !.at[a] = [Reset(a) EXCEPT !.set = Kind[a] = "cdata" /\ s.at[a].set]]

addPost(s, a) == [s EXCEPT !.posts = Append(@, a)]

\* process() of a value, by the class of the attribute.
process(s, a, v) ==
  LET t == [s EXCEPT !.at[a] = [set |-> TRUE, v |-> v, ref |-> NoRef]]
      refused == Out(IF "strict" \in Flags[a] THEN "raise" ELSE "no", t)
  IN  CASE Kind[a] = "cdata" -> Out("yes", t)
        [] Kind[a] = "id" /\ Known(s, v) -> refused
        [] Kind[a] = "id" -> Out("yes", addPost(t, a))
        [] Kind[a] = "ref" /\ Known(s, v) ->
             Out("yes", [t EXCEPT !.at[a].ref = getID(s, v)])
        [] Kind[a] = "ref" /\ "forward" \in Flags[a] -> Out("yes", addPost(t, a))
        [] OTHER -> refused

parseAttr(s, a) ==
  LET given == current(s).attrs
  IN  IF Name[a] \in DOMAIN given THEN process(s, a, given[Name[a]])
      ELSE Out(IF "required" \in Flags[a] THEN "no" ELSE "yes", reset(s, a))

parseAttrs(s, e) ==
  FoldLeft(LAMBDA r, a : IF r.out = "yes" THEN parseAttr(r.s, a) ELSE r,
           Out("yes", s), Attrs[e])

\* recordID(): the references that waited for the identifier are patched.
recordID(s, a) ==
  LET id == s.at[a].v
      ref == s.made[Owner(a)]
  IN  [s EXCEPT !.ids = {x \in @ : x[1] # id} \union {<<id, ref>>},
                !.links = @ \union {<<x[3], x[2], ref>> : x \in {y \in s.patches : y[1] = id}},
                !.patches = {x \in @ : x[1] # id}]

recordPatch(s, a) ==
  [s EXCEPT !.patches = @ \union {<<s.at[a].v, a, s.made[Owner(a)]>>}]

postprocess(s, a) == IF Kind[a] = "id" THEN recordID(s, a) ELSE recordPatch(s, a)

-----------------------------------------------------------------------------
(* Elements and contents                                                    *)

\* begin(): the factory makes its object from the attributes, the attributes
\* that wait for it are processed, the children are entered.
begin(s, e) ==
  LET me == Here(s)
      now == {<<me, a, s.at[a].ref>> : a \in {b \in Range(Attrs[e]) : s.at[b].ref # NoRef}}
      made == [Call(s, <<"begin", e, me>>) EXCEPT !.made[e] = me, !.links = @ \union now]
      posted == FoldLeft(postprocess, made, s.posts)
  IN  setNode([posted EXCEPT !.posts = <<>>, !.kids = current(s).kids,
                             !.path = me, !.i = 1])

\* end(): the context of the element, with all that happened inside it.
Leave(r, s) == [r EXCEPT !.kids = s.kids, !.path = s.path, !.i = s.i]
end(r, s, e) ==
  IF r.out \in {"raise", "loop"} THEN r
  ELSE IF r.out = "yes" /\ ended(r.s)
  THEN Out("yes", next(Leave(Call(r.s, <<"end", e, Here(s)>>), s)))
  ELSE Out("no", Leave(Call(r.s, <<"backtrack", e, Here(s)>>), s))

\* The contents with nothing inside.
parseEmpty(s) ==
  IF \A k \in s.i .. Len(s.kids) : s.kids[k].kind = "blank"
  THEN Out("yes", [s EXCEPT !.i = Len(s.kids) + 1]) ELSE Out("no", s)
parseIgnored(s) == Out("yes", [s EXCEPT !.i = Len(s.kids) + 1])
parsePCDATA(s) ==
  CASE ended(s) -> Out("yes", Call(s, <<"pcdata", "", Here(s)>>))
    [] ~ended(s) /\ current(s).kind = "elem" -> Out("no", s)
    [] OTHER -> Out("yes", next(Call(s, <<"pcdata", current(s).tag, Here(s)>>)))
AnyNode(s, k) == Call(s, <<"any", s.kids[k].tag, Append(s.path, k)>>)
parseAny(s) ==
  LET seen == SelectSeq([k \in 1 .. Len(s.kids) |-> k],
                LAMBDA k : k >= s.i /\ (~s.crop \/ s.kids[k].kind # "blank"))
  IN  Out("yes", [FoldLeft(AnyNode, s, seen) EXCEPT !.i = Len(s.kids) + 1])

\* What each combination makes of the parse of a part of it.
OptionalResult(r) == IF r.out = "no" THEN Out("yes", r.s) ELSE r
\* Mutation: a sequence that fails keeps what its first content has read.
SeqResultStays(r, m) == r

SeqResult(r, m) == IF r.out = "no" THEN Out("no", backtrack(r.s, m)) ELSE r

RECURSIVE Parse(_, _), parseElement(_, _), AltNext(_, _), SeqNext(_, _, _),
          RepeatNext(_, _, _)

parseElement(e, s) ==
  IF ended(s) \/ current(s).kind # "elem" \/ current(s).tag # Tag[e] THEN Out("no", s)
  ELSE LET r == parseAttrs(s, e)
       IN  IF r.out = "yes" THEN end(Parse(Content[e], begin(r.s, e)), r.s, e) ELSE r

\* Alt: the second content is tried where the first has left the parser.
AltNext(r, c) == IF r.out = "no" THEN Parse(c, r.s) ELSE r

\* Seq: both contents, or back to the mark.
SeqNext(r, c, m) == IF r.out = "yes" THEN SeqResult(Parse(c, r.s), m) ELSE SeqResult(r, m)

\* Repeat: the loop ends with the children or at a failure; a content that
\* succeeds without reading anything is tried again forever.
RepeatNext(r, c, i) ==
  CASE r.out = "no" -> Out("yes", r.s)
    [] r.out = "yes" /\ r.s.i = i -> Out("loop", r.s)
    [] r.out = "yes" /\ r.s.i # i -> Parse(<<"repeat", c>>, r.s)
    [] OTHER -> r

Parse(c, s) ==
  CASE c[1] = "empty"    -> parseEmpty(s)
    [] c[1] = "ignored"  -> parseIgnored(s)
    [] c[1] = "pcdata"   -> parsePCDATA(s)
    [] c[1] = "any"      -> parseAny(s)
    [] c[1] = "elem"     -> parseElement(c[2], s)
    [] c[1] = "optional" -> IF ended(s) THEN Out("yes", s) ELSE OptionalResult(Parse(c[2], s))
    [] c[1] = "alt"      -> AltNext(Parse(c[2], s), c[3])
    [] c[1] = "seq"      -> IF ended(s) THEN Out("no", s)
                            ELSE SeqNext(Parse(c[2], s), c[3], s.i)
    [] c[1] = "repeat"   -> IF ended(s) THEN Out("yes", s)
                            ELSE RepeatNext(Parse(c[2], s), c[2], s.i)

\* Element::reset() reaches the elements of the content.
RECURSIVE Below(_, _)
Below(c, n) ==
  IF n = 0 THEN {}
  ELSE IF c[1] = "elem" THEN {c[2]} \union Below(Content[c[2]], n - 1)
  ELSE UNION {Below(c[k], n) : k \in 2 .. Len(c)}

\* Parser::parse(), by a new parser or by one that has parsed already.
parse(e, d, crop, fresh) ==
  LET cleared == [p EXCEPT !.kids = <<d>>, !.path = <<>>, !.i = 1, !.crop = crop,
                           !.patches = {}, !.posts = <<>>, !.events = <<>>, !.links = {},
                           !.ids = IF fresh THEN {} ELSE @, !.fresh = fresh]
      mine == UNION {Range(Attrs[x]) : x \in Below(<<"elem", e>>, 3)}
      r == Parse(<<"elem", e>>, [cleared EXCEPT !.at =
              [a \in AllAttrs |-> IF a \in mine THEN reset(p, a).at[a] ELSE p.at[a]]])
  IN  /\ p' = r.s /\ doc' = d /\ root' = e
      /\ result' = IF r.out = "yes" /\ r.s.patches # {} THEN "pending" ELSE r.out

Next ==
  /\ parses < MaxParses /\ parses' = parses + 1
  /\ \E x \in Roots, crop \in Crops, fresh \in BOOLEAN :
       \E d \in x[2] : parse(x[1], d, crop, fresh)

-----------------------------------------------------------------------------
(* Documents that conform to a description, as a reference.                 *)

Shown(kids) == SelectSeq(kids, LAMBDA n : ~p.crop \/ n.kind # "blank")

RECURSIVE Matches(_, _), Conforms(_, _)
Conforms(e, n) ==
  /\ n.kind = "elem" /\ n.tag = Tag[e]
  /\ \A a \in Range(Attrs[e]) : "required" \in Flags[a] => Name[a] \in DOMAIN n.attrs
  /\ Matches(Content[e], Shown(n.kids))
Matches(c, w) ==
  CASE c[1] = "empty"    -> \A k \in DOMAIN w : w[k].kind = "blank"
    [] c[1] \in {"ignored", "any"} -> TRUE
    [] c[1] = "pcdata"   -> w = <<>> \/ (Len(w) = 1 /\ w[1].kind # "elem")
    [] c[1] = "elem"     -> Len(w) = 1 /\ Conforms(c[2], w[1])
    [] c[1] = "optional" -> w = <<>> \/ Matches(c[2], w)
    [] c[1] = "alt"      -> Matches(c[2], w) \/ Matches(c[3], w)
    [] c[1] = "seq"      -> \E k \in 0 .. Len(w) : /\ Matches(c[2], SubSeq(w, 1, k))
                                                   /\ Matches(c[3], SubSeq(w, k + 1, Len(w)))
    [] c[1] = "repeat"   -> \/ w = <<>>
                            \/ \E k \in 1 .. Len(w) : /\ Matches(c[2], SubSeq(w, 1, k))
                                                      /\ Matches(c, SubSeq(w, k + 1, Len(w)))

RECURSIVE NodeAt(_, _)
NodeAt(n, path) == IF path = <<>> THEN n ELSE NodeAt(n.kids[path[1]], Tail(path))
Node(path) == NodeAt(doc, Tail(path))

-----------------------------------------------------------------------------
(* What is expected of a parse.                                             *)

\* Whatever attempts it makes, the parser accepts only documents of the
\* language of the description.
AcceptedConforms == result \in {"yes", "pending"} => Conforms(root, doc)

\* The calls to the factory are nested: an element is ended or backtracked
\* where it was begun, and an accepted document leaves none open.
Opened(ev) ==
  FoldLeft(LAMBDA o, x :
             CASE x[1] = "begin" -> Append(o, <<x[2], x[3]>>)
               [] x[1] \in {"end", "backtrack"} ->
                    IF o # <<>> /\ Last(o) = <<x[2], x[3]>> THEN Front(o)
                    ELSE <<"wrong">>
               [] OTHER -> o, <<>>, ev)
CallsNested == result \in {"yes", "no", "pending"} => Opened(p.events) = <<>>

\* In a document accepted by a new parser, a reference that was linked leads to
\* an element that bears its identifier.
Bears(n, id) == \E a \in AllAttrs :
  Kind[a] = "id" /\ Name[a] \in DOMAIN n.attrs /\ n.attrs[Name[a]] = id
LinksExact ==
  result = "yes" /\ p.fresh =>
    \A l \in p.links : /\ Name[l[2]] \in DOMAIN Node(l[1]).attrs
                       /\ Bears(Node(l[3]), Node(l[1]).attrs[Name[l[2]]])

\* A document is refused for a pending reference only if the identifier is
\* not defined after it, or is that of the element itself, whose identifier is
\* recorded before its reference.
PendingIsUnknown ==
  result = "pending" /\ p.fresh =>
    \A x \in p.patches : ~Known(p, x[1]) \/ Bears(Node(x[3]), x[1])
=============================================================================
