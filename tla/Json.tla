-------------------------------- MODULE Json --------------------------------
(***************************************************************************)
(* json::Saver, which checks the order of the calls that make a document   *)
(* and writes its text, and json::Parser, which reads a text and calls a   *)
(* Maker.  A text is a sequence of tokens; the characters of the strings   *)
(* are kept because both classes convert them: "a" stands for a character  *)
(* written as it is, "q" for one written with a backslash, "w" for one     *)
(* written with \u and four digits.                                        *)
(*                                                                         *)
(* A program saves a document and parses it back, or parses a text of its  *)
(* own.  An assertion that fails ends the program: it guards the call.     *)
(***************************************************************************)
EXTENDS Integers, Sequences, SequencesExt

CONSTANTS Strings,      \* the strings put in documents, sequences of characters
          Texts,        \* the texts that are parsed without being saved
          MaxCalls,     \* bound on the calls to the saver
          Readable,     \* possible values of the option of the saver
          MakerRefuses  \* the maker may raise a json::Exception

\* What the constants are assumed to be.
Parameters ==
  /\ MaxCalls \in Nat /\ Readable \subseteq BOOLEAN /\ MakerRefuses \in BOOLEAN
  /\ \A s \in Strings : Range(s) \subseteq {"a", "q", "w"}

VARIABLES state, stack,    \* of the saver
          readable, out,   \* its option and what it has written
          calls,           \* history: the calls it has accepted
          text, pos,       \* what is parsed and how much of it is read
          frames,          \* the calls under way of the parser, the last on top
          events,          \* the calls the maker has received
          result           \* "idle", "parsing", "ok", "error" or "looping"

svars == <<state, stack, readable, out, calls>>
pvars == <<text, pos, frames, events, result>>
vars == <<svars, pvars>>

Tok(k) == [kind |-> k, str |-> <<>>]
Str(s) == [kind |-> "STRING", str |-> s]

Init ==
  /\ state = "BEGIN" /\ stack = <<>> /\ readable \in Readable /\ out = <<>>
  /\ calls = <<>> /\ text = <<>> /\ pos = 0 /\ frames = <<>> /\ events = <<>>
  /\ result = "idle"

-----------------------------------------------------------------------------
(* Saver *)

isObject(s) == s \in {"OBJECT", "IN_OBJECT"}
isArray(s) == s \in {"ARRAY", "IN_ARRAY"}

\* The state once there is at least one item.
next(s) == CASE s = "OBJECT" -> "IN_OBJECT" [] s = "ARRAY" -> "IN_ARRAY" [] OTHER -> s


\* Separators before an item, or before the end of an object or an array.
doIndent(close, s) ==
  (IF ~close /\ s \in {"IN_ARRAY", "IN_OBJECT"} THEN <<Tok("COMMA")>> ELSE <<>>)
  \o (IF readable /\ s # "FIELD" THEN <<Tok("blank")>> ELSE <<>>)

\* How the characters of a string are written.
escape(c) == CASE c = "q" -> "bs-q" [] c = "w" -> "bs-u" [] OTHER -> c
Escaped(s) == Str([k \in DOMAIN s |-> escape(s[k])])

Write(c, ts) == calls' = Append(calls, c) /\ out' = out \o ts

beginMap ==
  /\ state # "END" /\ ~isObject(state)
  /\ Write(<<"beginObject">>, doIndent(FALSE, state) \o <<Tok("LBRACE")>>)
  /\ stack' = IF isArray(state) THEN Append(stack, state) ELSE stack
  /\ state' = "OBJECT"

endMap ==
  /\ isObject(state)
  /\ state' = IF stack = <<>> THEN "END" ELSE next(Last(stack))
  /\ stack' = IF stack = <<>> THEN stack ELSE Front(stack)
  /\ Write(<<"end">>, doIndent(TRUE, state') \o <<Tok("RBRACE")>>)

beginList ==
  /\ state = "FIELD" \/ isArray(state)
  /\ Write(<<"beginArray">>, doIndent(FALSE, state) \o <<Tok("LBRACK")>>)
  /\ stack' = IF state # "FIELD" THEN Append(stack, state) ELSE stack
  /\ state' = "ARRAY"

endList ==
  /\ isArray(state)
  /\ state' = next(Last(stack)) /\ stack' = Front(stack)
  /\ Write(<<"end">>, doIndent(TRUE, "ARRAY") \o <<Tok("RBRACK")>>)

key(s) ==
  /\ isObject(state)
  /\ Write(<<"field", s>>, doIndent(FALSE, state) \o <<Escaped(s), Tok("COLON")>>)
  /\ stack' = Append(stack, state) /\ state' = "FIELD"

\* put() and write() of a boolean, a character or a string.
writeText(c, t) ==
  /\ state = "FIELD" \/ isArray(state)
  /\ Write(c, doIndent(FALSE, state) \o <<t>>)
  /\ state' = next(IF state = "FIELD" THEN Last(stack) ELSE state)
  /\ stack' = IF state = "FIELD" THEN Front(stack) ELSE stack

\* write() of a number, the only value allowed alone.
nextByValue ==
  /\ state' = CASE state = "BEGIN" -> "END" [] state = "FIELD" -> "IN_OBJECT"
                [] OTHER -> "IN_ARRAY"
  /\ stack' = IF state = "FIELD" THEN Front(stack) ELSE stack

writeNumber(k) ==
  /\ state \in {"BEGIN", "FIELD", "ARRAY", "IN_ARRAY"}
  /\ Write(<<k>>, doIndent(FALSE, state) \o <<Tok(k)>>) /\ nextByValue

Save ==
  /\ result = "idle" /\ Len(calls) < MaxCalls /\ UNCHANGED <<readable, pvars>>
  /\ \/ beginMap \/ endMap \/ beginList \/ endList
     \/ \E s \in Strings : key(s) \/ writeText(<<"STRING", s>>, Escaped(s))
     \/ \E k \in {"NULL", "TRUE"} : writeText(<<k>>, Tok(k))
     \/ \E k \in {"INT", "FLOAT"} : writeNumber(k)

-----------------------------------------------------------------------------
(* Parser *)

\* parse() of a string, a stream or a file; close() has flushed the saver.
parse ==
  /\ result = "idle"
  /\ text' \in (IF state = "END" THEN {out} ELSE {})
               \union (IF calls = <<>> THEN Texts ELSE {})
  /\ pos' = 0 /\ frames' = <<"value">> /\ events' = <<>> /\ result' = "parsing"
  /\ UNCHANGED svars

\* The tokens next() does not return: blanks and comments.
Skipped == {"blank", "comment"}
Pending == {k \in pos + 1 .. Len(text) : text[k].kind \notin Skipped}
At == CHOOSE k \in Pending : \A j \in Pending : k <= j

\* What a string of the text becomes: the character after a backslash goes to
\* the old text, and each of the four digits adds a character.
unescape(c) == CASE c = "bs-q" -> <<>> [] c = "bs-u" -> <<"j", "j", "j", "w">>
                 [] OTHER -> <<c>>
parseString(s) == FlattenSeq([k \in DOMAIN s |-> unescape(s[k])])

Scalars == {"NULL", "TRUE", "INT", "FLOAT", "STRING"}

\* parseValue() on a token, over the frames that wait for it.
parseValue(t, fs) ==
  CASE t.kind = "LBRACE" ->
         frames' = Append(fs, "field") /\ events' = Append(events, <<"beginObject">>)
    [] t.kind = "LBRACK" ->
         frames' = Append(fs, "item") /\ events' = Append(events, <<"beginArray">>)
    [] t.kind = "STRING" ->
         frames' = fs /\ events' = Append(events, <<"STRING", parseString(t.str)>>)
    [] OTHER -> frames' = fs /\ events' = Append(events, <<t.kind>>)

StartsValue(t) == t.kind \in Scalars \union {"LBRACE", "LBRACK"}

Wait(f) == frames' = Append(Front(frames), f)

\* parseArray(): an item or the end, then a comma or the end.
parseArray(t) ==
  \/ /\ Last(frames) \in {"item", "itemsep"} /\ t.kind = "RBRACK"
     /\ frames' = Front(frames) /\ UNCHANGED events
  \/ /\ Last(frames) = "item" /\ StartsValue(t)
     /\ parseValue(t, Append(Front(frames), "itemsep"))
  \/ Last(frames) = "itemsep" /\ t.kind = "COMMA" /\ Wait("item") /\ UNCHANGED events

\* parseObject(): a name or the end, a colon, a value, a comma or the end.
parseObject(t) ==
  \/ /\ Last(frames) \in {"field", "fieldsep"} /\ t.kind = "RBRACE"
     /\ frames' = Front(frames) /\ UNCHANGED events
  \/ /\ Last(frames) = "field" /\ t.kind = "STRING" /\ Wait("colon")
     /\ events' = Append(events, <<"field", parseString(t.str)>>)
  \/ /\ Last(frames) = "colon" /\ t.kind = "COLON"
     /\ frames' = Front(frames) \o <<"fieldsep", "value">> /\ UNCHANGED events
  \/ Last(frames) = "fieldsep" /\ t.kind = "COMMA" /\ Wait("field") /\ UNCHANGED events

Fits(t) ==
  CASE Last(frames) = "value"    -> StartsValue(t)
    [] Last(frames) = "item"     -> StartsValue(t) \/ t.kind = "RBRACK"
    [] Last(frames) = "itemsep"  -> t.kind \in {"COMMA", "RBRACK"}
    [] Last(frames) = "field"    -> t.kind \in {"STRING", "RBRACE"}
    [] Last(frames) = "colon"    -> t.kind = "COLON"
    [] Last(frames) = "fieldsep" -> t.kind \in {"COMMA", "RBRACE"}

Stop(r) == result' = r /\ UNCHANGED <<pos, frames, events>>

\* A token is read.  The end of the text is an error for the token, but the
\* loops over a string or a comment do not see it.
Token ==
  /\ result = "parsing" /\ frames # <<>> /\ UNCHANGED <<svars, text>>
  /\ IF Pending = {} THEN Stop("error")
     ELSE LET t == text[At]
          IN  CASE t.kind \in {"open-string", "open-comment"} -> Stop("looping")
                [] t.kind = "bad" \/ ~Fits(t) -> Stop("error")
                [] OTHER ->
                     \/ MakerRefuses /\ Stop("error")
                     \/ /\ pos' = At /\ UNCHANGED result
                        /\ \/ parseArray(t) \/ parseObject(t)
                           \/ Last(frames) = "value" /\ parseValue(t, Front(frames))

Done ==
  /\ result = "parsing" /\ frames = <<>> /\ result' = "ok"
  /\ UNCHANGED <<svars, text, pos, frames, events>>

Next == Save \/ parse \/ Token \/ Done

-----------------------------------------------------------------------------
(* The grammar, as a reference.                                             *)

Bare(s) == SelectSeq(s, LAMBDA t : t.kind \notin Skipped)
Cut(s, a, b) == SubSeq(s, a, b)

\* Whether s is a value, a list of items or a list of fields; a comma may end
\* a list if loose.
RECURSIVE IsValue(_, _), IsItems(_, _), IsFields(_, _)
IsValue(s, loose) ==
  \/ Len(s) = 1 /\ s[1].kind \in Scalars
  \/ /\ Len(s) > 1
     /\ \/ /\ s[1].kind = "LBRACK" /\ Last(s).kind = "RBRACK"
           /\ IsItems(Cut(s, 2, Len(s) - 1), loose)
        \/ /\ s[1].kind = "LBRACE" /\ Last(s).kind = "RBRACE"
           /\ IsFields(Cut(s, 2, Len(s) - 1), loose)
IsItems(s, loose) ==
  \/ s = <<>>
  \/ \E k \in 1 .. Len(s) :
       /\ IsValue(Cut(s, 1, k), loose)
       /\ \/ k = Len(s)
          \/ /\ s[k + 1].kind = "COMMA" /\ (loose \/ k + 1 < Len(s))
             /\ IsItems(Cut(s, k + 2, Len(s)), loose)
IsFields(s, loose) ==
  \/ s = <<>>
  \/ /\ Len(s) > 2 /\ s[1].kind = "STRING" /\ s[2].kind = "COLON"
     /\ \E k \in 3 .. Len(s) :
          /\ IsValue(Cut(s, 3, k), loose)
          /\ \/ k = Len(s)
             \/ /\ s[k + 1].kind = "COMMA" /\ (loose \/ k + 1 < Len(s))
                /\ IsFields(Cut(s, k + 2, Len(s)), loose)

-----------------------------------------------------------------------------
(* What is expected of the two classes.                                     *)

\* Whatever calls the saver accepts, the text of a finished document is one
\* JSON value, with a comma exactly between two items.
SavedIsJson == state = "END" => IsValue(Bare(out), FALSE)

\* The calls that made the document, but the ends, which the maker never hears.
Kept == SelectSeq(calls, LAMBDA x : x # <<"end">>)

\* The same call, with the same string if no character of it is escaped.
SameCall(x, y) ==
  \/ x = y
  \/ Len(x) = 2 /\ Len(y) = 2 /\ x[1] = y[1] /\ ~(Range(x[2]) \subseteq {"a"})

\* A saved document is read to its end, and the maker hears what was saved, but
\* for the strings with escaped characters, of which nothing is claimed.
SavedIsRead ==
  state = "END" /\ result \notin {"idle", "parsing"} =>
    /\ result = "ok" \/ (MakerRefuses /\ result = "error")
    /\ result = "ok" =>
         /\ pos = Len(text) /\ Len(events) = Len(Kept)
         /\ \A k \in DOMAIN Kept : SameCall(Kept[k], events[k])

\* "Parse a string with support of escapes": what was saved is read, strings of
\* any characters included.
EscapesAreRead == state = "END" /\ result = "ok" => events = Kept

\* The parser accepts exactly the texts that start with a value, where a comma
\* may follow the last item, and does not return only from a text that leaves
\* a string or a comment open.
AcceptsGrammar ==
  /\ result = "ok" => IsValue(Bare(Cut(text, 1, pos)), TRUE)
  /\ result = "error" /\ ~MakerRefuses =>
       ~\E k \in 1 .. Len(text) : IsValue(Bare(Cut(text, 1, k)), TRUE)
  /\ result = "looping" => Last(text).kind \in {"open-string", "open-comment"}

\* Maker: endObject() is called when the current object is ended, endArray()
\* when an array is ended, so that a maker can tell which items are inside.
EndsAreCalled ==
  result = "ok" =>
    Len(SelectSeq(events, LAMBDA x : x = <<"end">>))
      = Len(SelectSeq(events, LAMBDA x : x \in {<<"beginObject">>, <<"beginArray">>}))
=============================================================================
