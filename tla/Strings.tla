------------------------------ MODULE Strings ------------------------------
(***************************************************************************)
(* elm::String (include/elm/string/String.h, src/string_String.cpp): an    *)
(* immutable value that is a part of a buffer, which several strings share *)
(* and which counts them.  A character is a number, 0 is '\0'; the cells   *)
(* of a buffer end with a 0.  Strings are the variables of a program;      *)
(* every operation works on one of them and on its buffer.                 *)
(***************************************************************************)
EXTENDS Integers, SequencesExt, FiniteSetsExt

CONSTANTS
  Vars,       \* the String variables of the program
  Texts,      \* the C strings the program has
  Patterns,   \* what is looked for
  Blank,      \* the character isblank() recognises
  UseMod,     \* number of values of the use count, 2^16
  MaxLen,     \* bound on the length of a string
  Careful     \* toCString() and replace() do not meet the strings for which
              \* they are wrong, see ToCString and Replace

\* What the constants are assumed to be.
Parameters ==
  /\ UseMod \in Nat \ {0, 1} /\ MaxLen \in Nat /\ Careful \in BOOLEAN
  /\ \A t \in Texts \union Patterns : \A i \in 1 .. Len(t) : t[i] > 0
  /\ <<>> \notin Patterns
  \* fewer strings than the count can tell apart
  /\ Cardinality(Vars) + 1 < UseMod

VARIABLES
  heap,   \* heap[b]: the use count and the cells of the buffer b
  str,    \* str[s]: buf, off and len of the variable s, or Unmade
  val,    \* history: the value each variable was given
  last    \* the variable whose C string was just taken, or "none"

vars == <<heap, str, val, last>>

empty_buf == 0
\* A variable has one buffer, and toc() makes a new one before it drops it.
Buffers == 0 .. Cardinality(Vars) + 1
Freed == [use |-> 0, cells |-> <<>>]
Unmade == [buf |-> -1, off |-> 0, len |-> 0]

Living == {s \in Vars : str[s] # Unmade}

Init ==
  /\ heap = [b \in Buffers |-> IF b = empty_buf THEN [use |-> 1, cells |-> <<0>>] ELSE Freed]
  /\ str = [s \in Vars |-> Unmade]
  /\ val = [s \in Vars |-> <<>>]
  /\ last = "none"

-----------------------------------------------------------------------------
(* The buffers.                                                             *)

lock(h, b) == [h EXCEPT ![b].use = (@ + 1) % UseMod]

unlock(h, b) ==
  LET n == (h[b].use + UseMod - 1) % UseMod IN
  [h EXCEPT ![b] = IF n = 0 /\ b # empty_buf THEN Freed ELSE [@ EXCEPT !.use = n]]

Fresh(h) == CHOOSE b \in Buffers : h[b] = Freed /\ \A c \in Buffers : c < b => h[c] # Freed

\* A new buffer with the text, and the string that is all of it: concat(), and
\* StringBuffer::toString(), whose stream starts with the count.
Built(h, t) ==
  <<[h EXCEPT ![Fresh(h)] = [use |-> 1, cells |-> Append(t, 0)]],
    [buf |-> Fresh(h), off |-> 0, len |-> Len(t)]>>

\* String::copy().
Copied(h, t) ==
  IF t = <<>> THEN <<lock(h, empty_buf), [buf |-> empty_buf, off |-> 0, len |-> 0]>>
  ELSE Built(h, t)

\* chars(), for length() characters, and up to the '\0'.
Chars(h, x) == SubSeq(h[x.buf].cells, x.off + 1, x.off + x.len)
CChars(h, x) ==
  LET c == SubSeq(h[x.buf].cells, x.off + 1, Len(h[x.buf].cells))
  IN  SubSeq(c, 1, (CHOOSE i \in 1 .. Len(c) : c[i] = 0 /\ \A j \in 1 .. i - 1 : c[j] # 0) - 1)

Terminated(h, x) == h[x.buf].cells[x.off + x.len + 1] = 0

-----------------------------------------------------------------------------
(* Constructors, assignments and the destructor.                            *)

\* The variable s becomes the string r[2] in the memory r[1], of value v.
Becomes(s, r, v) ==
  /\ Len(v) <= MaxLen
  /\ heap' = r[1] /\ str' = [str EXCEPT ![s] = r[2]]
  /\ val' = [val EXCEPT ![s] = v] /\ last' = "none"

\* A part of the buffer of x.
Part(x, o, l) == <<lock(heap, x.buf), [buf |-> x.buf, off |-> x.off + o, len |-> l]>>

New(s, t) == s \notin Living /\ Becomes(s, Copied(heap, t), t)

CopyOf(s, t) ==
  s \notin Living /\ t \in Living /\ Becomes(s, Part(str[t], 0, str[t].len), val[t])

Substring(s, t, o, l) ==
  /\ s \notin Living /\ t \in Living /\ o + l <= str[t].len
  /\ Becomes(s, Part(str[t], o, l), SubSeq(val[t], o + 1, o + l))

Concat(s, t, u) ==
  /\ s \notin Living /\ {t, u} \subseteq Living
  /\ Becomes(s, Built(heap, Chars(heap, str[t]) \o Chars(heap, str[u])), val[t] \o val[u])

\* make(t, n), through a StringBuffer.
Make(s, t, n) ==
  /\ s \notin Living /\ t \in Living
  /\ Becomes(s, Built(heap, FlattenSeq([i \in 1 .. n |-> Chars(heap, str[t])])),
             FlattenSeq([i \in 1 .. n |-> val[t]]))

\* ltrim(), then rtrim() of its result.
Trim(s, t) ==
  LET c == Chars(heap, str[t])
      solid == {i \in 1 .. Len(c) : c[i] # Blank}
      o == IF solid = {} THEN Len(c) ELSE Min(solid) - 1
      l == IF solid = {} THEN 0 ELSE Max(solid) - o
  IN  /\ s \notin Living /\ t \in Living
      /\ Becomes(s, Part(str[t], o, l), SubSeq(val[t], o + 1, o + l))

\* operator=(const String&): the new buffer is locked first.
Assign(s, t) ==
  /\ {s, t} \subseteq Living
  /\ Becomes(s, <<unlock(lock(heap, str[t].buf), str[s].buf), str[t]>>, val[t])

\* operator=(const char *): the old buffer is unlocked before the text is read,
\* so that the text is not to be the one of the string itself.
AssignChars(s, t) ==
  s \in Living /\ Becomes(s, Copied(unlock(heap, str[s].buf), t), t)

Destroy(s) ==
  /\ s \in Living
  /\ heap' = unlock(heap, str[s].buf)
  /\ str' = [str EXCEPT ![s] = Unmade] /\ val' = [val EXCEPT ![s] = <<>>]
  /\ last' = "none"

-----------------------------------------------------------------------------
(* toCString().                                                             *)

\* toc(): the string that owns its buffer alone writes the '\0' at buf[len],
\* whatever its offset; another one takes a copy.
toc(h, x) ==
  IF h[x.buf].use <= 1
  THEN <<[h EXCEPT ![x.buf].cells[x.len + 1] = 0], x>>
  ELSE LET r == Built(h, Chars(h, x)) IN <<unlock(r[1], x.buf), r[2]>>

\* Where toc() is right: at the start of the buffer, or with another owner.
TocIsRight(x) == Terminated(heap, x) \/ heap[x.buf].use > 1 \/ x.off = 0

ToCString(s) ==
  /\ s \in Living
  /\ Careful => TocIsRight(str[s])
  /\ LET r == IF Terminated(heap, str[s]) THEN <<heap, str[s]>> ELSE toc(heap, str[s]) IN
     /\ heap' = r[1] /\ str' = [str EXCEPT ![s] = r[2]]
     /\ last' = s
  /\ UNCHANGED val

-----------------------------------------------------------------------------
(* Searches.                                                                *)

\* substring(p, length of the pattern) == pattern: the comparison may go beyond
\* the end of the string, up to the '\0' of the buffer.
MatchesAt(x, pat, p) ==
  LET c == heap[x.buf].cells IN
  /\ x.off + p + Len(pat) <= Len(c)
  /\ SubSeq(c, x.off + p + 1, x.off + p + Len(pat)) = pat

\* Where indexOf() and lastIndexOf() find the pattern.
FoundAt(x, pat, pos) == {p \in pos .. x.len - 1 : MatchesAt(x, pat, p)}
IndexOf(x, pat, pos) == LET f == FoundAt(x, pat, pos) IN IF f = {} THEN -1 ELSE Min(f)
LastIndexOf(x, pat) == LET f == FoundAt(x, pat, 0) IN IF f = {} THEN -1 ELSE Max(f)

\* replace(): the part before each match and the substitute are put into a
\* StringBuffer, the search goes on after the match.
RECURSIVE Replaced(_, _, _)
Replaced(x, pat, sub) ==
  LET p == IndexOf(x, pat, 0)
      rest == [x EXCEPT !.off = @ + p + Len(pat), !.len = @ - p - Len(pat)]
  IN  IF p < 0 THEN Chars(heap, x)
      ELSE Chars(heap, [x EXCEPT !.len = p]) \o sub \o Replaced(rest, pat, sub)

\* Reference: the leftmost matches that do not overlap are replaced.
RECURSIVE ReplacedIn(_, _, _)
ReplacedIn(v, pat, sub) ==
  IF v = <<>> THEN <<>>
  ELSE IF Len(pat) <= Len(v) /\ SubSeq(v, 1, Len(pat)) = pat
       THEN sub \o ReplacedIn(SubSeq(v, Len(pat) + 1, Len(v)), pat, sub)
       ELSE <<Head(v)>> \o ReplacedIn(Tail(v), pat, sub)

Replace(s, t, pat, sub) ==
  /\ s \notin Living /\ t \in Living /\ (Careful => Terminated(heap, str[t]))
  /\ Becomes(s, IF IndexOf(str[t], pat, 0) < 0 THEN Part(str[t], 0, str[t].len)
                ELSE Built(heap, Replaced(str[t], pat, sub)),
             ReplacedIn(val[t], pat, sub))

-----------------------------------------------------------------------------
Next ==
  \E s \in Vars :
    \/ Destroy(s) \/ ToCString(s)
    \/ \E t \in Texts : New(s, t) \/ AssignChars(s, t)
    \/ \E t \in Vars :
         \/ CopyOf(s, t) \/ Assign(s, t) \/ Trim(s, t)
         \/ \E o, l \in 0 .. MaxLen : Substring(s, t, o, l)
         \/ \E n \in {0, 2} : Make(s, t, n)
         \/ \E u \in Vars : Concat(s, t, u)
         \/ \E p \in Patterns, x \in Texts : Replace(s, t, p, x)

Spec == Init /\ [][Next]_vars

-----------------------------------------------------------------------------
\* A string keeps the value it was given, whatever is done with the strings
\* that share its buffer, and its C string is that value ended by '\0'.
StringsAreValues ==
  /\ \A s \in Living : Chars(heap, str[s]) = val[s]
  /\ last # "none" => CChars(heap, str[last]) = val[last]

\* A buffer lives exactly as long as a string uses it, and counts its strings.
UseIsExact ==
  \A b \in Buffers :
    LET users == Cardinality({s \in Living : str[s].buf = b})
    IN  /\ heap[b].use = users + IF b = empty_buf THEN 1 ELSE 0
        /\ heap[b] = Freed <=> users = 0 /\ b # empty_buf

\* In a string that ends with its buffer, a search finds the first and the
\* last place of the pattern.  (In another one it may find a place of which a
\* part lies beyond the end of the string.)
FoundInValue ==
  \A s \in Living, pat \in Patterns :
    LET v == val[s]
        places == {p \in 0 .. Len(v) - Len(pat) : SubSeq(v, p + 1, p + Len(pat)) = pat}
    IN  Terminated(heap, str[s]) =>
          /\ IndexOf(str[s], pat, 0) = IF places = {} THEN -1 ELSE Min(places)
          /\ LastIndexOf(str[s], pat) = IF places = {} THEN -1 ELSE Max(places)
=============================================================================
