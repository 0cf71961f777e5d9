-------------------------------- MODULE MCIO --------------------------------
(***************************************************************************)
(* Finite instances of what reads and writes.  A behaviour exercises one   *)
(* of them, chosen in the first state: a BufferedOutStream, over streams   *)
(* that fail or over sound ones; a BufferedInStream copied to a tee; the   *)
(* formatted Output and Input; the JSON saver and parser; the DTD parser;  *)
(* the serialization of objects; the command line.                         *)
(***************************************************************************)
EXTENDS BufferedOutStream, SequencesExt, TLC

CONSTANT Subjects    \* what is exercised

VARIABLES
  subject,
  p_in, p_buf, p_pos, p_dpos, p_seen, p_block, p_rc, p_skipped,
  p_pc, p_sink, p_size, p_base, p_pres, p_pstate, p_tstate,
  f_text, f_printed, f_n, f_broken, f_scans, f_pc,
  j_state, j_stack, j_readable, j_out, j_calls, j_text, j_pos, j_frames,
  j_events, j_result,
  d_p, d_doc, d_root, d_result, d_parses,
  m_mem, m_ser, m_uns, m_calls, m_pc,
  o_argv, o_i, o_todo, o_val, o_frees, o_pc, o_code, o_given, o_taken, o_served

-----------------------------------------------------------------------------
(* Streams.                                                                 *)

\* The same program over streams that take what they are given.
Sound == INSTANCE BufferedOutStream WITH MayFail <- FALSE, MayBeShort <- FALSE

\* One stream of four bytes, more than the buffer holds, or two of two bytes,
\* with errors and short reads; reads larger and smaller than the buffer.
TheStream == CHOOSE s \in Streams : TRUE
Pipe == INSTANCE StreamPipe
  WITH Streams <- {TheStream}, Length <- 4, Sizes <- {1, 3}, PipeSize <- 2,
       SinksMayFail <- TRUE,
       in <- p_in, buf <- p_buf, pos <- p_pos, dpos <- p_dpos, seen <- p_seen,
       block <- p_block, rc <- p_rc, skipped <- p_skipped, pc <- p_pc,
       sink <- p_sink, size <- p_size, base <- p_base, pres <- p_pres,
       pstate <- p_pstate, tstate <- p_tstate
Pipes == INSTANCE StreamPipe
  WITH Length <- 2, Sizes <- {1, 3}, PipeSize <- 2, SinksMayFail <- TRUE,
       in <- p_in, buf <- p_buf, pos <- p_pos, dpos <- p_dpos, seen <- p_seen,
       block <- p_block, rc <- p_rc, skipped <- p_skipped, pc <- p_pc,
       sink <- p_sink, size <- p_size, base <- p_base, pres <- p_pres,
       pstate <- p_pstate, tstate <- p_tstate

-----------------------------------------------------------------------------
(* Formatted texts: longs of four bits and long longs of eight.             *)

IntItem(v, w, signed, base, width, align, plus) ==
  [kind |-> "int", val |-> v, w |-> w, sign |-> signed, base |-> base,
   width |-> width, align |-> align, plus |-> plus]

MCItems ==
  {IntItem(v, 4, TRUE, 10, 0, "left", FALSE) : v \in {-8, -7, -1, 0, 7}}
  \union {IntItem(v, 4, FALSE, b, 0, "left", FALSE) : v \in {0, 15}, b \in {2, 10, 16}}
  \union {IntItem(v, 8, TRUE, 10, 5, al, pl) :
            v \in {-128, 9, 127}, al \in {"left", "right", "center"}, pl \in BOOLEAN}
  \union {IntItem(255, 8, FALSE, b, 0, "left", FALSE) : b \in {8, 16}}
  \union {[kind |-> "bool", val |-> b] : b \in BOOLEAN}
  \union {[kind |-> "string", val |-> s, width |-> w, align |-> "center"] :
            s \in {<<26>>, <<26, 27, 5>>}, w \in {0, 4}}
  \union {[kind |-> "float", val |-> x, neg |-> g, decw |-> 2, width |-> 0, align |-> "left"] :
            x \in {<<0, 0>>, <<12, 1>>, <<123, 3>>, <<102, 1>>, <<5, 2>>}, g \in BOOLEAN}

\* Digits, x, a sign and blanks in any order, and chosen words.
MCCharTexts ==
  UNION {[1 .. k -> {0, 1, 11, 20, 21, 23}] : k \in 0 .. 3}
  \union {<<1, 14, 2>>, <<26, 27, 28, 14>>, <<24, 26, 27, 1>>, <<25, 5>>, <<23, 1, 25, 14>>,
          <<15, 10, 29>>, <<0, 20, 1, 11>>, <<21, 1, 2, 8>>, <<2, 5, 6, 9>>}

Formats == INSTANCE Formats
  WITH W1 <- 4, W2 <- 8, BufSize <- 4, MaxItems <- 2, Items <- MCItems, Texts <- MCCharTexts,
       text <- f_text, printed <- f_printed, n <- f_n, broken <- f_broken,
       scans <- f_scans, pc <- f_pc

-----------------------------------------------------------------------------
(* JSON: six calls of the saver, every text of four tokens.                 *)

JsonToken(k) == [kind |-> k, str |-> IF k = "STRING" THEN <<"a">> ELSE <<>>]

Json == INSTANCE Json
  WITH Strings <- {<<"a">>, <<"a", "q", "w">>}, MaxCalls <- 6, Readable <- {FALSE, TRUE},
       MakerRefuses <- FALSE,
       Texts <- UNION {[1 .. k -> {JsonToken(t) : t \in {"LBRACE", "RBRACE", "LBRACK", "RBRACK",
                                                         "COMMA", "COLON", "STRING", "INT"}}] :
                         k \in 0 .. 4},
       state <- j_state, stack <- j_stack, readable <- j_readable, out <- j_out,
       calls <- j_calls, text <- j_text, pos <- j_pos, frames <- j_frames,
       events <- j_events, result <- j_result

-----------------------------------------------------------------------------
(* DTD: the example of dtd.h and smaller documents, with links between      *)
(* nodes, alternatives that must give back what they read, loops and twins. *)

Node(t, as, ks) == [kind |-> "elem", tag |-> t, attrs |-> as, kids |-> ks]
Chars(k) == [kind |-> k, tag |-> k, attrs |-> <<>>, kids |-> <<>>]
Documents(t, nodes, max) == {Node(t, <<>>, ks) : ks \in UNION {[1 .. k -> nodes] : k \in 0 .. max}}
Attribute(name, V) == {<<>>} \union {name :> v : v \in V}

Mixed == {Node("A", "id" :> "1", <<>>), Node("A", <<>>, <<>>), Node("B", <<>>, <<>>),
          Node("C", <<>>, <<>>)}
Linked == {Node("node", a @@ b, <<>>) : a \in Attribute("id", {"1", "2"}), b \in Attribute("ref", {"1", "2"})}
Twins == {Node("n", "id" :> "1", <<>>), Node("n", "id" :> "2" @@ "k" :> "0", <<>>),
          Node("node", "id" :> "2" @@ "ref" :> "1", <<>>), Chars("text")}
Sessions == {Node("name", <<>>, <<Chars("text")>>), Node("name", <<>>, <<>>),
             Node("session", "date" :> "0", <<>>), Node("session", <<>>, <<>>), Chars("blank")}

DtdRoots ==
  {<<"training", {[x EXCEPT !.attrs = a] : a \in Attribute("id", {"1"}),
                                           x \in Documents("training", Sessions, 3)}>>,
   <<"all", Documents("all", Linked, 3)>>, <<"mix", Documents("mix", Mixed, 3)>>,
   <<"turn", Documents("mix", Mixed, 2)>>, <<"any", Documents("mix", Mixed, 2)>>,
   <<"twins", Documents("all", Twins, 3)>>}

\* The declarations: tag, content and attributes of each element, then name,
\* kind and flags of each attribute.
E(e) == <<"elem", e>>
DtdElements ==
  [training |-> <<"training", <<"seq", E("name"), <<"repeat", E("session")>>>>, <<"t.id", "t.start">>>>,
   name     |-> <<"name", <<"pcdata">>, <<>>>>,
   session  |-> <<"session", <<"empty">>, <<"s.date">>>>,
   all      |-> <<"all", <<"repeat", E("node")>>, <<>>>>,
   node     |-> <<"node", <<"empty">>, <<"n.id", "n.ref">>>>,
   mix      |-> <<"mix", <<"alt", <<"seq", E("A"), E("B")>>,
                                  <<"seq", E("A"), <<"optional", E("C")>>>>>>, <<>>>>,
   A        |-> <<"A", <<"empty">>, <<"A.id">>>>,
   B        |-> <<"B", <<"ignored">>, <<>>>>,
   C        |-> <<"C", <<"empty">>, <<>>>>,
   turn     |-> <<"mix", <<"repeat", <<"optional", E("A")>>>>, <<>>>>,
   any      |-> <<"mix", <<"any">>, <<>>>>,
   twins    |-> <<"all", <<"repeat", <<"alt", <<"alt", E("n1"), E("n2")>>, E("m")>>>>, <<>>>>,
   n1       |-> <<"n", <<"empty">>, <<"n1.id", "n1.k">>>>,
   n2       |-> <<"n", <<"empty">>, <<"n2.id">>>>,
   m        |-> <<"node", <<"empty">>, <<"m.id", "m.ref">>>>]
DtdAttributes ==
  "t.id" :> <<"id", "id", {}>> @@ "t.start" :> <<"start", "cdata", {}>>
  @@ "s.date" :> <<"date", "cdata", {"required"}>> @@ "n.id" :> <<"id", "id", {"required"}>>
  @@ "n.ref" :> <<"ref", "ref", {"forward"}>> @@ "A.id" :> <<"id", "id", {}>>
  @@ "n1.id" :> <<"id", "id", {}>> @@ "n1.k" :> <<"k", "cdata", {"required"}>>
  @@ "n2.id" :> <<"id", "id", {}>> @@ "m.id" :> <<"id", "id", {"strict"}>>
  @@ "m.ref" :> <<"ref", "ref", {"strict"}>>

Dtd == INSTANCE Dtd
  WITH Elems <- DOMAIN DtdElements,
       Tag <- [e \in DOMAIN DtdElements |-> DtdElements[e][1]],
       Content <- [e \in DOMAIN DtdElements |-> DtdElements[e][2]],
       Attrs <- [e \in DOMAIN DtdElements |-> DtdElements[e][3]],
       Name <- [a \in DOMAIN DtdAttributes |-> DtdAttributes[a][1]],
       Kind <- [a \in DOMAIN DtdAttributes |-> DtdAttributes[a][2]],
       Flags <- [a \in DOMAIN DtdAttributes |-> DtdAttributes[a][3]],
       Roots <- DtdRoots, Crops <- {TRUE, FALSE}, MaxParses <- 1,
       p <- d_p, doc <- d_doc, root <- d_root, result <- d_result, parses <- d_parses

-----------------------------------------------------------------------------
(* Serialization: objects that embed and point to one another, an array of  *)
(* objects, and an object at the address of its first field.                *)

Field(k, c) == [kind |-> k, class |-> c]
SomeValue == Field("value", "")

Graph == INSTANCE Serial
  WITH Fields <- [A |-> <<SomeValue, Field("object", "B"), Field("pointer", "B")>>,
                  B |-> <<Field("pointer", "A")>>],
       Class <- <<"A", "B", "A">>, Roots <- {1, 3},
       Labels <- <<<<"a", 0>>, <<"b", 1>>, <<"c", 1>>>>, MaxCalls <- 3,
       mem <- m_mem, ser <- m_ser, uns <- m_uns, calls <- m_calls, pc <- m_pc
Arrays == INSTANCE Serial
  WITH Fields <- [A |-> <<SomeValue, Field("list", "B")>>,
                  B |-> <<Field("pointer", "B"), SomeValue>>],
       Class <- <<"A", "B", "B">>, Roots <- {1}, Labels <- <<<<"a", 0>>, <<"b", 1>>>>,
       MaxCalls <- 2,
       mem <- m_mem, ser <- m_ser, uns <- m_uns, calls <- m_calls, pc <- m_pc
Alias == INSTANCE Serial
  WITH Fields <- [A |-> <<Field("object", "B"), Field("pointer", "B")>>,
                  B |-> <<SomeValue, Field("pointer", "A")>>],
       Class <- <<"A", "B", "A">>, Roots <- {1}, Labels <- <<<<"a", 0>>>>, MaxCalls <- 2,
       mem <- m_mem, ser <- m_ser, uns <- m_uns, calls <- m_calls, pc <- m_pc

-----------------------------------------------------------------------------
(* The command line: up to four words, with values after "=", in the next   *)
(* word or missing, letters put together, and words that are no option.     *)

Word(d, c, a, l, t) == [dash |-> d, cmd |-> c, arg |-> a, letters |-> l, text |-> t]

MCWords ==
  {Word(0, "a", "none", <<>>, "a"), Word(0, "b", "none", <<>>, "b=c"),
   Word(0, "", "none", <<>>, ""), Word(1, "-", "none", <<>>, "-"),
   Word(1, "-n", "none", <<"n">>, "-n"), Word(1, "-n", "a", <<"n", "=", "a">>, "-n=a"),
   Word(1, "-vn", "none", <<"v", "n">>, "-vn"), Word(1, "-nle", "none", <<"n", "l", "e">>, "-nle"),
   Word(1, "-vh", "none", <<"v", "h">>, "-vh"), Word(1, "-vx", "none", <<"v", "x">>, "-vx"),
   Word(2, "--list", "none", <<>>, "--list"), Word(2, "--bad", "none", <<>>, "--bad"),
   Word(2, "--verbose", "a", <<>>, "--verbose=a")}

Options == INSTANCE Options
  WITH Opts <- {"verbose", "num", "list", "enum", "help"},
       Kind <- [verbose |-> "switch", num |-> "value", list |-> "list",
                enum |-> "enum", help |-> "switch"],
       Usage <- [verbose |-> "none", num |-> "required", list |-> "optional",
                 enum |-> "required", help |-> "none"],
       Commands <- <<"--help", "--list", "--verbose", "-e", "-h", "-l", "-n", "-v">>,
       OptionOf <- ("--help" :> "help" @@ "--list" :> "list" @@ "--verbose" :> "verbose"
                    @@ "-e" :> "enum" @@ "-h" :> "help" @@ "-l" :> "list"
                    @@ "-n" :> "num" @@ "-v" :> "verbose"),
       Shorts <- ("e" :> "enum" @@ "h" :> "help" @@ "l" :> "list" @@ "n" :> "num"
                  @@ "v" :> "verbose"),
       IsLong <- {"--help", "--list", "--verbose"}, EnumVals <- {"a"}, HelpOpts <- {"help"},
       Words <- MCWords, NoArg <- "none", Default <- "default", MaxWords <- 4,
       argv <- o_argv, i <- o_i, todo <- o_todo, val <- o_val, frees <- o_frees, pc <- o_pc,
       code <- o_code, given <- o_given, taken <- o_taken, served <- o_served

-----------------------------------------------------------------------------
ASSUME IOAssumption ==
  /\ Pipe!InParameters /\ Pipe!PipeParameters /\ Pipes!InParameters /\ Pipes!PipeParameters
  /\ Formats!Parameters /\ Json!Parameters /\ Dtd!Parameters /\ Options!Parameters
  /\ Graph!Parameters /\ Arrays!Parameters /\ Alias!Parameters

pvars == <<p_in, p_buf, p_pos, p_dpos, p_seen, p_block, p_rc, p_skipped,
           p_pc, p_sink, p_size, p_base, p_pres, p_pstate, p_tstate>>
fvars == <<f_text, f_printed, f_n, f_broken, f_scans, f_pc>>
jvars == <<j_state, j_stack, j_readable, j_out, j_calls, j_text, j_pos, j_frames,
           j_events, j_result>>
dvars == <<d_p, d_doc, d_root, d_result, d_parses>>
mvars == <<m_mem, m_ser, m_uns, m_calls, m_pc>>
ovars == <<o_argv, o_i, o_todo, o_val, o_frees, o_pc, o_code, o_given, o_taken, o_served>>
mcvars == <<subject, vars, pvars, fvars, jvars, dvars, mvars, ovars>>

\* A component that is not exercised has one initial state.
MCInit ==
  /\ subject \in Subjects
  /\ out \in IF subject \in {"write", "sound", "pipes"} THEN Streams ELSE {TheStream}
  /\ p_in = out
  /\ f_pc \in {"print"} \union IF subject = "formats" THEN {"foreign"} ELSE {}
  /\ j_readable \in {FALSE} \union IF subject = "json" THEN {TRUE} ELSE {}
  /\ IF subject = "pipes" THEN Pipes!Init ELSE Pipe!Init
  /\ Init /\ Formats!Init /\ Json!Init /\ Dtd!Init /\ Options!Init
  /\ CASE subject = "graph"  -> Graph!Init
       [] subject = "arrays" -> Arrays!Init
       [] subject = "alias"  -> Alias!Init
       [] OTHER              -> m_mem = 0 /\ m_ser = 0 /\ m_uns = 0 /\ m_calls = 0 /\ m_pc = 0

MCNext ==
  \/ /\ subject = "write" /\ Next
     /\ UNCHANGED <<subject, pvars, fvars, jvars, dvars, mvars, ovars>>
  \/ /\ subject = "sound" /\ Sound!Next
     /\ UNCHANGED <<subject, pvars, fvars, jvars, dvars, mvars, ovars>>
  \/ /\ \/ subject = "pipe" /\ Pipe!Next
        \/ subject = "pipes" /\ Pipes!Next
     /\ UNCHANGED <<subject, vars, fvars, jvars, dvars, mvars, ovars>>
  \/ /\ subject = "formats" /\ Formats!Next
     /\ UNCHANGED <<subject, vars, pvars, jvars, dvars, mvars, ovars>>
  \/ /\ subject = "json" /\ Json!Next
     /\ UNCHANGED <<subject, vars, pvars, fvars, dvars, mvars, ovars>>
  \/ /\ subject = "dtd" /\ Dtd!Next
     /\ UNCHANGED <<subject, vars, pvars, fvars, jvars, mvars, ovars>>
  \/ /\ \/ subject = "graph" /\ Graph!Next
        \/ subject = "arrays" /\ Arrays!Next
        \/ subject = "alias" /\ Alias!Next
     /\ UNCHANGED <<subject, vars, pvars, fvars, jvars, dvars, ovars>>
  \/ /\ subject = "options" /\ Options!Next
     /\ UNCHANGED <<subject, vars, pvars, fvars, jvars, dvars, mvars>>

MCSpec == MCInit /\ [][MCNext]_mcvars

-----------------------------------------------------------------------------
(* What is checked besides the properties of BufferedOutStream.             *)

\* BufferedOutStream: over streams that take what they are given, no call
\* loses a byte, the destructor included.
SoundLosesNothing == subject = "sound" => NothingLost

\* BufferedInStream, StreamPipe, TeeOutStream: errors, short reads and calls of
\* any size neither lose nor repeat a byte; both outputs of the tee get the
\* bytes that were read, and proceed() counts those that reached the output.
CopyIsExact ==
  /\ subject = "pipe" =>
       Pipe!TypeOK /\ Pipe!EveryByteOnce /\ Pipe!PipeCopies /\ Pipe!PipeCounts
  /\ subject = "pipes" =>
       Pipes!TypeOK /\ Pipes!EveryByteOnce /\ Pipes!PipeCopies /\ Pipes!PipeCounts

\* io::Output, io::Input: no format overflows its buffer, what is printed is
\* read back, and what scans of any text return, in whatever order they are
\* called, is the number or the word that stands there.
FormatsExact ==
  subject = "formats" =>
    /\ Formats!DigitsFit /\ Formats!PrintedIsRead
    /\ Formats!NumbersExact /\ Formats!WordsExact


\* dtd::Parser: a document that is accepted conforms to the declarations, the
\* makers are called in nested order, the links lead to the elements that have
\* the identifiers, and what is pending at the end is unknown.
DtdSound ==
  subject = "dtd" =>
    /\ Dtd!AcceptedConforms /\ Dtd!CallsNested /\ Dtd!LinksExact /\ Dtd!PendingIsUnknown

\* serial2: objects that are written and read again have the same shape, with
\* the same sharing and the same cycles, whatever was written in which order;
\* no pointer stays to be patched.
SerialRoundTrip ==
  /\ subject = "graph" => Graph!RoundTrip /\ Graph!NoPatchLeft
  /\ subject = "arrays" => Arrays!RoundTrip /\ Arrays!NoPatchLeft
  /\ subject = "alias" => Alias!NoPatchLeft

\* option::Manager: each word is read once, as an option, as the argument of
\* the option before it or as a free word; the options hold what the words say;
\* the help lists every option once.
OptionsExact ==
  subject = "options" =>
    /\ Options!WordsReadOnce /\ Options!ValuesExact /\ Options!DashIsNoArgument
    /\ Options!HelpEnds /\ Options!HelpIsComplete
=============================================================================
