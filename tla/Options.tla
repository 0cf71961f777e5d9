------------------------------ MODULE Options ------------------------------
(***************************************************************************)
(* option::Manager and the options it feeds: the commands an option gives  *)
(* itself, parse() reading the words of a command line one by one, the     *)
(* letters of an aggregated word one by one, and manage() turning what     *)
(* happens into an exit code.  parse() may be called again: the options    *)
(* and the free arguments keep what earlier calls gave them.               *)
(*                                                                         *)
(* A word is a record: how many dashes it starts with, the part that may   *)
(* be a command (all of it, or what precedes the first '='), the argument  *)
(* after '=', the characters after the first dash.                         *)
(***************************************************************************)
EXTENDS Integers, Sequences, SequencesExt

CONSTANTS Opts,       \* the options
          Kind,       \* [Opts -> {"switch", "value", "list", "enum"}]
          Usage,      \* [Opts -> {"none", "optional", "required"}]
          Commands,   \* the commands, in the order of the sorted map cmds
          OptionOf,   \* the option of each command
          Shorts,     \* the options of the letters of the short commands
          IsLong,     \* the commands whose second character is a dash
          EnumVals,   \* the texts an "enum" option knows
          HelpOpts,   \* the switches that end the program: help and version
          Words, NoArg, Default,
          MaxWords    \* bound on the words given to all calls of parse()

\* What the constants are assumed to be.
Parameters ==
  /\ MaxWords \in Nat
  /\ \A o \in Opts : Usage[o] = "none" <=> Kind[o] = "switch"
  /\ \A o \in HelpOpts : Kind[o] = "switch"
  /\ \A c \in Range(Commands) : OptionOf[c] \in Opts

VARIABLES argv,      \* the words of the current call
          i,         \* the word parse() has reached
          todo,      \* the requests of that word that remain: <<option, arg>>
          val,       \* what each option holds
          frees,     \* _frees
          pc,        \* "ready", "parsing" or "exited"
          code,      \* exit code of the last manage()
          given,     \* words given to the calls so far
          taken,     \* history: the words read or taken by this call
          served     \* history: <<option, argument>> of every process()

vars == <<argv, i, todo, val, frees, pc, code, given, taken, served>>

Unset(o) == CASE Kind[o] = "switch" -> FALSE
              [] Kind[o] = "list"   -> <<>>
              [] OTHER              -> Default

Init ==
  /\ argv = <<>> /\ i = 0 /\ todo = <<>> /\ pc = "ready" /\ code = 0
  /\ val = [o \in Opts |-> Unset(o)]
  /\ frees = <<>> /\ given = 0 /\ taken = <<>> /\ served = <<>>

-----------------------------------------------------------------------------
(* Option::process() of each kind of option.                                *)

Processed(o, arg) ==
  CASE Kind[o] = "switch" -> TRUE
    [] Kind[o] = "list"   -> Append(val[o], arg)
    [] OTHER              -> arg

\* EnumOption::process() of a text it does not know.
Refuses(o, arg) == Kind[o] = "enum" /\ arg \notin EnumVals

-----------------------------------------------------------------------------
(* manage() and parse()                                                     *)

\* A call returns: 0, 1 for an OptionException, 2 for another exception.
Return(c) == pc' = "ready" /\ code' = c /\ todo' = <<>>

manage ==
  /\ pc = "ready" /\ given < MaxWords
  /\ argv' \in UNION {[1 .. n -> Words] : n \in 0 .. MaxWords - given}
  /\ given' = given + Len(argv') + 1
  /\ i' = 0 /\ taken' = <<>> /\ pc' = "parsing"
  /\ UNCHANGED <<todo, val, frees, code, served>>

\* One turn of the loop of parse(): a command, a free argument, a word of
\* short commands, or an error.  The words "", "-" and "--x" are errors.
parseWord ==
  /\ pc = "parsing" /\ todo = <<>> /\ i < Len(argv)
  /\ i' = i + 1 /\ taken' = Append(taken, i + 1)
  /\ LET w == argv[i + 1]
     IN  \/ /\ w.cmd \in Range(Commands)
            /\ todo' = <<<<OptionOf[w.cmd], w.arg>>>>
            /\ UNCHANGED <<frees, pc, code>>
         \/ /\ w.cmd \notin Range(Commands) /\ w.dash = 0 /\ w.text # ""
            /\ frees' = Append(frees, w.text)
            /\ \/ UNCHANGED <<todo, pc, code>>
               \/ Return(1)            \* process() of the application refuses
         \/ /\ w.cmd \notin Range(Commands) /\ w.dash = 1 /\ w.letters # <<>>
            /\ todo' = [j \in DOMAIN w.letters |->
                          <<IF w.letters[j] \in DOMAIN Shorts
                            THEN Shorts[w.letters[j]] ELSE NoArg, NoArg>>]
            /\ UNCHANGED <<frees, pc, code>>
         \/ /\ w.cmd \notin Range(Commands)
            /\ w.text = "" \/ w.dash = 2 \/ (w.dash = 1 /\ w.letters = <<>>)
            /\ Return(1) /\ UNCHANGED frees
  /\ UNCHANGED <<argv, val, given, served>>

\* Mutation: an option takes the next word, another option included.
NextIsAny == i < Len(argv)

\* The next word is an argument unless it starts with a dash.
NextIsArgument == i < Len(argv) /\ argv[i + 1].dash = 0

\* The arguments an option may be given: after '=', else in the next word.
TakesNext(o, earg) == Usage[o] # "none" /\ earg = NoArg /\ NextIsArgument

BadUse(o, earg) ==
  \/ Usage[o] = "none" /\ earg # NoArg
  \/ Usage[o] = "required" /\ earg = NoArg /\ ~NextIsArgument

processOption ==
  /\ todo # <<>>
  /\ LET o == todo[1][1]
         earg == todo[1][2]
         arg == IF earg # NoArg THEN earg
                ELSE IF TakesNext(o, earg) THEN argv[i + 1].text ELSE ""
     IN  IF o = NoArg \/ BadUse(o, earg)
         THEN Return(1) /\ UNCHANGED <<i, taken, val, served>>
         ELSE /\ i' = IF TakesNext(o, earg) THEN i + 1 ELSE i
              /\ taken' = IF TakesNext(o, earg) THEN Append(taken, i + 1) ELSE taken
              /\ IF Refuses(o, arg)
                 THEN Return(1) /\ UNCHANGED <<val, served>>
                 ELSE /\ val' = [val EXCEPT ![o] = Processed(o, arg)]
                      /\ served' = Append(served, <<o, arg>>)
                      /\ IF \E h \in HelpOpts : val'[h]
                         THEN pc' = "exited" /\ code' = 1 /\ todo' = <<>>
                         ELSE todo' = Tail(todo) /\ UNCHANGED <<pc, code>>
  /\ UNCHANGED <<argv, frees, given>>

\* The end of the words: run() of the application, which may throw.
run ==
  /\ pc = "parsing" /\ todo = <<>> /\ i = Len(argv)
  /\ \E c \in {0, 1, 2} : Return(c)
  /\ UNCHANGED <<argv, i, val, frees, given, taken, served>>

Next == manage \/ parseWord \/ processOption \/ run

-----------------------------------------------------------------------------
(* displayHelp(): a line for each option, at the first of its commands, with *)
(* its short commands before the long ones.                                  *)

FirstOf(c) == \A j \in 1 .. c - 1 : OptionOf[Commands[j]] # OptionOf[Commands[c]]

LineOf(c) ==
  LET rest == SubSeq(Commands, c, Len(Commands))
      Of(long) == SelectSeq(rest, LAMBDA d : /\ OptionOf[d] = OptionOf[Commands[c]]
                                             /\ (d \in IsLong) = long)
  IN  <<OptionOf[Commands[c]], Of(FALSE) \o Of(TRUE)>>

displayHelp == {LineOf(c) : c \in {d \in 1 .. Len(Commands) : FirstOf(d)}}

-----------------------------------------------------------------------------
(* What a command line means.                                               *)

\* Every word is read once and in order, as a command, as an argument or as a
\* free argument, although an aggregated word may consume several of them.
WordsReadOnce == taken = [k \in 1 .. i |-> k]

\* The arguments of the served options, in the order they were given.
ArgsOf(o) ==
  LET mine == SelectSeq(served, LAMBDA x : x[1] = o)
  IN  [k \in DOMAIN mine |-> mine[k][2]]

\* An option holds what all the calls have given it, the last for a value; an
\* exception in a later word takes nothing back.
ValuesExact ==
  \A o \in Opts :
    val[o] = CASE ArgsOf(o) = <<>>   -> Unset(o)
               [] Kind[o] = "switch" -> TRUE
               [] Kind[o] = "list"   -> ArgsOf(o)
               [] OTHER              -> Last(ArgsOf(o))

\* No word starting with a dash is an argument or a free argument; without
\* "=" an argument is the text of a word.
DashIsNoArgument ==
  /\ \A k \in DOMAIN frees : \E w \in Words : w.dash = 0 /\ w.text = frees[k]
  /\ \A k \in DOMAIN served :
       \/ served[k][2] = "" /\ Usage[served[k][1]] # "required"
       \/ \E w \in Words : w.dash = 0 /\ w.text = served[k][2]
       \/ \E w \in Words : w.arg = served[k][2]

\* The help ends the program at once: no word after it has any effect.
HelpEnds ==
  (\E h \in HelpOpts : val[h]) =>
    pc = "exited" /\ code = 1 /\ Last(served)[1] \in HelpOpts

\* Every option is shown once with all its commands.
HelpIsComplete ==
  \A o \in Range(OptionOf) :
    \E l \in displayHelp :
      /\ l[1] = o /\ Range(l[2]) = {c \in Range(Commands) : OptionOf[c] = o}
      /\ \A m \in displayHelp : m[1] = o => m = l
=============================================================================
