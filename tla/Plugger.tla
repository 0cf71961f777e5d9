------------------------------ MODULE Plugger ------------------------------
(***************************************************************************)
(* elm::sys::Plugin and elm::sys::Plugger (src/system_Plugin.cpp,          *)
(* src/system_Plugger.cpp): plugins linked in the program or loaded from   *)
(* shared libraries, the pluggers that look for them, and the ageing that  *)
(* unloads the ones nobody uses.                                           *)
(*                                                                         *)
(* A plugin's state is its number of users when positive, 0 before it is   *)
(* plugged and minus its age when unused; every Plugin::plug() ages every  *)
(* unused plugin.  The dynamic linker, outside this code, counts the       *)
(* openings of a library and unmaps it with the last closing.              *)
(*                                                                         *)
(* The memory is a record, mem, because plugFile() and plug() call each    *)
(* other for the dependencies an ELD file lists: both return the memory    *)
(* they leave and the plugin they found.  Dependencies without a cycle are *)
(* assumed: with one, these two functions never return.                    *)
(***************************************************************************)
EXTENDS Integers, SequencesExt

CONSTANTS
  Plugins, Names, Pluggers, Dirs,
  Null, Garbage,   \* no plugin; what lies beyond the end of a table
  MAX_AGE,
  Statics,         \* plugins linked in the program, in declaration order
  Matches,         \* name and aliases of each plugin
  HookOf,          \* the pluggers whose hook each plugin has
  Accepted,        \* the pluggers whose version accepts each plugin
  Lib,             \* Lib[d, n]: the library n of directory d
  Eld,             \* Eld[d, n]: its ELD file
  Listing,         \* the libraries of each directory, in readdir() order
  FirstPaths,      \* the directories given to the constructor
  MaxUse,          \* bound on the users and openings of a plugin
  Careful,         \* bound on the callers, see Plug
  Rearrange        \* whether the directories of a plugger change

ASSUME AgeAssumption  == MAX_AGE \in Nat \ {0} /\ MaxUse \in Nat \ {0}
ASSUME NullAssumption == Null \notin Plugins /\ Garbage \notin Plugins
ASSUME BoolAssumption == {Careful, Rearrange} \subseteq BOOLEAN
\* No library holds a plugin that is also linked in the program.
ASSUME StaticAssumption ==
  \A d \in Dirs, n \in Names : ~Contains(Statics, Lib[d, n])

\* No ELD file beside a library.
NoEld == [kind |-> "none"]

Errors == {"OK", "NO_PLUGIN", "NO_HOOK", "BAD_VERSION", "NO_MAGIC",
           "BAD_PLUGIN", "MISSING_DEP"}

VARIABLES
  mem,    \* plugins and pluggers, see Memory
  held,   \* held[p]: plug() calls that returned p and are not yet unplugged
  it,     \* the iterator over the available plugins, if any
  last    \* the last call: what it looked for and what it returned

vars == <<mem, held, it, last>>

Memory == [
  state   : [Plugins -> Int],
  opened  : [Plugins -> 0 .. MaxUse],       \* openings of its library
  handle  : [Plugins -> BOOLEAN],           \* _handle is not null
  deps    : [Plugins -> Seq(Plugins \union {Garbage})],
  needed  : [Plugins -> 0 .. MaxUse],   \* plugged as a dependency
  moved   : BOOLEAN,   \* history: plug() returned another than it plugged
  running : [Plugins -> BOOLEAN],           \* history: started, not cleaned
  statics : Seq(Plugins),                   \* static_plugins
  unused  : Seq(Plugins),                   \* unused_plugins
  active  : SUBSET Pluggers,                \* pluggers
  plugins : [Pluggers -> Seq(Plugins)],
  paths   : [Pluggers -> Seq(Dirs)],
  err     : [Pluggers -> Errors]]

NoCall == [call |-> "none", plugger |-> Null, res |-> Null]

NoIter == [on |-> FALSE, plugger |-> Null, i |-> 0, c |-> 0, path |-> 0, file |-> 0]

Without(s, p) == SelectSeq(s, LAMBDA q : q # p)

Loaded(m, p) == m.opened[p] > 0 \/ \E i \in DOMAIN Statics : Statics[i] = p

-----------------------------------------------------------------------------
\* The linker: link() and unlink().  The last closing of a library destroys
\* its plugin; the next opening builds it anew.
Link(m, p) == [m EXCEPT !.opened[p] = @ + 1]

Unlink(m, p) ==
  LET n == [m EXCEPT !.opened[p] = @ - 1] IN
  IF Loaded(n, p) THEN n
  ELSE [n EXCEPT !.state[p] = 0, !.handle[p] = FALSE, !.deps[p] = <<>>,
                 !.running[p] = FALSE]

\* Plugger::leave(): every active plugger forgets the plugin.
Leave(m, p) == [m EXCEPT !.plugins =
  [g \in Pluggers |-> IF g \in m.active THEN Without(@[g], p) ELSE @[g]]]

\* Mutant: the first of several users to unplug is taken for the last.
UnplugLast(m, p) ==
  LET n == IF m.state[p] > 0 THEN 0 ELSE m.state[p] - 1
      s == [m EXCEPT !.state[p] = n]
      left == [Leave(s, p) EXCEPT !.running[p] = FALSE, !.unused = Without(@, p)]
  IN  CASE n = 0         -> [s EXCEPT !.unused = Append(@, p), !.state[p] = -1]
        [] n < - MAX_AGE -> IF m.handle[p] THEN Unlink(left, p) ELSE left
        [] OTHER         -> s

\* Plugin::unplug(), of a user or of the ageing.
Unplug(m, p) ==
  LET n == m.state[p] - 1
      s == [m EXCEPT !.state[p] = n]
      left == [Leave(s, p) EXCEPT !.running[p] = FALSE, !.unused = Without(@, p)]
  IN  CASE n = 0         -> [s EXCEPT !.unused = Append(@, p), !.state[p] = -1]
        [] n < - MAX_AGE -> IF m.handle[p] THEN Unlink(left, p) ELSE left
        [] OTHER         -> s

\* Plugin::step(), from the last unused plugin to the first.
Step(m) == FoldLeft(Unplug, m, Reverse(m.unused))

\* Plugin::plug(handle): first use, one more use, or revival.
PlugPlugin(m, p, h) ==
  LET s == IF h THEN [m EXCEPT !.statics = Without(@, p)] ELSE m IN
  Step(CASE m.state[p] > 0 -> [s EXCEPT !.state[p] = @ + 1]
         [] m.state[p] = 0 -> [s EXCEPT !.state[p] = 1, !.running[p] = TRUE,
                                        !.handle[p] = h]
         [] m.state[p] < 0 -> [s EXCEPT !.state[p] = 1,
                                        !.unused = Without(@, p)])

\* Plugger::plug(Plugin *, void *): the plugin is added to the table once.
Enter(m, g, p) ==
  [m |-> IF Contains(m.plugins[g], p) THEN m
         ELSE [m EXCEPT !.plugins[g] = Append(@, p)],
   res |-> p]

PlugIn(m, g, p, h) == Enter(PlugPlugin(m, p, h), g, p)

Fail(m, g, e) == [m |-> [m EXCEPT !.err[g] = e], res |-> Null]

-----------------------------------------------------------------------------
RECURSIVE PlugFile(_, _, _, _), PlugName(_, _, _), PlugDeps(_, _, _, _),
          PlugPath(_, _, _, _)

\* The loop of lookELD() over the dependencies: stops at the first missing.
DepFound(r, g, names, got) ==
  IF r.res = Null
  THEN [m |-> [r.m EXCEPT !.err[g] = "MISSING_DEP"], res |-> Null, deps |-> got]
  ELSE PlugDeps([r.m EXCEPT !.needed = [p \in Plugins |->
                              IF p = r.res THEN @[p] + 1 ELSE @[p]]],
                g, Tail(names), Append(got, r.res))

PlugDeps(m, g, names, got) ==
  IF names = <<>> THEN [m |-> m, res |-> Null, deps |-> got]
  ELSE DepFound(PlugName(m, g, Head(names)), g, names, got)

\* The libraries of an ELD file are linked after its plugins are plugged.
LinkLibs(r, g, libs) ==
  IF r.m.err[g] = "OK" /\ ~libs THEN [r EXCEPT !.m.err[g] = "MISSING_DEP"] ELSE r

\* Plugger::lookELD(): another path, or plugins and libraries to link first.
LookELD(m, g, d, n) ==
  LET e == Eld[d, n] IN
  CASE e.kind = "none" -> [m |-> m, res |-> Null, deps |-> <<>>]
    [] e.kind = "path" -> PlugFile(m, g, e.dir, e.name) @@ [deps |-> <<>>]
    [] e.kind = "deps" -> LinkLibs(PlugDeps(m, g, e.deps, <<>>), g, e.libs)

\* Mutant: the version of the plugin is not checked.
OpenAnyVersion(m, g, d, n, deps) ==
  LET p == Lib[d, n] IN
  CASE p = "absent"      -> Fail(m, g, "OK")
    [] p = "irregular"   -> Fail(m, g, "NO_PLUGIN")
    [] p = "broken"      -> Fail(m, g, "BAD_PLUGIN")
    [] p = "no_magic"    -> Fail(m, g, "NO_MAGIC")
    [] p \in Plugins     ->
         LET o == Link(m, p) IN
         IF g \notin HookOf[p] THEN Fail(Unlink(o, p), g, "NO_HOOK")
         ELSE PlugIn([o EXCEPT !.deps[p] = @ \o deps], g, p, TRUE)

\* Plugger::plugFile() on a library whose ELD file has been processed.
OpenLibrary(m, g, d, n, deps) ==
  LET p == Lib[d, n] IN
  CASE p = "absent"      -> Fail(m, g, "OK")
    [] p = "irregular"   -> Fail(m, g, "NO_PLUGIN")
    [] p = "broken"      -> Fail(m, g, "BAD_PLUGIN")
    [] p = "no_magic"    -> Fail(m, g, "NO_MAGIC")
    [] p \in Plugins     ->
         LET o == Link(m, p) IN
         CASE g \notin HookOf[p]   -> Fail(Unlink(o, p), g, "NO_HOOK")
           [] g \in HookOf[p] \ Accepted[p] -> Fail(Unlink(o, p), g, "BAD_VERSION")
           [] OTHER -> PlugIn([o EXCEPT !.deps[p] = @ \o deps], g, p, TRUE)

\* Plugger::plugFile(): e is what lookELD() made of the ELD file.
AfterELD(e, g, d, n) ==
  CASE e.m.err[g] # "OK"                 -> [m |-> e.m, res |-> Null]
    [] e.m.err[g] = "OK" /\ e.res # Null -> [m |-> e.m, res |-> e.res]
    [] OTHER                             -> OpenLibrary(e.m, g, d, n, e.deps)

PlugFile(m, g, d, n) == AfterELD(LookELD([m EXCEPT !.err[g] = "OK"], g, d, n), g, d, n)

\* The loop of plug(name) over the directories; an earlier error is put back
\* when this directory reports NO_PLUGIN.
NextPath(r, m, g, n, i) ==
  IF r.res # Null THEN r
  ELSE PlugPath([r.m EXCEPT !.err[g] =
                   IF m.err[g] # "OK" /\ @ = "NO_PLUGIN" THEN m.err[g] ELSE @],
                g, n, i + 1)

PlugPath(m, g, n, i) ==
  IF i > Len(m.paths[g]) THEN [m |-> m, res |-> Null]
  ELSE NextPath(PlugFile(m, g, m.paths[g][i], n), m, g, n, i)

\* Plugger::plug(name).  For an opened plugin p the table is read again, at the
\* same index i, after the ageing.
ReadAgain(m, g, i, p) ==
  LET q == IF i <= Len(m.plugins[g]) THEN m.plugins[g][i] ELSE Garbage
  IN  [m |-> [m EXCEPT !.moved = @ \/ q # p], res |-> q]

PlugName(m, g, n) ==
  LET s == [m EXCEPT !.err[g] = "OK"]
      i == SelectInSeq(s.plugins[g], LAMBDA p : n \in Matches[p])
      j == SelectInSeq(s.statics, LAMBDA p : g \in HookOf[p] /\ n \in Matches[p])
  IN  IF i > 0
      THEN ReadAgain(PlugPlugin(s, s.plugins[g][i], FALSE), g, i, s.plugins[g][i])
      ELSE IF j > 0 THEN PlugIn(s, g, s.statics[j], FALSE)
      ELSE PlugPath(s, g, n, 1)

-----------------------------------------------------------------------------
\* Plugger::Iter::go() over the files: the next library that plugs; it is
\* plugged and unplugged at once.
RECURSIVE GoFiles(_, _, _, _)
Tried(r, g, path, k) ==
  IF r.res = Null THEN GoFiles(r.m, g, path, k)
  ELSE [m |-> Unplug(r.m, r.res), path |-> path, file |-> k]

GoFiles(m, g, path, k) ==
  LET files(i) == IF i = 0 THEN <<>> ELSE Listing[m.paths[g][i]]
      more == path <= Len(m.paths[g]) /\ k < Len(files(path))
      at   == IF more THEN path ELSE path + 1
      f    == IF more THEN k + 1 ELSE 1
  IN  IF at > Len(m.paths[g]) THEN [m |-> m, path |-> at, file |-> 0]
      ELSE IF files(at) = <<>> THEN GoFiles(m, g, at, 0)
      ELSE Tried(PlugFile(m, g, m.paths[g][at], files(at)[f]), g, at, f)

\* Iter::go(): the static plugins with the hook of the plugger, then the files.
OnFile(r, x, statics) ==
  [m |-> r.m, it |-> [x EXCEPT !.i = IF @ <= Len(statics) THEN x.c + 1 ELSE @,
                               !.path = r.path, !.file = r.file]]

Go(m, x) ==
  LET next == {i \in x.i + 1 .. x.c : x.plugger \in HookOf[m.statics[i]]} IN
  IF x.i <= Len(m.statics) /\ next # {}
  THEN [m |-> m, it |-> [x EXCEPT !.i = Min(next)]]
  ELSE OnFile(GoFiles(m, x.plugger, x.path, x.file), x, m.statics)

-----------------------------------------------------------------------------
Init ==
  /\ mem = [state   |-> [p \in Plugins |-> 0],
             opened  |-> [p \in Plugins |-> 0],
             handle  |-> [p \in Plugins |-> FALSE],
             deps    |-> [p \in Plugins |-> <<>>],
             needed  |-> [p \in Plugins |-> 0],
             running |-> [p \in Plugins |-> FALSE],
             moved   |-> FALSE,
             statics |-> Statics,
             unused  |-> <<>>,
             active  |-> {},
             plugins |-> [g \in Pluggers |-> <<>>],
             paths   |-> [g \in Pluggers |-> <<>>],
             err     |-> [g \in Pluggers |-> "OK"]]
  /\ held = [p \in Plugins |-> 0]
  /\ it = NoIter
  /\ last = NoCall

InBounds(m) == \A p \in Plugins :
  m.state[p] <= MaxUse /\ m.opened[p] <= MaxUse /\ m.needed[p] <= MaxUse

\* A call returns r to the program: the plugin is one more time in its hands.
Returns(call, g, r) ==
  /\ InBounds(r.m)
  /\ Careful => ~r.m.moved
  /\ mem' = r.m
  /\ held' = [p \in Plugins |-> IF p = r.res THEN held[p] + 1 ELSE held[p]]
  /\ last' = [call |-> call, plugger |-> g, res |-> r.res]

\* Without Careful, a plugin of the table may be plugged by the call that
\* unloads another one, before it in the same table.
Plug(g, n) ==
  /\ g \in mem.active
  /\ Returns("plug", g, PlugName(mem, g, n))
  /\ UNCHANGED it

CallPlugFile(g, d, n) ==
  /\ g \in mem.active
  /\ Returns("plugFile", g, PlugFile(mem, g, d, n))
  /\ UNCHANGED it

\* Plugin::unplug() by the program, also to age an unused plugin.
CallUnplug(p) ==
  /\ held[p] > 0 \/ Contains(mem.unused, p)
  /\ mem' = Unplug(mem, p)
  /\ held' = [held EXCEPT ![p] = IF @ > 0 THEN @ - 1 ELSE 0]
  /\ last' = NoCall
  /\ UNCHANGED it

\* getLastError(): one case per error but MISSING_DEP, which is asserted.
GetLastError(g) ==
  /\ g \in mem.active
  /\ last' = IF mem.err[g] # "MISSING_DEP" THEN NoCall
             ELSE [call |-> "getLastError", plugger |-> g, res |-> Garbage]
  /\ UNCHANGED <<mem, held, it>>

NewPlugger(g) ==
  /\ g \notin mem.active
  /\ mem' = [mem EXCEPT !.active = @ \union {g}, !.plugins[g] = <<>>,
                        !.paths[g] = FirstPaths, !.err[g] = "OK"]
  /\ last' = NoCall
  /\ UNCHANGED <<held, it>>

DeletePlugger(g) ==
  /\ g \in mem.active /\ it.plugger # g
  /\ mem' = [mem EXCEPT !.active = @ \ {g}, !.plugins[g] = <<>>,
                        !.paths[g] = <<>>, !.err[g] = "OK"]
  /\ last' = NoCall
  /\ UNCHANGED <<held, it>>

\* addPath(), removePath() and resetPaths(), never under an iterator.
ChangePaths(g) ==
  /\ Rearrange /\ g \in mem.active /\ it.plugger # g
  /\ \/ \E d \in Dirs : /\ ~Contains(mem.paths[g], d)
                        /\ mem' = [mem EXCEPT !.paths[g] = Append(@, d)]
     \/ \E d \in Dirs : mem' = [mem EXCEPT !.paths[g] = Without(@, d)]
     \/ mem' = [mem EXCEPT !.paths[g] = <<>>]
  /\ UNCHANGED <<held, it, last>>

\* Plugger::Iter: construction and next() run go().
Moves(r) ==
  /\ InBounds(r.m) /\ (Careful => ~r.m.moved)
  /\ mem' = r.m /\ it' = r.it /\ last' = NoCall
  /\ UNCHANGED held

MoveIter(x) == Moves(Go(mem, x))

NewIter(g) ==
  /\ ~it.on /\ g \in mem.active
  /\ MoveIter([NoIter EXCEPT !.on = TRUE, !.plugger = g, !.c = Len(mem.statics)])

Ended == it.path > Len(mem.paths[it.plugger])

NextIter == it.on /\ ~Ended /\ MoveIter(it)

IterPlug ==
  /\ it.on /\ ~Ended
  /\ LET g == it.plugger
         d == mem.paths[g][it.path]
     IN  Returns("Iter::plug", g,
                 IF it.i <= Len(mem.statics)
                 THEN PlugIn(mem, g, mem.statics[it.i], FALSE)
                 ELSE PlugFile(mem, g, d, Listing[d][it.file]))
  /\ UNCHANGED it

DeleteIter == it.on /\ it' = NoIter /\ UNCHANGED <<mem, held, last>>

Next ==
  \/ \E g \in Pluggers, n \in Names : Plug(g, n)
  \/ \E g \in Pluggers, d \in Dirs, n \in Names : CallPlugFile(g, d, n)
  \/ \E p \in Plugins : CallUnplug(p)
  \/ \E g \in Pluggers : GetLastError(g) \/ NewPlugger(g) \/ DeletePlugger(g)
                         \/ ChangePaths(g) \/ NewIter(g)
  \/ NextIter \/ IterPlug \/ DeleteIter

Spec == Init /\ [][Next]_vars

-----------------------------------------------------------------------------
(* Properties.                                                             *)

\* The types of the variables.
TypeOK ==
  /\ mem.state \in [Plugins -> - MAX_AGE - 1 .. MaxUse]
  /\ mem.opened \in [Plugins -> 0 .. MaxUse]
  /\ mem.needed \in [Plugins -> 0 .. MaxUse]
  /\ mem.active \subseteq Pluggers /\ mem.err \in [Pluggers -> Errors]
  /\ \A g \in Pluggers : mem.plugins[g] \in Seq(Plugins)
  /\ held \in [Plugins -> 0 .. MaxUse]

\* Users(p): the plug() calls on p, of the program and of the plugins that
\* depend on it, that nobody has undone.
Users(p) == held[p] + mem.needed[p]

\* A plugin in use counts each of its users exactly once and is in memory,
\* whatever the ageing unloads and however it was found (table, static list,
\* file, alias, dependency, iterator).
UsersAreCounted ==
  \A p \in Plugins : Users(p) > 0 \/ mem.state[p] > 0 =>
    mem.state[p] = Users(p) /\ Loaded(mem, p) /\ ~Contains(mem.unused, p)

\* No plugger keeps the pointer of a plugin whose library is unmapped: the
\* next plug() of any name would read it.
TablesHoldLoaded ==
  \A g \in mem.active : \A i \in DOMAIN mem.plugins[g] :
    Loaded(mem, mem.plugins[g][i]) /\ mem.state[mem.plugins[g][i]] \in
                                       - MAX_AGE .. MaxUse

\* The ageing serves each idle plugin once per plug(): the list of unused
\* plugins is the loaded plugins with an age, without duplicates.
UnusedIsExact ==
  /\ IsInjective(mem.unused)
  /\ \A p \in Plugins :
       Contains(mem.unused, p) <=> mem.state[p] \in - MAX_AGE .. -1

\* "If the plugin is found, is loadable and has a compatible version, it is
\* loaded": what a call returns has the hook and a version of the plugger, and
\* no failure met on the way, in a directory or a dependency, is left in err.
SuccessIsClean ==
  last.call \in {"plug", "plugFile"} /\ last.res \in Plugins
    => /\ last.plugger \in HookOf[last.res] \intersect Accepted[last.res]
       /\ mem.err[last.plugger] = "OK"

\* "Get a plugin by its name": plug() returns the plugin it plugged.
PlugReturnsFound == ~mem.moved

\* startup() "is called just after the plugin has been plugged into the user
\* application": a plugin in use has been started and not cleaned up since.
UsedIsStarted == \A p \in Plugins : held[p] > 0 => mem.running[p]

\* "If there is an error, a null pointer is returned" and the message of the
\* error tells it: no failure is reported as "Success."
FailureHasError ==
  last.call = "plug" /\ last.res = Null /\ last.plugger \in mem.active
    => mem.err[last.plugger] # "OK"

\* getLastError() knows every error: ASSERTP(0, "unknown error") is not met.
ErrorsAreKnown == ~(last.call = "getLastError" /\ last.res = Garbage)

=============================================================================
