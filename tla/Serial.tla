------------------------------- MODULE Serial -------------------------------
(***************************************************************************)
(* serial2: XOMElementSerializer turns objects that point to each other    *)
(* into elements, XOMUnserializer builds objects from them.  Pointers are  *)
(* written as references; the objects they lead to are queued and written  *)
(* by flush() in elements of their own; when they are read, a pointer to   *)
(* an object that is not read yet is patched later.                        *)
(*                                                                         *)
(* An address is a sequence: the number of an object, then the fields that *)
(* lead to an object embedded in it.  The first field of an object has the *)
(* address of the object.  A serializer and an unserializer are records:   *)
(* what each call of theirs makes of one is an operator.                   *)
(***************************************************************************)
EXTENDS Integers, Sequences, SequencesExt, TLC

CONSTANTS Fields,     \* the fields of each class, [kind, class]; the kind is
                      \* "value", "object", "pointer" or "list" (of pointers)
          Class,      \* the class of each object of the program
          Roots,      \* the objects the program serializes itself
          Labels,     \* the values of an enumerated type, <<name, value>>
          MaxCalls    \* bound on the calls to the serializer

Parameters ==
  /\ \A c \in DOMAIN Fields : \A i \in DOMAIN Fields[c] :
       Fields[c][i].kind \in {"value", "object", "pointer", "list"}
  /\ Roots \subseteq DOMAIN Class /\ MaxCalls \in Nat

VARIABLES mem,       \* the program's memory: what each slot <<address, field>> holds
          ser, uns,  \* the serializer and the unserializer
          calls,     \* the objects serialized, in order, and the flushes (0)
          pc         \* "write", "read" or "done"

vars == <<mem, ser, uns, calls, pc>>

null == <<>>         \* the null pointer
Unset == <<0>>       \* a pointer that was not given a value

RECURSIVE Parts(_, _)
\* The object at an address and those embedded in it, with their classes.
Parts(a, c) ==
  {<<a, c>>} \cup
  UNION {Parts(Append(a, i), Fields[c][i].class) :
           i \in {j \in DOMAIN Fields[c] : Fields[c][j].kind = "object"}}

Objects == UNION {Parts(<<o>>, Class[o]) : o \in DOMAIN Class}

\* Where a pointer of class c may lead.
Targets(c) == {null} \cup {o[1] : o \in {p \in Objects : p[2] = c}}

Contents(f) ==
  CASE f.kind = "value"   -> {l[2] : l \in Range(Labels)}
    [] f.kind = "pointer" -> Targets(f.class)
    [] f.kind = "list"    -> UNION {[1 .. n -> Targets(f.class)] : n \in 0 .. 2}

Slots == UNION {{<<o[1], i>> : i \in {j \in DOMAIN Fields[o[2]] :
                                        Fields[o[2]][j].kind # "object"}} : o \in Objects}

FieldOf(s) == Fields[(CHOOSE o \in Objects : o[1] = s[1])[2]][s[2]]

\* The first field is where the object is.
Canon(a) ==
  LET last == Max({1} \cup {j \in 2 .. Len(a) : a[j] # 1}) IN SubSeq(a, 1, last)

-----------------------------------------------------------------------------
(* The names of enumerated values: the first label that fits.               *)

FirstLabel(T(_)) == {j \in DOMAIN Labels : T(Labels[j]) /\ \A k \in 1 .. j - 1 : ~T(Labels[k])}

nameFor(v) == Labels[CHOOSE j \in FirstLabel(LAMBDA l : l[2] = v) : TRUE][1]

valueFor(n) ==
  LET found == FirstLabel(LAMBDA l : l[1] = n)
  IN  IF found = {} THEN -1 ELSE Labels[CHOOSE j \in found : TRUE][2]

-----------------------------------------------------------------------------
(* XOMElementSerializer                                                     *)

NewElement(tag) == [tag |-> tag, id |-> 0, ref |-> -1, text |-> "", kids |-> <<>>]

FreshSer ==
  [elem |-> <<NewElement(0)>>, ctx |-> [elem |-> 1, first |-> FALSE], stack |-> <<>>,
   ids |-> <<>>, seen |-> {}, done |-> <<>>, todo |-> <<>>]

\* appendChild() of a new element, which the context moves to.
Append2(s, to, tag) ==
  [s EXCEPT !.elem = Append([@ EXCEPT ![to].kids = Append(@, Len(s.elem) + 1)],
                            NewElement(tag)),
            !.ctx.elem = Len(s.elem) + 1]

refGet(s, a) == [s EXCEPT !.ids = IF a \in Range(@) THEN @ ELSE Append(@, a)]

IdOf(s, a) == CHOOSE k \in DOMAIN s.ids : s.ids[k] = a

\* done and seen objects are known by their addresses.  An object that was
\* done gives half of its children to the new element, and leaves the tree.
Moved(s, src) ==
  LET kids == s.elem[src].kids
      half == (Len(kids) + 1) \div 2
      to == s.ctx.elem
      left == [s.elem EXCEPT ![src].kids = SubSeq(@, half + 1, Len(@))]
      got == [left EXCEPT ![to].kids = @ \o SubSeq(kids, 1, half)]
  IN  [s EXCEPT !.elem =
         [e \in DOMAIN got |-> [got[e] EXCEPT !.kids = SelectSeq(@, LAMBDA k : k # src)]]]

SetId(s, a) == [s EXCEPT !.elem[s.ctx.elem].id = IdOf(s, a)]

beginObject(s, a) ==
  IF a \in DOMAIN s.done THEN Moved(s, s.done[a]) ELSE SetId(refGet(s, a), a)

endObject(s, a) == [s EXCEPT !.done = (a :> s.ctx.elem) @@ @]

beginField(s, i) == [Append2(s, s.ctx.elem, i) EXCEPT !.stack = Append(@, s.ctx)]

endField(s) == [s EXCEPT !.ctx = Last(s.stack), !.stack = Front(@)]

onPointer(s, c, a) ==
  LET k == IF a = null THEN null ELSE Canon(a)
      r == refGet(s, k)
      new == a # null /\ k \notin s.seen
  IN  [r EXCEPT !.seen = IF new THEN @ \cup {k} ELSE @,
                !.todo = IF new THEN Append(@, <<c, a>>) ELSE @,
                !.elem[r.ctx.elem].ref = IF a = null THEN 0 ELSE IdOf(r, k)]

beginCompound(s, a) ==
  LET r == SetId(refGet(s, a), a)
  IN  [Append2(r, r.ctx.elem, -1) EXCEPT !.stack = Append(@, r.ctx), !.ctx.first = TRUE]

onItem(s) ==
  IF s.ctx.first THEN [s EXCEPT !.ctx.first = FALSE]
  ELSE [Append2(s, Last(s.stack).elem, -1) EXCEPT !.ctx.first = Last(s.stack).first]

endCompound(s) == endField(s)

onValue(s, v) == [s EXCEPT !.elem[s.ctx.elem].text = nameFor(v)]

RECURSIVE ObjectOut(_, _, _), FieldsOut(_, _, _, _), ItemsOut(_, _, _, _)

\* from_class::serialize(): the fields between beginObject() and endObject().
ObjectOut(s, a, c) == endObject(FieldsOut(beginObject(s, Canon(a)), a, c, 1), Canon(a))

ItemsOut(s, c, l, k) ==
  IF k > Len(l) THEN endCompound(s)
  ELSE ItemsOut(onPointer(onItem(s), c, l[k]), c, l, k + 1)

FieldOut(s, a, f, i) ==
  CASE f.kind = "value"   -> onValue(s, mem[<<a, i>>])
    [] f.kind = "object"  -> ObjectOut(s, Append(a, i), f.class)
    [] f.kind = "pointer" -> onPointer(s, f.class, mem[<<a, i>>])
    [] f.kind = "list"    ->
         ItemsOut(beginCompound(s, Canon(Append(a, i))), f.class, mem[<<a, i>>], 1)

FieldsOut(s, a, c, i) ==
  IF i > Len(Fields[c]) THEN s
  ELSE FieldsOut(endField(FieldOut(beginField(s, i), a, Fields[c][i], i)), a, c, i + 1)

RECURSIVE flushOut(_)
\* An element for each queued object that was not written; the objects these
\* lead to are queued behind.  The context stays on the last element.
DynObj(s, c, a) ==
  ObjectOut(Append2(s, 1, 0), a, c)

flushOut(s) ==
  IF s.todo = <<>> THEN s
  ELSE flushOut(LET r == [s EXCEPT !.todo = Tail(@)]
                    o == Head(s.todo)
                IN  IF Canon(o[2]) \in DOMAIN s.done THEN r ELSE DynObj(r, o[1], o[2]))

-----------------------------------------------------------------------------
(* XOMUnserializer                                                          *)

\* mem: the objects being built; refs: what is known of each identifier.
FreshUns ==
  [ctx |-> 1, mem |-> <<>>, class |-> <<>>, refs |-> <<>>, pending |-> <<>>, err |-> "",
   made |-> 0]

Fail(u, e) == [u EXCEPT !.err = e]

\* *ptr = a, for a pointer of an object or of an array.
Write(m, slot, a) ==
  IF Len(slot) = 2 THEN (slot :> a) @@ m
  ELSE [m EXCEPT ![<<slot[1], slot[2]>>][slot[3]] = a]

\* ref_t::put() and ref_t::record()
put(u, id, slot) ==
  IF u.refs[id].ptr # null THEN [u EXCEPT !.mem = Write(@, slot, u.refs[id].ptr)]
  ELSE [u EXCEPT !.refs[id].patches = Append(@, slot)]

\* Mutation: the pointers that wait for the object are forgotten.
recordOnly(u, id, a) == [u EXCEPT !.refs[id] = [@ EXCEPT !.ptr = a, !.patches = <<>>]]

record(u, id, a) ==
  [u EXCEPT !.refs[id] = [@ EXCEPT !.ptr = a, !.patches = <<>>],
            !.mem = FoldLeft(LAMBDA m, slot : Write(m, slot, a), @, u.refs[id].patches)]

lookupID(u, c, a) ==
  LET id == ser.elem[u.ctx].id
  IN  CASE id = 0                   -> u
        [] id \notin DOMAIN u.refs  ->
             [u EXCEPT !.refs = (id :> [class |-> c, ptr |-> a, patches |-> <<>>]) @@ @]
        [] u.refs[id].ptr = null    -> record(u, id, a)
        [] OTHER                    -> Fail(u, "used multiple times")

\* A new object, its pointers unset and its arrays empty.
instantiate(u, c) ==
  LET a == <<100 + u.made>>
      slots == UNION {{<<p[1], p[2], i>> : i \in DOMAIN Fields[p[2]]} : p \in Parts(a, c)}
      holds == {s \in slots : Fields[s[2]][s[3]].kind # "object"}
      Initial(s) == CASE Fields[s[2]][s[3]].kind = "value"   -> -1
                      [] Fields[s[2]][s[3]].kind = "pointer" -> Unset
                      [] Fields[s[2]][s[3]].kind = "list"    -> <<>>
      new == [t \in {<<s[1], s[3]>> : s \in holds} |->
                Initial(CHOOSE s \in holds : s[1] = t[1] /\ s[3] = t[2])]
  IN  [u EXCEPT !.made = @ + 1, !.mem = new @@ @, !.class = (a :> c) @@ @]

Made(u) == <<99 + u.made>>

RECURSIVE ObjectIn(_, _, _), FieldsIn(_, _, _, _), ItemsIn(_, _, _, _, _)

ObjectIn(u, a, c) == FieldsIn(lookupID(u, c, a), a, c, 1)

\* embed(): the pointer gets the new object before it is read.
Embed(u, c, slot) ==
  ObjectIn([u EXCEPT !.mem = Write(@, slot, Made(u))], Made(u), c)

PointerIn(u, c, slot) ==
  LET ref == ser.elem[u.ctx].ref
  IN  CASE ref = -1                  -> Embed(instantiate(u, c), c, slot)
        [] ref = 0                   -> [u EXCEPT !.mem = Write(@, slot, null)]
        [] ref \in DOMAIN u.refs     -> put(u, ref, slot)
        [] OTHER                     ->
             put([u EXCEPT !.pending = Append(@, ref),
                           !.refs = (ref :> [class |-> c, ptr |-> null,
                                             patches |-> <<>>]) @@ @], ref, slot)

\* beginCompound() and nextItem(): the elements one by one.
ItemsIn(u, c, slot, kids, k) ==
  IF u.err # "" \/ k > Len(kids) THEN u
  ELSE ItemsIn(PointerIn([u EXCEPT !.ctx = kids[k]], c, Append(slot, k)), c, slot, kids, k + 1)

ListIn(u, c, slot, kids) ==
  IF kids = <<>> THEN u
  ELSE ItemsIn([u EXCEPT !.mem = (slot :> [k \in DOMAIN kids |-> Unset]) @@ @], c, slot, kids, 1)

ValueIn(u, slot) ==
  LET v == valueFor(ser.elem[u.ctx].text)
  IN  IF v < 0 THEN Fail(u, "bad enumerated value") ELSE [u EXCEPT !.mem = (slot :> v) @@ @]

FieldIn(u, a, f, i) ==
  CASE f.kind = "value"   -> ValueIn(u, <<a, i>>)
    [] f.kind = "object"  -> ObjectIn(u, Append(a, i), f.class)
    [] f.kind = "pointer" -> PointerIn(u, f.class, <<a, i>>)
    [] f.kind = "list"    -> ListIn(u, f.class, <<a, i>>, ser.elem[u.ctx].kids)

\* beginField(): the first child of that name; none leaves the field alone.
Children(e, tag) == SelectSeq(ser.elem[e].kids, LAMBDA k : ser.elem[k].tag = tag)

FieldsIn(u, a, c, i) ==
  IF u.err # "" \/ i > Len(Fields[c]) THEN u
  ELSE LET found == Children(u.ctx, i)
           in == [u EXCEPT !.ctx = found[1]]
       IN  FieldsIn(IF found = <<>> THEN u
                    ELSE [FieldIn(in, a, Fields[c][i], i) EXCEPT !.ctx = u.ctx], a, c, i + 1)

RECURSIVE Index(_, _), PendingIn(_, _)
\* The element of each identifier: of several, the one visited last.
Index(stack, index) ==
  IF stack = <<>> THEN index
  ELSE LET e == ser.elem[Last(stack)]
       IN  Index(Front(stack) \o e.kids,
                 IF e.id = 0 THEN index ELSE (e.id :> Last(stack)) @@ index)

Resolve(u, id, index) ==
  LET c == u.refs[id].class
      n == instantiate([u EXCEPT !.ctx = index[id]], c)
      r == ObjectIn(n, Made(n), c)
  IN  IF r.err # "" THEN r ELSE record(r, id, Made(n))

\* flush(): the last reference first; ExternalSolver::null knows none.
PendingIn(u, index) ==
  IF u.err # "" \/ u.pending = <<>> THEN u
  ELSE LET id == Last(u.pending)
           p == [u EXCEPT !.pending = Front(@)]
       IN  PendingIn(CASE u.refs[id].ptr # null  -> p
                       [] id \notin DOMAIN index -> Fail([p EXCEPT !.pending = <<>>], "unresolved")
                       [] OTHER                  -> Resolve(p, id, index), index)

flushIn(u) == PendingIn(u, Index(<<1>>, <<>>))

-----------------------------------------------------------------------------
(* The program: it serializes objects as the fields of the root element,    *)
(* closes the serializer, reads the same fields and flushes.                *)

RECURSIVE Memories(_)
Memories(S) ==
  IF S = {} THEN {<<>>}
  ELSE LET s == CHOOSE t \in S : TRUE
       IN  {(s :> v) @@ m : v \in Contents(FieldOf(s)), m \in Memories(S \ {s})}

Init ==
  /\ mem \in Memories(Slots)
  /\ ser = FreshSer /\ uns = FreshUns /\ calls = <<>> /\ pc = "write"

\* ser << field(name, object)
serialize(o) ==
  /\ pc = "write" /\ Len(calls) < MaxCalls
  /\ ser' = endField(ObjectOut(beginField(ser, o), <<o>>, Class[o]))
  /\ calls' = Append(calls, o)
  /\ UNCHANGED <<mem, uns, pc>>

flush ==
  /\ pc = "write" /\ 0 < Len(calls) /\ Len(calls) < MaxCalls
  /\ ser' = flushOut(ser) /\ calls' = Append(calls, 0)
  /\ UNCHANGED <<mem, uns, pc>>

\* ~XOMElementSerializer()
close ==
  /\ pc = "write" /\ calls # <<>>
  /\ ser' = flushOut(ser) /\ pc' = "read"
  /\ UNCHANGED <<mem, uns, calls>>

RECURSIVE RootsIn(_, _)
\* uns >> field(name, object), for each object in the order of the writes,
\* into objects of their own.
RootIn(u, found, o, n) ==
  IF found = <<>> THEN u
  ELSE [ObjectIn([u EXCEPT !.ctx = found[1]], n, Class[o]) EXCEPT !.ctx = 1]

RootsIn(u, cs) ==
  IF u.err # "" \/ cs = <<>> THEN u
  ELSE LET o == cs[1]
           n == instantiate(u, Class[o])
       IN  RootsIn(RootIn(n, Children(1, o), o, Made(n)), Tail(cs))

\* The objects that were serialized, in order.
Written == SelectSeq(calls, LAMBDA o : o # 0)

unserialize ==
  /\ pc = "read"
  /\ uns' = LET u == RootsIn(uns, Written) IN IF u.err # "" THEN u ELSE flushIn(u)
  /\ pc' = "done"
  /\ UNCHANGED <<mem, ser, calls>>

Next == (\E o \in Roots : serialize(o)) \/ flush \/ close \/ unserialize

-----------------------------------------------------------------------------
(* What a file is good for.                                                 *)

\* What the code asks of the program without saying it: it writes an object
\* once and flushes last; no first field is an object or an array; no array
\* is empty; no pointer leads inside an object that is only reached by
\* pointers.
Supported ==
  /\ \A k \in 1 .. Len(calls) - 1 : calls[k] # 0
  /\ Len(calls) = Cardinality(Range(calls))
  /\ \A c \in DOMAIN Fields : Fields[c][1].kind \in {"value", "pointer"}
  /\ \A s \in Slots :
       CASE FieldOf(s).kind = "value"   -> TRUE
         [] FieldOf(s).kind = "pointer" ->
              Len(mem[s]) > 1 => mem[s][1] \in Range(calls)
         [] FieldOf(s).kind = "list"    ->
              mem[s] # <<>> /\ \A k \in DOMAIN mem[s] :
                Len(mem[s][k]) > 1 => mem[s][k][1] \in Range(calls)

\* The pointers of an object: where they are, where they lead, their class.
PointersOf(a, c, m) ==
  UNION {CASE Fields[c][i].kind = "pointer" -> {<<<<i>>, m[<<a, i>>], Fields[c][i].class>>}
           [] Fields[c][i].kind = "list"    ->
                {<<<<i, k>>, m[<<a, i>>][k], Fields[c][i].class>> : k \in DOMAIN m[<<a, i>>]}
           [] Fields[c][i].kind = "object"  -> {<<<<i>>, Append(a, i), Fields[c][i].class>>}
           [] OTHER                         -> {} : i \in DOMAIN Fields[c]}

RECURSIVE Same(_, _)
\* The pairs of objects, old and new, that the same fields lead to.
Same(pairs, todo) ==
  IF todo = {} THEN pairs
  ELSE LET next == UNION {{<<x[2], y[2], x[3]>> :
                             <<x, y>> \in {z \in PointersOf(p[1], p[3], mem) \X
                                                 PointersOf(p[2], p[3], uns.mem) :
                                             z[1][1] = z[2][1] /\ z[1][2] # null
                                             /\ z[2][2] \notin {null, Unset}}} : p \in todo}
       IN  Same(pairs \cup next, next \ pairs)

RootPairs == {<<<<Written[k]>>, <<99 + k>>, Class[Written[k]]>> : k \in DOMAIN Written}

\* The file of a supported program is read without an error, and what is read
\* has the values, the nulls, the sharing and the cycles of what was written.
RoundTrip ==
  pc = "done" /\ Supported =>
    LET pairs == Same(RootPairs, RootPairs)
    IN  /\ uns.err = ""
        /\ \A p, q \in pairs : p[1] = q[1] <=> p[2] = q[2]
        /\ \A p \in pairs : \A i \in DOMAIN Fields[p[3]] :
             LET old == mem[<<p[1], i>>]
                 new == uns.mem[<<p[2], i>>]
             IN  CASE Fields[p[3]][i].kind = "value"   -> old = new
                   [] Fields[p[3]][i].kind = "pointer" -> new # Unset /\ (old = null) = (new = null)
                   [] Fields[p[3]][i].kind = "list"    ->
                        /\ Len(old) = Len(new)
                        /\ \A k \in DOMAIN old : new[k] # Unset /\ (old[k] = null) = (new[k] = null)
                   [] OTHER                            -> TRUE

NewObjects == UNION {Parts(a, uns.class[a]) : a \in DOMAIN uns.class}

\* Whatever was written, a file that is read without an error leaves no
\* reference unresolved, and every pointer that was read leads to an object
\* of its class.
NoPatchLeft ==
  pc = "done" /\ uns.err = "" =>
    /\ uns.pending = <<>>
    /\ \A id \in DOMAIN uns.refs : uns.refs[id].ptr # null /\ uns.refs[id].patches = <<>>
    /\ \A o \in NewObjects : \A x \in PointersOf(o[1], o[2], uns.mem) :
         x[2] \notin {null, Unset} =>
           \E n \in NewObjects : n[2] = x[3] /\ Canon(n[1]) = Canon(x[2])
=============================================================================
