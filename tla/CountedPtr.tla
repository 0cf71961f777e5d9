----------------------------- MODULE CountedPtr -----------------------------
(***************************************************************************)
(* elm::SharedPtr<T> (include/elm/util/SharedPtr.h) and elm::LockPtr<T>    *)
(* (include/elm/util/LockPtr.h): pointers that count the references to an  *)
(* object, in a cell of their own or in the object itself, and delete it   *)
(* with the last of them.                                                  *)
(*                                                                         *)
(* Each object holds one pointer (as the list nodes of the tests do): the  *)
(* deletion of an object releases the one it points to.  The static null   *)
(* cells start with a count of one and are never deleted: they are Null.   *)
(***************************************************************************)
EXTENDS Integers, FiniteSets

CONSTANTS
  Vars,       \* pointer variables of the application
  Objects,
  Null, None, \* the null cell; a pointer that is not constructed
  Intrusive,  \* LockPtr: the object is its own cell
  Cells,      \* the counters: Objects for LockPtr, enough of them else
  Careful     \* the application never assigns to a pointer what would be
              \* deleted by the assignment, nor the raw pointer of another
              \* SharedPtr

\* What the constants are assumed to be.
Parameters ==
  /\ IF Intrusive THEN Cells = Objects
     ELSE Cells \intersect (Objects \union Vars) = {}
  /\ {Null, None} \intersect (Cells \union Objects \union Vars) = {}
  /\ {Intrusive, Careful} \subseteq BOOLEAN

Handles == Vars \union Objects    \* an object stands for its own pointer

VARIABLES
  at,       \* the cell of each pointer: c, or ptr
  cnt,      \* the counters: cnt, or u
  obj,      \* the object of each cell
  alive,    \* objects allocated and not deleted
  used,     \* history: objects and cells allocated so far
  broken    \* deleted memory was used

vars == <<at, cnt, obj, alive, used, broken>>

-----------------------------------------------------------------------------
Init ==
  /\ at = [h \in Handles |-> None]
  /\ cnt = [c \in Cells |-> 0]
  /\ obj = [c \in Cells |-> IF Intrusive THEN c ELSE Null]
  /\ alive = {} /\ used = {} /\ broken = FALSE

Memory == [at |-> at, cnt |-> cnt, alive |-> alive]

RECURSIVE Unlocked(_, _)

\* unlock() of a pointer: the last one deletes the object, whose destructor
\* unlocks the pointer it holds.
Unlocked(mem, h) ==
  LET c == mem.at[h] IN
  IF c = Null THEN mem
  ELSE LET n == [mem EXCEPT !.cnt[c] = @ - 1] IN
       IF n.cnt[c] # 0 THEN n
       ELSE LET d == Unlocked(n, obj[c])
            IN  [d EXCEPT !.at[obj[c]] = None, !.alive = @ \ {obj[c]}]

\* Mutant: a copy of a pointer is not counted.
SetUncounted(mem, h, c) ==
  /\ at' = [mem.at EXCEPT ![h] = c]
  /\ cnt' = IF c = Null \/ mem.cnt[c] > 0 THEN mem.cnt
            ELSE [mem.cnt EXCEPT ![c] = @ + 1]
  /\ alive' = mem.alive

\* A step that leaves the pointers as mem tells, h set to cell c.
Set(mem, h, c) ==
  /\ at' = [mem.at EXCEPT ![h] = c]
  /\ cnt' = IF c = Null THEN mem.cnt ELSE [mem.cnt EXCEPT ![c] = @ + 1]
  /\ alive' = mem.alive

Exists(h) == at[h] # None /\ ~broken

\* The default constructor, and the copy constructor.
construct(h) ==
  /\ h \in Vars /\ at[h] = None /\ ~broken
  /\ Set(Memory, h, Null)
  /\ UNCHANGED <<obj, used, broken>>

copy(h, g) ==
  /\ h \in Vars /\ at[h] = None /\ Exists(g)
  /\ Set(Memory, h, at[g])
  /\ UNCHANGED <<obj, used, broken>>

destruct(h) ==
  /\ h \in Vars /\ Exists(h)
  /\ LET mem == Unlocked(Memory, h)
     IN  /\ at' = [mem.at EXCEPT ![h] = None]
         /\ cnt' = mem.cnt /\ alive' = mem.alive
  /\ UNCHANGED <<obj, used, broken>>

\* h = new T(g): the new object takes a copy of g, then h releases what it
\* held and takes the object.
assignNew(h, g, o) ==
  /\ Exists(h) /\ Exists(g) /\ o \notin used
  /\ \E c \in Cells \ used :
       /\ Intrusive => c = o
       /\ LET held == [at |-> [at EXCEPT ![o] = at[g]],
                       cnt |-> IF at[g] = Null THEN cnt
                               ELSE [cnt EXCEPT ![at[g]] = @ + 1],
                       alive |-> alive \union {o}]
              mem  == Unlocked(held, h)
          IN  /\ Careful => mem.at[h] # None
              /\ Set(mem, h, c)
              /\ broken' = (mem.at[h] = None)
       /\ obj' = [obj EXCEPT ![c] = o]
       /\ used' = used \union {o, c}

\* What the release of h deletes, h and g among it.
Deletes(h, x) == Unlocked(Memory, h).at[x] = None

\* h = g.  SharedPtr: releasing the last pointer leaves the cell deleted, so
\* that it cannot be read again from g, or from h itself.
assignShared(h, g) ==
  /\ ~Intrusive /\ Exists(h) /\ Exists(g)
  /\ Careful => ~Deletes(h, h) /\ ~Deletes(h, g)
                /\ (at[g] # Null => Unlocked(Memory, h).cnt[at[g]] > 0)
  /\ LET mem == Unlocked(Memory, h)
         ok  == /\ mem.at[h] # None /\ mem.at[g] # None
                /\ at[g] # Null => mem.cnt[at[g]] > 0
     IN  /\ broken' = ~ok
         /\ IF ok THEN Set(mem, h, at[g])
            ELSE at' = mem.at /\ cnt' = mem.cnt /\ alive' = mem.alive
  /\ UNCHANGED <<obj, used>>

\* h = g.  LockPtr: unlock() sets the pointer to null when it deletes the
\* object, so that a self-assignment reads null.
assignLock(h, g) ==
  /\ Intrusive /\ Exists(h) /\ Exists(g)
  /\ Careful => ~Deletes(h, h) /\ ~Deletes(h, g)
                /\ (at[g] # Null => Unlocked(Memory, h).cnt[at[g]] > 0)
  /\ LET mem  == Unlocked(Memory, h)
         gone == h = g /\ at[h] # Null /\ mem.cnt[at[h]] = 0
         ok   == /\ mem.at[h] # None /\ mem.at[g] # None
     IN  /\ broken' = ~ok
         /\ IF ok THEN Set(mem, h, IF gone THEN Null ELSE at[g])
            ELSE at' = mem.at /\ cnt' = mem.cnt /\ alive' = mem.alive
  /\ UNCHANGED <<obj, used>>

\* h = raw pointer taken from g: a second cell for SharedPtr.
assignRaw(h, g) ==
  /\ Exists(h) /\ Exists(g) /\ at[g] # Null
  /\ Careful => Intrusive /\ ~Deletes(h, h)
                /\ Unlocked(Memory, h).cnt[at[g]] > 0
  /\ LET mem == Unlocked(Memory, h)
         o   == obj[at[g]]
     IN  IF mem.at[h] = None \/ o \notin mem.alive
         THEN /\ broken' = TRUE
              /\ at' = mem.at /\ cnt' = mem.cnt /\ alive' = mem.alive
              /\ UNCHANGED <<obj, used>>
         ELSE /\ UNCHANGED broken
              /\ IF Intrusive THEN Set(mem, h, o) /\ UNCHANGED <<obj, used>>
                 ELSE \E c \in Cells \ used :
                        /\ Set(mem, h, c)
                        /\ obj' = [obj EXCEPT ![c] = o]
                        /\ used' = used \union {c}

Next ==
  \/ \E h \in Vars : construct(h) \/ destruct(h)
  \/ \E h \in Vars, g \in Handles : copy(h, g)
  \/ \E h, g \in Handles : assignShared(h, g) \/ assignLock(h, g)
                           \/ assignRaw(h, g)
  \/ \E h, g \in Handles, o \in Objects : assignNew(h, g, o)

Spec == Init /\ [][Next]_vars

-----------------------------------------------------------------------------
\* Every counter is the number of pointers to its cell, through copies,
\* assignments and cascades of deletions.
CountExact ==
  ~broken => \A c \in Cells :
    cnt[c] = Cardinality({h \in Handles : at[h] = c})

\* "automatically delete a pointed object when it is no more used", and not
\* before: an object lives exactly as long as a pointer leads to it.
AliveIffUsed ==
  ~broken => \A o \in Objects :
    (o \in alive) <=> (\E h \in Handles : at[h] \in Cells /\ obj[at[h]] = o)

\* "assignment of shared pointer induces the decrementation of the previous
\* pointer and the incrementation of the new pointer": after h = g, h points
\* to what g pointed to.  Fails for h = h->next and h = h.
AssignKeeps ==
  [][\A h, g \in Handles :
       assignShared(h, g) \/ assignLock(h, g)
         => ~broken' /\ at'[h] = at[g]]_vars
=============================================================================
