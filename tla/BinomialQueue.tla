--------------------------- MODULE BinomialQueue ---------------------------
(***************************************************************************)
(* elm::BinomialQueue. A node is [x, degree, child], child being the list  *)
(* of its children, and a list of nodes linked by next is a sequence. The  *)
(* field _min is never given a node: it stays null and the branch of put() *)
(* that tests it is never taken.                                           *)
(***************************************************************************)
EXTENDS Integers, Sequences, SequencesExt

CONSTANTS Values,   \* the values put in the queue
          None,     \* no value
          MaxItems  \* bound on the number of items

\* What the constants are assumed to be.
Parameters ==
  /\ Values \subseteq Int /\ None \notin Values /\ MaxItems \in Nat

VARIABLES head,     \* _head, the list of the roots
          ret       \* the value returned by the last call

vars == <<head, ret>>

Node(x) == [x |-> x, degree |-> 0, child |-> <<>>]

higher(x, y) == x <= y

link(root, child) ==
    [root EXCEPT !.child = <<child>> \o @, !.degree = @ + 1]

\* min(): the position of the root it chooses, the last one in case of a tie.
min(h) == CHOOSE i \in 1..Len(h) :
            /\ \A j \in 1..Len(h) : higher(h[i].x, h[j].x)
            /\ \A j \in i + 1 .. Len(h) : ~higher(h[j].x, h[i].x)

\* merge(): two lists by increasing degree.
RECURSIVE MergeLoop(_, _)
MergeLoop(a, b) ==
    CASE a = <<>> -> b
      [] b = <<>> -> a
      [] a # <<>> /\ b # <<>> /\ Head(a).degree < Head(b).degree ->
            <<Head(a)>> \o MergeLoop(Tail(a), b)
      [] OTHER -> <<Head(b)>> \o MergeLoop(a, Tail(b))

merge(a, b) == MergeLoop(a, b)

\* The test of the loop of join() by which x is left as it is.
MustStep(x, rest) ==
    \/ x.degree # rest[1].degree
    \/ Len(rest) > 1 /\ rest[2].degree = x.degree

\* Mutation: the greater root is on top.
LinkedWrong(x, n) == IF higher(x.x, n.x) THEN link(n, x) ELSE link(x, n)

\* The tree made of x and the tree n that follows it.
Linked(x, n) == IF higher(x.x, n.x) THEN link(x, n) ELSE link(n, x)

\* The loop of join(): done is the list up to p, x the current tree.
RECURSIVE JoinLoop(_, _, _)
JoinLoop(done, x, rest) ==
    IF rest = <<>> THEN Append(done, x)
    ELSE IF MustStep(x, rest) THEN JoinLoop(Append(done, x), rest[1], Tail(rest))
    ELSE JoinLoop(done, Linked(x, rest[1]), Tail(rest))

join(h, h2) ==
    IF h2 = <<>> THEN h
    ELSE IF h = <<>> THEN h2
    ELSE LET m == merge(h, h2) IN JoinLoop(<<>>, m[1], Tail(m))

RECURSIVE ItemsOf(_)
ItemsOf(h) == IF h = <<>> THEN <<>>
              ELSE <<Head(h).x>> \o ItemsOf(Head(h).child) \o ItemsOf(Tail(h))

isEmpty == head = <<>>

Init == head = <<>> /\ ret = None

put(v) ==
    /\ Len(ItemsOf(head)) < MaxItems
    /\ head' = join(head, <<Node(v)>>)
    /\ ret' = None

\* reverse() of the children: link() puts them by decreasing degree.
Children(n) == Reverse(n.child)

get ==
    /\ ~isEmpty
    /\ LET i == min(head)
       IN  /\ head' = join(RemoveAt(head, i), Children(head[i]))
           /\ ret' = head[i].x

headOf ==
    /\ ~isEmpty
    /\ ret' = head[min(head)].x
    /\ UNCHANGED head

Next == get \/ headOf \/ \E v \in Values : put(v)

Spec == Init /\ [][Next]_vars

-----------------------------------------------------------------------------
\* A binomial tree: in heap order, with children of degree d - 1, ..., 0.
RECURSIVE IsBinomial(_)
IsBinomial(n) ==
    /\ Len(n.child) = n.degree
    /\ \A i \in 1..n.degree :
        /\ n.child[i].degree = n.degree - i
        /\ n.x <= n.child[i].x
        /\ IsBinomial(n.child[i])

\* Through any sequence of put() and get(), the roots are binomial trees of
\* increasing degrees: there are at most as many as bits in the number of
\* items, which is what the cost of take() rests on.
Shape ==
    /\ \A i \in 1..Len(head) : IsBinomial(head[i])
    /\ \A i \in 1..Len(head) - 1 : head[i].degree < head[i + 1].degree

Count(v) == Len(SelectSeq(ItemsOf(head), LAMBDA x : x = v))

\* The queue returns its values in order: no item is lost or repeated by the
\* reorganisation of the trees, and get() and head() find the least one.
Promise == INSTANCE PriorityQueue WITH bag <- [v \in Values |-> Count(v)]

=============================================================================
