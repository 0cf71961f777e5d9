------------------------------ MODULE MapStore ------------------------------
(***************************************************************************)
(* What the keyed collections of ELM promise (concepts MutableCollection,  *)
(* Set, Queue and MutableMap of src/concepts.h): a finite set of items, at *)
(* most one per key, whatever the shape of the tree or of the table.  last *)
(* tells the operation performed and its result, so that an implementation *)
(* cannot pass for one operation while it does another.                    *)
(***************************************************************************)
EXTENDS Integers

CONSTANTS Ids, Keys, Vals, NoItem

VARIABLES items,   \* items[i]: the <<key, value>> pairs of collection i
          last

KeysOf(s)  == {x[1] : x \in s}
At(s, k)   == {x \in s : x[1] = k}

StoreInit ==
  /\ items = [i \in Ids |-> {}]
  /\ last = <<"init">>

\* A keyed item that is present is left as it is.
Added(s, x) == IF x[1] \in KeysOf(s) THEN s ELSE s \union {x}

AddItem(i, k, v) ==
  /\ items' = [items EXCEPT ![i] = Added(@, <<k, v>>)]
  /\ last' = <<"add", i, k, v>>

PutItem(i, k, v) ==
  /\ items' = [items EXCEPT ![i] = (@ \ At(@, k)) \union {<<k, v>>}]
  /\ last' = <<"put", i, k, v>>

RemoveKey(i, k) ==
  /\ items' = [items EXCEPT ![i] = @ \ At(@, k)]
  /\ last' = <<"remove", i, k>>

GetFirst(i) ==
  \E x \in items[i] :
    /\ \A y \in items[i] : x[1] <= y[1]
    /\ items' = [items EXCEPT ![i] = @ \ {x}]
    /\ last' = <<"get", i, x[1]>>

ClearItems(i) ==
  /\ items' = [items EXCEPT ![i] = {}]
  /\ last' = <<"clear", i>>

CopyItems(i, j) ==
  /\ items' = [items EXCEPT ![i] = items[j]]
  /\ last' = <<"copy", i, j>>

JoinItems(i, j) ==
  /\ items' = [items EXCEPT ![i] =
                 @ \union {x \in items[j] : x[1] \notin KeysOf(@)}]
  /\ last' = <<"join", i, j>>

DiffItems(i, j) ==
  /\ items' = [items EXCEPT ![i] = {x \in @ : x[1] \notin KeysOf(items[j])}]
  /\ last' = <<"diff", i, j>>

MeetItems(i, j) ==
  /\ items' = [items EXCEPT ![i] = {x \in @ : x[1] \in KeysOf(items[j])}]
  /\ last' = <<"meet", i, j>>

LookUp(i, k) ==
  /\ last' = <<"lookup", i, k,
               IF k \in KeysOf(items[i])
               THEN (CHOOSE x \in At(items[i], k) : TRUE)[2] ELSE NoItem>>
  /\ UNCHANGED items

StoreNext ==
  \E i \in Ids :
    \/ ClearItems(i) \/ GetFirst(i)
    \/ \E k \in Keys : RemoveKey(i, k) \/ LookUp(i, k)
    \/ \E k \in Keys, v \in Vals : AddItem(i, k, v) \/ PutItem(i, k, v)
    \/ \E j \in Ids \ {i} : CopyItems(i, j) \/ JoinItems(i, j)
                             \/ DiffItems(i, j) \/ MeetItems(i, j)

\* A step of the collection, or one it does not see.
StoreStep == [StoreNext]_<<items, last>>
=============================================================================
