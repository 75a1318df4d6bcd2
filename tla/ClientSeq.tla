----------------------------- MODULE ClientSeq -----------------------------
(***************************************************************************)
(* What src/src/ds/llist.h promises http.c: the clients in the order they  *)
(* were accepted, looked up by descriptor (the first one counts) and given *)
(* up from the front when the server stops.  ClientList implements it.     *)
(***************************************************************************)
EXTENDS Naturals, Sequences

CONSTANTS Node,   \* the l_node_t's a client may be kept in
          Fd      \* descriptors

VARIABLES items,  \* <<node, descriptor>> of every client, oldest first
          open    \* the descriptors of clients that are open

Nodes == {items[i][1] : i \in 1..Len(items)}

(* s without its i-th element. *)
Without(s, i) == [k \in 1..Len(s)-1 |-> IF k < i THEN s[k] ELSE s[k + 1]]

First(f, i) == /\ i \in 1..Len(items)
               /\ items[i][2] = f
               /\ \A j \in 1..i-1 : items[j][2] # f

Init == items = << >> /\ open = {}

(* A client whose READ registration failed is closed but kept. *)
Insert(n, f) == /\ n \notin Nodes
                /\ f \notin open
                /\ items' = Append(items, <<n, f>>)
                /\ open' \in {open, open \cup {f}}

Remove(f) == \E i \in 1..Len(items) : /\ First(f, i)
                                      /\ items' = Without(items, i)
                                      /\ open' = open \ {f}

TakeFirst == /\ items # << >>
             /\ items' = Tail(items)
             /\ open' = open \ {items[1][2]}

Next == \/ \E n \in Node, f \in Fd : Insert(n, f)
        \/ \E f \in Fd : Remove(f)
        \/ TakeFirst

Spec == Init /\ [][Next]_<<items, open>>
=============================================================================
