----------------------------- MODULE OptionList -----------------------------
(***************************************************************************)
(* Class Option (bin/optionparser.h): a parsed option, and a node of the   *)
(* list of options that share an index.  The list is doubly linked through *)
(* next_ and prev_ and closed to a ring; the two pointers that close it    *)
(* carry a tag in their lowest bit.  A memory h maps addresses to objects; *)
(* a pointer is an address and its tag.                                    *)
(***************************************************************************)
EXTENDS Integers, Sequences, SequencesExt

NULL == << >>       \* no text; other pointers into text are tuples

tag(p)      == <<p, 1>>
plain(p)    == <<p, 0>>
untag(q)    == q[1]
isTagged(q) == q[2] = 1

(* An option on its own; desc is 0 or a position in the usage array.       *)
init(p, desc, name, arg) ==
    [desc |-> desc, name |-> name, arg |-> arg, prev_ |-> tag(p), next_ |-> tag(p)]

Option(p) == init(p, 0, NULL, NULL)

(* Assignment copies everything but the links.                             *)
Copied(h, p, o) == [h EXCEPT ![p] = init(p, o.desc, o.name, o.arg)]

valid(h, p) == h[p].desc # 0

isFirst(h, p) == isTagged(h[p].prev_)
isLast(h, p)  == isTagged(h[p].next_)

first(h, p) ==
    LET f[q \in DOMAIN h] == IF isFirst(h, q) THEN q ELSE f[untag(h[q].prev_)] IN f[p]

prevwrap(h, p) == untag(h[p].prev_)
nextwrap(h, p) == untag(h[p].next_)

last(h, p) == prevwrap(h, first(h, p))

prev(h, p) == IF isFirst(h, p) THEN NULL ELSE prevwrap(h, p)
next(h, p) == IF isLast(h, p) THEN NULL ELSE nextwrap(h, p)

count(h, p) ==
    LET after[q \in DOMAIN h] == IF isLast(h, q) THEN 0 ELSE 1 + after[nextwrap(h, q)]
    IN  (IF valid(h, p) THEN 1 ELSE 0) + after[first(h, p)]

MutAppend(h, p, new) ==
    [h EXCEPT ![p].next_ = plain(new), ![new].prev_ = plain(p),
              ![new].next_ = tag(p), ![p].prev_ = tag(new)]
append(h, p, new) ==
    LET l == last(h, p)
        f == first(h, p)
    IN  [h EXCEPT ![l].next_ = plain(new), ![new].prev_ = plain(l),
                  ![new].next_ = tag(f), ![f].prev_ = tag(new)]

(* What a loop over next() visits, and a loop over prev() from the last.   *)
Forward(h, p) ==
    LET walk[q \in DOMAIN h] == <<q>> \o (IF next(h, q) = NULL THEN << >> ELSE walk[next(h, q)])
    IN  walk[p]

Backward(h, p) ==
    LET walk[q \in DOMAIN h] == <<q>> \o (IF prev(h, q) = NULL THEN << >> ELSE walk[prev(h, q)])
    IN  walk[last(h, p)]

=============================================================================
