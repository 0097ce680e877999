----------------------------- MODULE Adoption -----------------------------
(***************************************************************************)
(* adoption_agency_algorithm of lib/parser.c: what closing a misnested     *)
(* formatting element does to the tree, the stack of open elements and     *)
(* the list of active formatting elements.                                 *)
(*                                                                         *)
(* The two loops are folds over their iterations; a record carries the     *)
(* C function's local variables from one iteration to the next, and        *)
(* `done` says that the loop was left by break or return.  Positions in    *)
(* the two vectors count from 1, except bookmark, an insertion index that  *)
(* counts from 0 as in the code.                                           *)
(***************************************************************************)
EXTENDS ParserState

Detach(p, n) ==
    Require(p, \/ p.nodes[n].parent = NULL
               \/ p.nodes[p.nodes[n].parent].type = "element",
            "remove_from_parent", [p EXCEPT !.nodes = Settled(remove_from_parent(@, n))])

(***************************************************************************)
(* One turn of the inner loop (step 13).  s.node walks up the stack from   *)
(* the furthest block to the formatting element; s.last is the subtree     *)
(* being carried along.                                                    *)
(***************************************************************************)
\* Step 13.5: after three rounds a formatting element only leaves the list.
ForgetFormatting(s, i) ==
    [s EXCEPT !.p.afe = RemoveAt(@, i), !.bookmark = IF i - 1 < @ THEN @ - 1 ELSE @]

\* Steps 13.7 to 13.10: a clone takes the node's place and adopts s.last.
ReplaceByClone(s, at, i, block) ==
    LET p == s.p
        c == NextId(p)
        q == [Create(p, clone_node(p, s.node)) EXCEPT !.afe[i] = c, !.open[at] = c]
    IN  [s EXCEPT !.p = AppendTo(Detach(q, s.last), c, s.last),
                  !.node = c, !.last = c,
                  !.bookmark = IF s.last = block THEN i ELSE @]

ClimbStack(s, formatting, block) ==
    LET at   == (IF is_open_element(s.p, s.node) THEN PositionIn(s.p.open, s.node)
                 ELSE s.saved) - 1
        node == s.p.open[at]
        i    == PositionIn(s.p.afe, node)
        r    == [s EXCEPT !.node = node, !.saved = at, !.round = @ + 1]
    IN  IF s.done THEN s
        ELSE IF at <= 1 \/ s.p.nodes[node].parent = NULL
        THEN [s EXCEPT !.p = Require(@, FALSE, "adoption agency step 13.3", @), !.done = TRUE]
        ELSE CASE node = formatting                 -> [r EXCEPT !.done = TRUE]
               [] node # formatting /\ i = 0        -> [r EXCEPT !.p.open = RemoveAt(@, at)]
               [] node # formatting /\ i # 0 /\ r.round > 3  -> ForgetFormatting(r, i)
               [] node # formatting /\ i # 0 /\ r.round <= 3 -> ReplaceByClone(r, at, i, block)

\* As ReplaceInList, but the clone takes the formatting element's own place.
ReplaceInList_InPlace(afe, at, bookmark, c) == ReplaceAt(afe, at, c)

\* Step 18: the clone goes to the bookmark, which moves when the entry at `at` leaves.
ReplaceInList(afe, at, bookmark, c) ==
    InsertAt(RemoveAt(afe, at), (IF at - 1 < bookmark THEN bookmark - 1 ELSE bookmark) + 1, c)

\* As ReplaceOnStack, but the clone goes below the furthest block.
ReplaceOnStack_Below(open, formatting, block, c) ==
    LET rest == RemoveFirst(open, formatting) IN InsertAt(rest, PositionIn(rest, block), c)

\* Step 19: the clone goes on the stack directly above the furthest block.
ReplaceOnStack(open, formatting, block, c) ==
    LET rest == RemoveFirst(open, formatting) IN InsertAt(rest, PositionIn(rest, block) + 1, c)

\* Steps 11 to 19, for the formatting element at these two positions.
AdoptBlock(p, inList, inStack, blockAt) ==
    LET formatting == p.open[inStack]
        block    == p.open[blockAt]
        ancestor == p.open[inStack - 1]
        Climb(s, k) == ClimbStack(s, formatting, block)
        s == FoldLeft(Climb, [p |-> p, node |-> block, last |-> block, saved |-> blockAt,
                              bookmark |-> inList, round |-> 0, done |-> FALSE],
                      p.open)
        q == Detach(s.p, s.last)
        r == InsertAtLocation(q, s.last, get_appropriate_insertion_location(q, ancestor))
        c == NextId(r)
        u == Create(r, clone_node(r, formatting))
        v == AppendTo([u EXCEPT !.nodes = Settled(move_children(@, block, c))], block, c)
        at    == PositionIn(v.afe, formatting)
    IN  Require(v, at # 0, "adoption agency step 18",
                [v EXCEPT !.afe = ReplaceInList(@, at, s.bookmark, c),
                          !.open = ReplaceOnStack(@, formatting, block, c)])

(***************************************************************************)
(* One turn of the outer loop (steps 5 to 19): [p, done], done when the    *)
(* function returns.                                                       *)
(***************************************************************************)
AdoptOnce(p, subject) ==
    LET Return(q) == [p |-> q, done |-> TRUE]
        found     == FormattingOf(p, subject)
        inList    == Max(found)
        formatting == p.afe[inList]
        inStack   == PositionIn(p.open, formatting)
        IsSpecial(n) == Name(p, n) \in Special
        blockAt   == SelectInSubSeq(p.open, inStack, Len(p.open), IsSpecial)
        forgotten == [p EXCEPT !.afe = RemoveFirst(@, formatting)]
    IN  IF found = {} THEN Return(p)
        ELSE IF inStack = 0 THEN Return(forgotten)
        ELSE IF ~InDefaultScope(p, {subject}) THEN Return(p)
        ELSE IF blockAt = 0 THEN Return(PopTo(forgotten, inStack - 1))
        ELSE [p |-> AdoptBlock(p, inList, inStack, blockAt), done |-> FALSE]

adoption_agency_algorithm(p, subject) ==
    LET current == get_current_node(p)
        Turn(s, i) == IF s.done \/ s.p.failed # "" THEN s ELSE AdoptOnce(s.p, subject)
    IN  IF IsHtml(p, current, subject) /\ PositionIn(p.afe, current) = 0
        THEN pop_current_node(p)
        ELSE FoldLeft(Turn, [p |-> p, done |-> FALSE], [i \in 1..8 |-> i]).p
=============================================================================
