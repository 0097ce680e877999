------------------------------ MODULE DomWalk ------------------------------
(***************************************************************************)
(* The walks over a DOM tree: Node:walk and Node:reverseWalk are           *)
(* coroutines that yield to the body of a `for` loop and go on, when the   *)
(* loop asks for the next node, in lists that the body may have changed.   *)
(* Before the call, attributes may have been set and removed.  The loops   *)
(* that use walk only read (getElementById,                                *)
(* getElementsByTagName, links, textContent); sanitize uses reverseWalk    *)
(* and takes nodes and attributes away as they come.                       *)
(***************************************************************************)
EXTENDS LuaDom, ElementAttributes

CONSTANT AttributeLists \* the attributes that the elements may have from the parser
CONSTANTS MaxAttributes, MaxEdited \* bounds, see SetAttribute and EditAttributes

VARIABLES control,    \* what comes next: "call", "walker", "body", "attributes" or "iter"; or how the loop ended
          direction,  \* the method that was called
          frames,     \* the calls of iter in progress, the outermost first
          visited,    \* the nodes yielded so far
          attributes, \* the attributes of each node
          index,      \* where the loop over the attributes of the node is
          allowed,    \* the elements whose names are allowed
          root,       \* the node whose method was called
          given       \* what nodes and attributes were at the call, and the attributes as parsed

\* An attribute is a table, and a table is not nil.
ASSUME AttributesAssumption == \A list \in AttributeLists : list \in Seq(Attributes)

walkVars == <<nodes, outcome, control, direction, frames, visited, attributes, index, allowed, root, given>>

Running == control \in {"walker", "body", "attributes", "iter"}

\* A call of iter: the node, the length its list had at the call, and the children done.
Frame(t, n) == [node |-> n, length |-> Len(t[n].kids), done |-> 0]

Current == Last(frames)

\* As IndexAt, but the way back is counted from 1 too.
IndexAt_Upwards(frame) == frame.done + 1

\* The index of the loop in iter: up from 1, or down from the length.
IndexAt(frame) == IF direction = "walk" THEN frame.done + 1 ELSE frame.length - frame.done

\* As Advanced, but the loop stays where it was.
Advanced_Not(fs) == fs

\* The loop in iter goes on behind the child whose own iter has returned.
Advanced(fs) == IF fs = <<>> THEN fs ELSE [fs EXCEPT ![Len(fs)].done = @ + 1]

ElementNodes(t) == {n \in DOMAIN t : t[n].type = "element"}

WalkInit ==
    /\ Init
    /\ control = "call" /\ direction = "walk" /\ root = NULL
    /\ frames = <<>> /\ visited = <<>> /\ allowed = {} /\ index = 0
    /\ \E list \in AttributeLists :
          attributes = [n \in Nodes |-> IF n \in ElementNodes(nodes) THEN set_attributes(list)
                                        ELSE NoAttributes]
    /\ given = [nodes |-> nodes, attributes |-> attributes, parsed |-> attributes]

\* No longer list, and no new identity, than MaxAttributes: a bound.
SetAttribute(n, name, isAllowed) ==
    LET newId == Len(attributes[n].list) + 1
    IN  /\ control = "call" /\ newId <= MaxAttributes /\ WithId(attributes[n].list, newId) = <<>>
        /\ attributes' = [attributes EXCEPT ![n] = setAttribute(@, name, isAllowed, newId)]
        /\ UNCHANGED <<nodes, outcome, control, direction, frames, visited, index, allowed, root, given>>

RemoveAttribute(n, name) ==
    /\ control = "call"
    /\ attributes' = [attributes EXCEPT ![n] = removeAttribute(@, name)]
    /\ UNCHANGED <<nodes, outcome, control, direction, frames, visited, index, allowed, root, given>>

\* for node in self:walk() do ...: nobody looks at names and attributes.
walk(self) ==
    /\ control = "call" /\ control' = "walker" /\ direction' = "walk"
    /\ root' = self /\ frames' = <<Frame(nodes, self)>>
    /\ given' = [given EXCEPT !.attributes = attributes]
    /\ UNCHANGED <<nodes, outcome, visited, attributes, index, allowed>>

\* sanitize(self), on elements whose names are whatever they are.
sanitize(self) ==
    /\ control = "call" /\ control' = "walker" /\ direction' = "reverseWalk"
    /\ root' = self /\ frames' = <<Frame(nodes, self)>>
    /\ allowed' \in SUBSET ElementNodes(nodes)
    /\ given' = [given EXCEPT !.attributes = attributes]
    /\ UNCHANGED <<nodes, outcome, visited, attributes, index>>

(***************************************************************************)
(* The child at the index is yielded.  A list that has become too short    *)
(* has nil there, which ends the `for` loop of the caller.  No walk is     *)
(* longer than the tree: the bound MaxDomNodes is never met.               *)
(***************************************************************************)
YieldChild ==
    /\ control = "walker" /\ Current.done < Current.length
    /\ Len(visited) < MaxDomNodes
    /\ LET list == nodes[Current.node].kids
           at   == IndexAt(Current)
       IN  IF at \in DOMAIN list
           THEN visited' = Append(visited, list[at]) /\ control' = "body"
           ELSE visited' = visited /\ control' = "cut short"
    /\ UNCHANGED <<nodes, outcome, direction, frames, attributes, index, allowed, root, given>>

\* The loop asks for the next node: iter(child), which reads the list of the child now.
IterChild ==
    /\ control = "iter"
    /\ frames' = Append(frames, Frame(nodes, Last(visited))) /\ control' = "walker"
    /\ UNCHANGED <<nodes, outcome, direction, visited, attributes, index, allowed, root, given>>

\* iter returns, to the loop of the iter that called it.
IterReturns ==
    /\ control = "walker" /\ Current.done = Current.length
    /\ frames' = Advanced(Front(frames))
    /\ control' = IF Len(frames) = 1 THEN "finished" ELSE "walker"
    /\ UNCHANGED <<nodes, outcome, direction, visited, attributes, index, allowed, root, given>>

\* A reader looks at the node, and goes on or returns what it was looking for.
ReaderBody ==
    /\ control = "body" /\ direction = "walk"
    /\ control' \in {"iter", "returned"}
    /\ UNCHANGED <<nodes, outcome, direction, frames, visited, attributes, index, allowed, root, given>>

-----------------------------------------------------------------------------
(***************************************************************************)
(* The body of the loop in sanitize.                                       *)
(***************************************************************************)

RemoveYielded ==
    LET removed == remove(nodes, Last(visited))
    IN  /\ control = "body" /\ direction = "reverseWalk"
        /\ Last(visited) \in ElementNodes(nodes) \ allowed
        /\ nodes' = removed.nodes /\ outcome' = removed.outcome
        /\ control' = IF removed.outcome = "returns" THEN "iter" ELSE "raised"
        /\ UNCHANGED <<direction, frames, visited, attributes, index, allowed, root, given>>

\* The loop over the attributes goes down from the last.
FirstIndex(list) == Len(list)

CleanYielded ==
    /\ control = "body" /\ direction = "reverseWalk"
    /\ Last(visited) \notin ElementNodes(nodes) \ allowed
    /\ IF Last(visited) \in allowed
       THEN control' = "attributes" /\ index' = FirstIndex(attributes[Last(visited)].list)
       ELSE control' = "iter" /\ UNCHANGED index
    /\ UNCHANGED <<nodes, outcome, direction, frames, visited, attributes, allowed, root, given>>

\* One round of the loop over the attributes; an index behind the end of the list raises an error.
CheckAttribute ==
    LET list == attributes[Last(visited)].list
    IN  /\ control = "attributes" /\ index > 0
        /\ IF index \notin DOMAIN list THEN control' = "raised" /\ UNCHANGED <<attributes, index>>
           ELSE /\ attributes' = IF list[index].isAllowed THEN attributes
                                 ELSE [attributes EXCEPT ![Last(visited)] = removeAttribute(@, list[index].name)]
                /\ index' = index - 1 /\ UNCHANGED control
        /\ UNCHANGED <<nodes, outcome, direction, frames, visited, allowed, root, given>>

AttributesDone ==
    /\ control = "attributes" /\ index = 0
    /\ control' = "iter"
    /\ UNCHANGED <<nodes, outcome, direction, frames, visited, attributes, index, allowed, root, given>>

Start(self) == implementsParentNode(nodes[self]) /\ (walk(self) \/ sanitize(self))

Loop ==
    \/ YieldChild \/ IterChild \/ IterReturns
    \/ ReaderBody
    \/ RemoveYielded \/ CleanYielded \/ CheckAttribute \/ AttributesDone

\* Calls of setAttribute and removeAttribute, on trees of at most MaxEdited nodes: a bound.
EditAttributes ==
    /\ Len(nodes) <= MaxEdited
    /\ \E n \in ElementNodes(nodes), name \in Names :
          RemoveAttribute(n, name) \/ \E isAllowed \in BOOLEAN : SetAttribute(n, name, isAllowed)

WalkNext == Loop \/ EditAttributes \/ \E self \in Nodes : Start(self)

\* Once called, Lua goes on with the loop and the coroutine until the loop is done.
WalkSpec == WalkInit /\ [][WalkNext]_walkVars /\ WF_walkVars(Loop)

-----------------------------------------------------------------------------
(***************************************************************************)
(* docs/api.md: document order.  m comes before n if n lies below m, or if *)
(* they lie below two children of a node that come in this order; a        *)
(* reverse walk takes the children from the last to the first.             *)
(***************************************************************************)
Under(t, n) == Below(t, n) \ {n}

Precedes(t, m, n) ==
    \/ n \in Under(t, m)
    \/ \E p \in DOMAIN t : \E i, j \in DOMAIN t[p].kids :
          /\ m \in Below(t, t[p].kids[i]) /\ n \in Below(t, t[p].kids[j])
          /\ IF direction = "walk" THEN i < j ELSE j < i

(***************************************************************************)
(* The loop sees the nodes that were below the root at the call, each      *)
(* after the one before and so once, and no others, although the coroutine *)
(* keeps lengths and indices of lists from which nodes are taken between   *)
(* two yields; and when the walk is finished it has seen them all.         *)
(***************************************************************************)
VisitsInOrder ==
    /\ control # "cut short"
    /\ control = "body" =>
          /\ Last(visited) \in Under(given.nodes, root)
          /\ Len(visited) > 1 => Precedes(given.nodes, visited[Len(visited) - 1], Last(visited))
    /\ control = "finished" => ToSet(visited) = Under(given.nodes, root)

Stays(n) == given.nodes[n].type = "element" /\ n \in Under(given.nodes, root) => n \in allowed

\* The nodes of the list that stay, in the order they have there.
Remaining(kids, list) ==
    /\ ToSet(kids) = {m \in ToSet(list) : Stays(m)}
    /\ \A i, j \in DOMAIN kids : i < j => PositionIn(list, kids[i]) < PositionIn(list, kids[j])

OnlyAllowedNodesStay ==
    \A n \in Nodes :
        /\ Remaining(nodes[n].kids, given.nodes[n].kids)
        /\ nodes[n].parent = IF Stays(n) THEN given.nodes[n].parent ELSE NULL

OnlyAllowedAttributesStay ==
    \A n \in allowed \cap Under(given.nodes, root) :
        LET list == given.attributes[n].list
        IN  /\ \A a \in ToSet(attributes[n].list) : a.isAllowed
            /\ \A i \in DOMAIN list :
                  list[i].isAllowed /\ (\A j \in DOMAIN list : list[j].name = list[i].name => j = i)
                     => list[i] \in ToSet(attributes[n].list)

(***************************************************************************)
(* When the sanitizer has finished, the tree is the one that was given     *)
(* without the elements that are not allowed: each list has lost these and *)
(* kept its order, also in the subtrees that were taken out; and no node   *)
(* outside has changed.  No allowed element below the root has an          *)
(* attribute that is not allowed, although attributes are removed by name  *)
(* and from a list whose length was read before; and it has all those that *)
(* are allowed and share their name with no other.                         *)
(***************************************************************************)
OnlyAllowedStay ==
    control = "finished" /\ direction = "reverseWalk" =>
        OnlyAllowedNodesStay /\ OnlyAllowedAttributesStay

(***************************************************************************)
(* Whatever is set and removed, by the caller or under the sanitizer's     *)
(* loop, an element of any namespace answers getAttribute alike.  It finds *)
(* each attribute under its name, unless the element is an HTML element    *)
(* and the name has a capital: setAttribute keeps it and getAttribute does *)
(* not.  What it finds is in the list, under the name that it looks for.   *)
(* And the call raises an error if there is no attribute of that name and  *)
(* the name is "length", and for no other.  (All this unless the parser    *)
(* found one name twice, as it can in foreign elements.)                   *)
(***************************************************************************)
AttributesFound ==
    \A n \in ElementNodes(nodes), ns \in {"html", "svg"} : NamesDiffer(given.parsed[n]) =>
        LET list      == ToSet(attributes[n].list)
            got(name) == getAttribute(attributes[n], ns, name)
        IN  /\ \A a \in list :
                  (ns = "html" => lower[a.name] = a.name)
                     => got(a.name) = [outcome |-> "returns", id |-> a.id]
            /\ \A name \in Names :
                  /\ got(name).id # 0 => \E a \in list : a.id = got(name).id /\ a.name = Key(ns, name)
                  /\ got(name).outcome = "raises"
                        <=> Key(ns, name) = "length" /\ \A a \in list : a.name # "length"

\* Every loop over a walk ends: the walk finishes, a reader returns early, or an error is raised.
WalkEnds == Running ~> ~Running
=============================================================================
