-------------------------------- MODULE MCDom --------------------------------
(***************************************************************************)
(* Instances of the Lua DOM for TLC: trees as the parser hands them over,  *)
(* with one element in place of html and body.                             *)
(***************************************************************************)
EXTENDS LuaDom

Node(type, parent, kids) == [type |-> type, own |-> NULL, parent |-> parent, kids |-> kids]

\* A document with a doctype and its element.
WithDoctype ==
    <<Node("document", NULL, <<2, 3>>), Node("doctype", NULL, <<>>), Node("element", 1, <<>>)>>

\* A document's element with two children.
WithChildren ==
    <<Node("document", NULL, <<2>>), Node("element", 1, <<3, 4>>),
      Node("element", 2, <<>>), Node("text", 2, <<>>)>>

\* Two documents, one of them made by Document().
TwoDocuments ==
    <<Node("document", NULL, <<2>>), Node("element", 1, <<>>), Node("document", NULL, <<>>)>>

\* A template element and its content, a fragment that is no child of it.
Template ==
    <<Node("document", NULL, <<2>>), Node("element", 1, <<>>),
      Node("fragment", NULL, <<4>>), Node("element", 3, <<>>)>>

Several == {WithDoctype, WithChildren, TwoDocuments, Template}

\* The tree of the run that finds a property violated.
OneDocument == {WithChildren}
===============================================================================
