------------------------------- MODULE BrowseMC -------------------------------
(* A small catalog, or a few users, with names full of wildcards.            *)
EXTENDS Browse

CONSTANTS x, y, z, ride, show

Texts == {<<>>, <<"a", " ">>, <<"%">>, <<"\\">>, <<"b", "_">>}

Chips == {[park |-> All, category |-> All], [park |-> 2, category |-> All],
            [park |-> 2, category |-> ride]}

Place == x :> 1 @@ y :> 2 @@ z :> 3

Row(park, category, name, email, active) ==
  [park |-> park, category |-> category, name |-> name, email |-> email, active |-> active]

\* The parks go against the names; a sync moves one experience and drops another.
Tables ==
  {x :> Row(2, ride, <<"A", "%">>, <<"b">>, TRUE)
     @@ y :> Row(1, show, <<"b", "\\">>, <<"a">>, TRUE)
     @@ z :> Row(2, show, <<"b", "_">>, <<"%", "a">>, TRUE),
   x :> Row(1, ride, <<"A", "%">>, <<"b">>, TRUE)
     @@ y :> Row(2, show, <<"b", "\\">>, <<"a">>, TRUE)
     @@ z :> Row(2, ride, <<"b", "_">>, <<"%", "a">>, FALSE)}
==============================================================================
