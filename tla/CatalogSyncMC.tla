--------------------------- MODULE CatalogSyncMC ---------------------------
(* Instances of CatalogContent for TLC.  Content is what UpstreamSet makes *)
(* of two versions of upstream's data.                                      *)
EXTENDS CatalogContent, TLC

CONSTANTS x1, x2, land, area, park, kingdom, resort

Of(kind) == [park |-> NoPark, kind |-> kind]
Named(p) == [park |-> p, kind |-> "Ride"]

Child(id, type, parent, name) ==
  [id |-> id, entityType |-> type, parentId |-> parent, name |-> name,
   attractionType |-> "none"]

\* The destination, one park in it, and the children in their order.
Upstream(parks, children) ==
  [destinations |-> <<[wdw |-> FALSE, parks |-> <<>>], [wdw |-> TRUE, parks |-> parks]>>,
   children |-> children]

Versioned(children) == Upstream(park :> Named(kingdom), children)

\* One experience changes its type and changes back, and the other loses its
\* way to the park and finds it again; the second list has an id twice.
First == Versioned(<<Child(x1, "ATTRACTION", land, Of("Ride")),
                     Child(land, "LAND", park, Of("Ride")),
                     Child(x2, "SHOW", park, Of("Ride"))>>)
Second == Versioned(<<Child(x1, "ATTRACTION", park, Of("Ride")),
                      Child(x1, "RESTAURANT", park, Of("Ride")),
                      Child(x2, "SHOW", land, Of("Ride"))>>)

\* What the walk makes of them, as ContentAssumption checks.
Detailed(category) == [name |-> Of("Ride"), park |-> kingdom, category |-> category]
Details == {Detailed("Ride"), Detailed("Show"), Detailed("Restaurant")}
Versions == {x1 :> Detailed("Ride") @@ x2 :> Detailed("Show"),
             x1 :> Detailed("Restaurant") @@ x2 :> Absent}

Symmetric == Permutations(Caller)

------------------------------------------------------------------------------
\* Small data of upstream: an attraction that may itself be listed as a park,
\* three entities above it in any relation, cycles included, and the attraction
\* perhaps once more, elsewhere.
Parents == {NoId, x1, land, area, park}
Small ==
  {Upstream(parks, children) :
     parks \in UNION {[ids -> {Named(kingdom), Of("Ride")}] : ids \in SUBSET {x1, park}},
     children \in
       {<<Child(x1, "ATTRACTION", a, Of("Ride")), Child(land, "LAND", b, Of("Ride")),
          Child(area, t, c, n), Child(park, "PARK", d, Of("Ride")),
          Child(x1, u, e, Of("Parade"))>> :
            a \in Parents, b \in Parents, c \in Parents, d \in {NoId, land},
            e \in {NoId, area}, t \in {"LAND", "DESTINATION"},
            u \in {"ATTRACTION", "LAND"}, n \in {Of("Ride"), Named(resort)}}}

Answered == Small \cup {First, Second}
==============================================================================
