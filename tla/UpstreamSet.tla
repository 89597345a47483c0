---------------------------- MODULE UpstreamSet ----------------------------
(***************************************************************************)
(* services/catalog/sync.ts and classify.ts: what a sync makes of the two  *)
(* answers of upstream, the destinations and the children of the one that  *)
(* is Walt Disney World.  A child becomes an experience when it is of one  *)
(* of three types and its chain of parents leads to a park; upstream's     *)
(* chains may have gaps and cycles, and its lists may repeat an id.        *)
(*                                                                         *)
(* A name stands for what the patterns find in it: [park, kind].           *)
(***************************************************************************)
EXTENDS Naturals, Sequences, SequencesExt

CONSTANTS
  NoPark,                \* no park is named
  NoId,                  \* parentId is undefined
  MAX_PARENT_CHAIN_HOPS, \* 32
  Answers                \* bound: what upstream may answer

\* An id is a string, and findWdwDestination throws when there is no destination.
ASSUME UpstreamAssumption ==
  /\ MAX_PARENT_CHAIN_HOPS \in Nat
  /\ \A upstream \in Answers :
       LET destinations == upstream.destinations
           children == upstream.children
       IN  /\ children \in Seq(ToSet(children))
           /\ \A n \in DOMAIN children : children[n].id # NoId
           /\ destinations \in Seq(ToSet(destinations))
           /\ \E n \in DOMAIN destinations : destinations[n].wdw
           /\ \A n \in DOMAIN destinations : NoId \notin DOMAIN destinations[n].parks

INCLUDE_SET == {"ATTRACTION", "SHOW", "RESTAURANT"}

\* classify: the type, then attractionType, then the name.
Classify(child) ==
  CASE child.entityType = "SHOW" -> "Show"
    [] child.entityType = "RESTAURANT" -> "Restaurant"
    [] child.entityType = "ATTRACTION" ->
         (CASE child.attractionType = "PARADE" -> "Parade"
            [] child.attractionType = "MEET_AND_GREET" -> "Character_Meet"
            [] OTHER -> child.name.kind)
    [] OTHER -> "Other"

\* The first destination whose name or slug says so.
FindWdwDestination(destinations) ==
  destinations[Min({n \in DOMAIN destinations : destinations[n].wdw})]

\* The parks of the destination by id: those with the name of one we know.
BuildParkMap(destination) ==
  [id \in {i \in DOMAIN destination.parks : destination.parks[i].park # NoPark} |->
     destination.parks[id].park]

\* Of the children with one id the last stays.
BuildEntityMap(children) ==
  [id \in {child.id : child \in ToSet(children)} |->
     children[Max({n \in DOMAIN children : children[n].id = id})]]

\* Mutant: an ancestor of any type may give the park.
HopByName(s, entityMap, parkMap) ==
  LET id == s.cursor.parentId
      parent == entityMap[id]
      Return(park) == [s EXCEPT !.returned = TRUE, !.park = park]
  IN  IF s.returned THEN s
      ELSE IF id = NoId \/ id \in s.visited THEN Return(NoPark)
      ELSE IF id \in DOMAIN parkMap THEN Return(parkMap[id])
      ELSE IF id \notin DOMAIN entityMap THEN Return(NoPark)
      ELSE IF parent.name.park # NoPark THEN Return(parent.name.park)
      ELSE [s EXCEPT !.cursor = parent, !.visited = @ \cup {id}]

\* One turn of the loop of resolvePark.
Hop(s, entityMap, parkMap) ==
  LET id == s.cursor.parentId
      parent == entityMap[id]
      Return(park) == [s EXCEPT !.returned = TRUE, !.park = park]
  IN  IF s.returned THEN s
      ELSE IF id = NoId \/ id \in s.visited THEN Return(NoPark)
      ELSE IF id \in DOMAIN parkMap THEN Return(parkMap[id])
      ELSE IF id \notin DOMAIN entityMap THEN Return(NoPark)
      ELSE IF parent.entityType \in {"PARK", "DESTINATION"} /\ parent.name.park # NoPark
           THEN Return(parent.name.park)
      ELSE [s EXCEPT !.cursor = parent, !.visited = @ \cup {id}]

Start(child) == [cursor |-> child, visited |-> {}, returned |-> FALSE, park |-> NoPark]

\* All of them.
Climb(child, entityMap, parkMap) ==
  LET after[hops \in 0 .. MAX_PARENT_CHAIN_HOPS] ==
        IF hops = 0 THEN Start(child) ELSE Hop(after[hops - 1], entityMap, parkMap)
  IN  after[MAX_PARENT_CHAIN_HOPS].park

ResolvePark(child, entityMap, parkMap) ==
  IF child.id \in DOMAIN parkMap THEN parkMap[child.id]
  ELSE Climb(child, entityMap, parkMap)

ToUpstreamExperience(child, of) ==
  [name |-> child.name, park |-> of, category |-> Classify(child)]

\* One child, by id: a repeated one replaces the one before it.
Push(out, child, entityMap, parkMap) ==
  LET of == ResolvePark(child, entityMap, parkMap)
  IN  IF child.entityType \notin INCLUDE_SET \/ of = NoPark THEN out
      ELSE [id \in DOMAIN out \cup {child.id} |->
              IF id = child.id THEN ToUpstreamExperience(child, of) ELSE out[id]]

BuildUpstreamSet(children, entityMap, parkMap) ==
  LET out[n \in 0 .. Len(children)] ==
        IF n = 0 THEN <<>> ELSE Push(out[n - 1], children[n], entityMap, parkMap)
  IN  out[Len(children)]

\* The walk of runSyncWithLock over the two answers.
Walk(upstream) ==
  LET children == upstream.children
      parkMap == BuildParkMap(FindWdwDestination(upstream.destinations))
  IN  BuildUpstreamSet(children, BuildEntityMap(children), parkMap)

------------------------------------------------------------------------------
(* The same, said without the walk.                                        *)

\* The park that the entity with an id gives: the destination's list comes
\* first, then its own name.
Gives(id, entityMap, parkMap) ==
  IF id \in DOMAIN parkMap THEN {parkMap[id]}
  ELSE {entityMap[e].name.park : e \in
          {e \in DOMAIN entityMap : e = id /\ entityMap[e].entityType \in {"PARK", "DESTINATION"}}}
         \ {NoPark}

\* The lists of k ancestors from the parent of a child on.
Ancestry(child, k, entityMap, parkMap) ==
  {p \in [1..k -> DOMAIN entityMap \cup DOMAIN parkMap] :
     /\ p[1] = child.parentId
     /\ \A i \in 1..k - 1 : p[i] \in DOMAIN entityMap /\ entityMap[p[i]].parentId = p[i + 1]}

\* The park of the nearest ancestor that gives one: at most one member.
NearestPark(child, entityMap, parkMap) ==
  IF child.id \in DOMAIN parkMap THEN {parkMap[child.id]}
  ELSE UNION {Gives(p[Len(p)], entityMap, parkMap) : p \in
         {p \in UNION {Ancestry(child, k, entityMap, parkMap) : k \in 1..MAX_PARENT_CHAIN_HOPS} :
            \A i \in 1..Len(p) - 1 : Gives(p[i], entityMap, parkMap) = {}}}

\* The positions of the children that are experiences, and the last of an id.
Accepted(children, entityMap, parkMap) ==
  {n \in DOMAIN children : /\ children[n].entityType \in INCLUDE_SET
                           /\ NearestPark(children[n], entityMap, parkMap) # {}}

LastOf(id, children, entityMap, parkMap) ==
  {n \in Accepted(children, entityMap, parkMap) :
     /\ children[n].id = id
     /\ \A m \in Accepted(children, entityMap, parkMap) : children[m].id = id => m <= n}

\* An experience is filed under its nearest park, with the data of its last child.
Filed(id, experience, upstream) ==
  LET children == upstream.children
      entityMap == BuildEntityMap(children)
      parkMap == BuildParkMap(FindWdwDestination(upstream.destinations))
  IN  \E n \in LastOf(id, children, entityMap, parkMap) :
        /\ {experience.park} = NearestPark(children[n], entityMap, parkMap)
        /\ experience.name = children[n].name
        /\ experience.category = Classify(children[n])

\* In a walk an experience is there exactly when a child of an included type has
\* a park among its ancestors, no further than the limit of hops, and it is filed
\* so, whatever cycles, gaps and repetitions upstream's lists have (sync.ts,
\* resolvePark and buildUpstreamSet).
WalksAreRight ==
  \A upstream \in Answers :
    LET children == upstream.children
        entityMap == BuildEntityMap(children)
        parkMap == BuildParkMap(FindWdwDestination(upstream.destinations))
        out == Walk(upstream)
    IN  /\ DOMAIN out = {children[n].id : n \in Accepted(children, entityMap, parkMap)}
        /\ \A id \in DOMAIN out : Filed(id, out[id], upstream)
==============================================================================
