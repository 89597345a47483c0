-------------------------------- MODULE Browse --------------------------------
(***************************************************************************)
(* Looking something up: CatalogScreen with GET /catalog, and              *)
(* FriendsSearchScreen with GET /users/search.                             *)
(*                                                                         *)
(* What is typed becomes the text of the query when the user pauses, what  *)
(* is chosen does at once.  Every combination is a key of its own in the   *)
(* cache of React Query: answers of several keys are under way together,   *)
(* arrive in any order, and stay for a while.  The server selects with     *)
(* LIKE; that a sync may delay it or have it refuse is in CatalogSync.     *)
(***************************************************************************)
EXTENDS Naturals, FiniteSets, SequencesExt

CONSTANTS
  Item,                \* experiences, or users
  Self,                \* the user who searches
  Park, Category, All, \* numbers for parks, in the order of their names
  Choice,              \* bound: what the chips may be set to
  Text,                \* bound: what may be typed, sequences of characters
  Table,               \* what the rows may be
  NameRank,            \* place of lower(name), and then of the id, of each item
  SEARCH_MAX_LENGTH,   \* 100
  SEARCH_RESULT_CAP,   \* 50
  MaxKeys              \* bound: keys that are in use at once

Char == {"a", "A", "b", "%", "_", "\\", " "}

ASSUME BrowseAssumption ==
  /\ Park \subseteq Nat
  /\ All \notin Park \cup Category
  /\ Text \subseteq Seq(Char) /\ <<>> \in Text
  /\ Table \subseteq [Item -> [park : Park, category : Category, name : Seq(Char),
                              email : Seq(Char), active : BOOLEAN]]
  /\ IsFiniteSet(Item)
  /\ NameRank \in Injection(Item, Nat)
  /\ Choice \subseteq [park : Park \cup {All}, category : Category \cup {All}]
  /\ SEARCH_MAX_LENGTH \in Nat /\ SEARCH_RESULT_CAP \in Nat /\ MaxKeys \in Nat

VARIABLES
  kind,      \* the screen: "catalog" or "people"
  table,     \* the rows of the database
  open,      \* it is mounted
  chosen,    \* the chips
  typed,     \* the text in the field
  paused,    \* the text of the last pause: debouncedSearch
  cache,     \* answers kept, a partial function of keys
  failed,    \* keys whose last query failed and that have no answer
  fetching   \* queries under way, a partial function of keys

fields == <<open, chosen, typed, paused>>
browseVars == <<kind, table, fields, cache, failed, fetching>>

------------------------------------------------------------------------------
(* Text.                                                                   *)

Lower(c) == IF c = "A" THEN "a" ELSE c

\* String.prototype.trim.
Trim(s) ==
  LET ink == {i \in DOMAIN s : s[i] # " "}
  IN  IF ink = {} THEN <<>> ELSE SubSeq(s, Min(ink), Max(ink))

\* replace(/c/g, '\\c')
Escaped(s, c) ==
  FlattenSeq([i \in DOMAIN s |-> IF s[i] = c THEN <<"\\", c>> ELSE <<s[i]>>])

\* Mutant: the backslash last.
EscapeLikeLast(s) == Escaped(Escaped(Escaped(s, "%"), "_"), "\\")

\* escapeLikePattern.
EscapeLike(s) == Escaped(Escaped(Escaped(s, "\\"), "%"), "_")

\* text ILIKE pattern ESCAPE '\': from which places of text what is left of the
\* pattern matches all that is left of the text, step by step of the pattern.
LikeStep(text, pattern, match, p) ==
  LET at(n) == {t \in 1 .. Len(text) : t + 1 \in match[n]}
      c == pattern[p]
  IN  IF p > Len(pattern) THEN {Len(text) + 1}
      ELSE CASE c = "%"  -> {t \in 1 .. Len(text) + 1 : \E u \in match[p + 1] : t <= u}
             [] c = "_"  -> at(p + 1)
             [] c = "\\" -> {t \in IF p < Len(pattern) THEN at(p + 2) ELSE {} :
                               pattern[p + 1] = text[t]}
             [] OTHER    -> {t \in at(p + 1) : Lower(c) = Lower(text[t])}

ILike(text, pattern) ==
  LET match[p \in 1 .. Len(pattern) + 1] == LikeStep(text, pattern, match, p)
  IN  1 \in match[1]

Pattern(q) == <<"%">> \o EscapeLike(q) \o <<"%">>

------------------------------------------------------------------------------
(* The server.                                                             *)

\* A key: what is asked for.  fetchCatalog leaves out what is not set, and both
\* it and the route trim the text.
Key == [park : Park \cup {All}, category : Category \cup {All}, q : Text \cup {Trim(t) : t \in Text}]

\* ORDER BY: the rows of S one after the other, by a set of pairs.
OrderBy(S, before) ==
  CHOOSE rows \in [1 .. Cardinality(S) -> S] :
    \A i, j \in DOMAIN rows : i < j => <<rows[i], rows[j]>> \in before

\* ORDER BY park, lower(name), id, and ORDER BY lower(display_name), id.
CatalogOrder(d) ==
  {p \in Item \X Item : \/ d[p[1]].park < d[p[2]].park
                        \/ /\ d[p[1]].park = d[p[2]].park
                           /\ NameRank[p[1]] < NameRank[p[2]]}
PeopleOrder == {p \in Item \X Item : NameRank[p[1]] < NameRank[p[2]]}

\* listActiveExperiences.
ListActiveExperiences(d, k) ==
  LET q == Trim(k.q)
      found == {e \in Item : /\ d[e].active
                             /\ k.park \in {All, d[e].park}
                             /\ k.category \in {All, d[e].category}
                             /\ q = <<>> \/ ILike(d[e].name, Pattern(q))}
  IN  OrderBy(found, CatalogOrder(d))

\* searchUsers: LIMIT 50.
SearchUsers(d, k) ==
  LET found == {u \in Item \ {Self} : \/ ILike(d[u].name, Pattern(k.q))
                                      \/ ILike(d[u].email, Pattern(k.q))}
      all == OrderBy(found, PeopleOrder)
  IN  SubSeq(all, 1, Min({Len(all), SEARCH_RESULT_CAP}))

------------------------------------------------------------------------------
NoChoice == [park |-> All, category |-> All]

\* rows and of: the answer, and (history) the rows it was selected from.
Answer == [rows : Seq(Item), of : Table, fresh : BOOLEAN]
Query == [stage : {"asked"}] \cup [stage : {"answered"}, rows : Seq(Item), of : Table]

BrowseTypeOK ==
  /\ kind \in {"catalog", "people"}
  /\ table \in Table
  /\ open \in BOOLEAN
  /\ chosen \in Choice \cup {NoChoice}
  /\ typed \in Text /\ paused \in Text
  /\ DOMAIN cache \subseteq Key /\ \A k \in DOMAIN cache : cache[k] \in Answer
  /\ failed \subseteq Key \ DOMAIN cache
  /\ DOMAIN fetching \subseteq Key /\ \A k \in DOMAIN fetching : fetching[k] \in Query

With(f, k, v) == [x \in DOMAIN f \cup {k} |-> IF x = k THEN v ELSE f[x]]
Without(f, k) == [x \in DOMAIN f \ {k} |-> f[x]]

BrowseInit ==
  /\ kind \in {"catalog", "people"}
  /\ table \in Table
  /\ open = FALSE
  /\ chosen = NoChoice /\ typed = <<>> /\ paused = <<>>
  /\ cache = [k \in {} |-> {}]
  /\ failed = {}
  /\ fetching = [k \in {} |-> {}]

------------------------------------------------------------------------------
(* The screen.                                                             *)

\* Mutant: the category is not part of the key.
KeyOfPark(choice, text) ==
  [park |-> choice.park, category |-> All, q |-> IF kind = "people" THEN Trim(text) ELSE text]

\* queryKey: CatalogScreen asks with the text as it is, the search trims it.
KeyOf(choice, text) ==
  [park |-> choice.park, category |-> choice.category,
   q |-> IF kind = "people" THEN Trim(text) ELSE text]

Current == KeyOf(chosen, paused)

\* enabled: lengthStatus of the search.
Enabled(k) == kind = "people" => Len(k.q) \in 1 .. SEARCH_MAX_LENGTH

\* What is there to see of the key.
Listed == open /\ Enabled(Current) /\ Current \in DOMAIN cache
Errs   == open /\ Enabled(Current) /\ Current \in failed

\* groupByPark: a row begins a section where the park is another one.
GroupByPark(d, rows) ==
  [i \in DOMAIN rows |->
     [title |-> d[rows[i]].park,
      first |-> i = 1 \/ d[rows[i - 1]].park # d[rows[i]].park, item |-> rows[i]]]

\* The screen turns to a key: it is fetched unless it is under way or has an
\* answer that is younger than staleTime.  A query that had failed starts anew.
Observe(k) ==
  IF /\ Enabled(k)
     /\ k \notin DOMAIN fetching
     /\ k \in DOMAIN cache => ~cache[k].fresh
  THEN /\ Cardinality(DOMAIN cache \cup DOMAIN fetching \cup failed \cup {k}) <= MaxKeys
       /\ fetching' = With(fetching, k, [stage |-> "asked"])
       /\ failed' = failed \ {k}
  ELSE UNCHANGED <<fetching, failed>>

Visit ==
  /\ ~open
  /\ open' = TRUE
  /\ chosen' = NoChoice /\ typed' = <<>> /\ paused' = <<>>
  /\ Observe(KeyOf(NoChoice, <<>>))
  /\ UNCHANGED <<kind, table, cache>>

\* The catalog has no controls when it could not be loaded.
Controls == open /\ ~(kind = "catalog" /\ Errs)

\* FilterChipRow.
Choose(choice) ==
  /\ Controls /\ kind = "catalog"
  /\ choice # chosen
  /\ chosen' = choice
  /\ Observe(KeyOf(choice, paused))
  /\ UNCHANGED <<kind, table, open, typed, paused, cache>>

\* A key press: the timer starts again.
Type(text) ==
  /\ Controls
  /\ typed' = text
  /\ UNCHANGED <<kind, table, open, chosen, paused, cache, failed, fetching>>

\* SEARCH_DEBOUNCE_MS without another one.
Pause ==
  /\ open /\ paused # typed
  /\ paused' = typed
  /\ Observe(KeyOf(chosen, typed))
  /\ UNCHANGED <<kind, table, open, chosen, typed, cache>>

\* The user leaves, or is logged out; the cache stays.
Leave ==
  /\ open
  /\ open' = FALSE
  /\ chosen' = NoChoice /\ typed' = <<>> /\ paused' = <<>>
  /\ UNCHANGED <<kind, table, cache, failed, fetching>>

------------------------------------------------------------------------------
(* The queries.                                                            *)

\* What the route of the screen answers.
Selection(d, k) == IF kind = "catalog" THEN ListActiveExperiences(d, k) ELSE SearchUsers(d, k)

Select(k) ==
  /\ k \in DOMAIN fetching /\ fetching[k].stage = "asked"
  /\ fetching' = With(fetching, k,
       [stage |-> "answered", of |-> table, rows |-> Selection(table, k)])
  /\ UNCHANGED <<kind, table, fields, cache, failed>>

\* Whether or not the screen still looks at this key.
Receive(k) ==
  /\ k \in DOMAIN fetching /\ fetching[k].stage = "answered"
  /\ cache' = With(cache, k, [rows |-> fetching[k].rows, of |-> fetching[k].of, fresh |-> TRUE])
  /\ failed' = failed \ {k}
  /\ fetching' = Without(fetching, k)
  /\ UNCHANGED <<kind, table, fields>>

\* retry: false.  An answer that is there stays.
FailQuery(k) ==
  /\ k \in DOMAIN fetching
  /\ fetching' = Without(fetching, k)
  /\ failed' = IF k \in DOMAIN cache THEN failed ELSE failed \cup {k}
  /\ UNCHANGED <<kind, table, fields, cache>>

\* staleTime passes; it fetches nothing.
AgeAnswer(k) ==
  /\ k \in DOMAIN cache /\ cache[k].fresh
  /\ cache' = [cache EXCEPT ![k].fresh = FALSE]
  /\ UNCHANGED <<kind, table, fields, failed, fetching>>

\* gcTime passes without a screen that looks at the key.
Collect(k) ==
  /\ k \in DOMAIN cache \cup failed /\ k \notin DOMAIN fetching
  /\ ~(open /\ Current = k)
  /\ cache' = Without(cache, k)
  /\ failed' = failed \ {k}
  /\ UNCHANGED <<kind, table, fields, fetching>>

\* A sync, or a change of a display name.
Change ==
  /\ table' \in Table
  /\ UNCHANGED <<kind, fields, cache, failed, fetching>>

BrowseNext ==
  \/ Visit \/ Leave \/ Pause
  \/ \E choice \in Choice : Choose(choice)
  \/ \E text \in Text : Type(text)
  \/ \E k \in Key : Select(k) \/ Receive(k) \/ FailQuery(k)
                    \/ AgeAnswer(k) \/ Collect(k)
  \/ Change

BrowseSpec == BrowseInit /\ [][BrowseNext]_browseVars

------------------------------------------------------------------------------
(* Properties.                                                             *)

\* text holds q, and small and capital letters are the same.
Holds(text, q) ==
  \E from \in 0 .. Len(text) - Len(q) :
    \A i \in DOMAIN q : Lower(text[from + i]) = Lower(q[i])

\* What R1.15 and R1.17 to R1.21, or R8.1, say is to be found.
Wanted(d, choice, text) ==
  IF kind = "catalog"
  THEN {e \in Item : /\ d[e].active /\ Holds(d[e].name, Trim(text))
                     /\ choice.park \in {All, d[e].park}
                     /\ choice.category \in {All, d[e].category}}
  ELSE {u \in Item \ {Self} : \/ Holds(d[u].name, Trim(text))
                              \/ Holds(d[u].email, Trim(text))}

\* Whatever answers overtake each other, what is listed under the chips and the
\* text of the last pause is what they ask for, of one state of the database:
\* every character of the text stands for itself, a park has one section, names
\* go up within it, and a long list of users is cut at its end.
ListIsOfFilters ==
  Listed =>
    LET a == cache[Current]
        shown == GroupByPark(a.of, a.rows)
        want == Wanted(a.of, chosen, paused)
        got == {shown[i].item : i \in DOMAIN shown}
        Before(x, y) == \/ kind = "catalog" /\ a.of[x].park < a.of[y].park
                        \/ /\ kind = "catalog" => a.of[x].park = a.of[y].park
                           /\ NameRank[x] < NameRank[y]
    IN  /\ got \subseteq want
        /\ Cardinality(got) = Len(shown)
        /\ IF kind = "catalog" THEN got = want
           ELSE Cardinality(got) = Min({Cardinality(want), SEARCH_RESULT_CAP})
        /\ \A i \in DOMAIN shown, y \in want :
             y \notin {shown[j].item : j \in 1 .. i} => Before(shown[i].item, y)
        /\ kind = "catalog" =>
             \A i, j \in DOMAIN shown :
               shown[i].first /\ shown[j].first /\ shown[i].title = shown[j].title => i = j
==============================================================================
