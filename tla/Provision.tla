------------------------------ MODULE Provision ------------------------------
(***************************************************************************)
(* Stage 11's provisioner: it builds the dashboards over Metabase's HTTP     *)
(* API, one call after the other, and is run again after every edit of the  *)
(* specifications and after every failure.  What is there is found by name,  *)
(* and nothing on the server keeps a name from being taken twice. One run   *)
(* at a time: nothing orders two.                                           *)
(***************************************************************************)
EXTENDS Integers, Sequences, FiniteSets

CONSTANTS
    CardSeq,     \* CARDS: their keys and names
    BoardSeq,    \* DASHBOARDS: their keys and names
    Shows,       \* the cards of each dashboard, by key
    LinksTo,     \* the dashboards each links to, by key
    MaxStarts,   \* bound: runs started
    MaxEdits     \* bound: edits of dashboards.py

Keys(specs) == {specs[i].key : i \in DOMAIN specs}

ASSUME ConstantsAssumption ==
    /\ MaxStarts \in Nat /\ MaxEdits \in Nat
    /\ Shows \in [Keys(BoardSeq) -> SUBSET Keys(CardSeq)]
    /\ LinksTo \in [Keys(BoardSeq) -> SUBSET Keys(BoardSeq)]

\* What the provisioner takes for granted, and a test of the catalogue checks of the
\* cards (test_dashboard_catalogue.py:64): keys and names tell things of a kind apart.
ASSUME NamesAssumption ==
    \A specs \in {CardSeq, BoardSeq} :
        /\ specs \in Seq([key : Keys(specs), name : {specs[i].name : i \in DOMAIN specs}])
        /\ \A i, j \in DOMAIN specs : specs[i].key = specs[j].key \/ specs[i].name = specs[j].name => i = j

VARIABLES
    spec,     \* the version of dashboards.py: an edit changes what cards and dashboards hold
    user,     \* Metabase has been set up
    objects,  \* what Metabase holds
    run,      \* the provisioner: where in its plan it is and what it knows
    starts    \* runs started

vars == <<spec, user, objects, run, starts>>

Idle == [pc |-> "idle", version |-> 0, at |-> 1, listed |-> {}, ids |-> {}]

Init ==
    /\ spec = 0
    /\ user \in BOOLEAN
    /\ objects = {}
    /\ run = Idle
    /\ starts = 0

Edit ==
    /\ spec < MaxEdits
    /\ spec' = spec + 1
    /\ UNCHANGED <<user, objects, run, starts>>

-----------------------------------------------------------------------------
Item(kind, s) == [kind |-> kind, key |-> s.key, name |-> s.name]
Items(kind, specs) == [i \in DOMAIN specs |-> Item(kind, specs[i])]
Only(kind) == <<[kind |-> kind, key |-> kind, name |-> kind]>>

\* main: the connection, the collection, the cards there are, every card, every
\* dashboard before any is filled.
Plan ==
    Only("database") \o Only("collection") \o Only("cards")
    \o Items("card", CardSeq) \o Items("dashboard", BoardSeq) \o Items("fill", BoardSeq)

Working == run.pc \notin {"idle", "done"}

Start ==
    /\ ~Working /\ starts < MaxStarts
    /\ starts' = starts + 1
    /\ run' = [pc |-> "login", version |-> spec, at |-> 1, listed |-> {}, ids |-> {}]
    /\ UNCHANGED <<spec, user, objects>>

\* authenticate: the first-time setup, or a session.
Authenticate ==
    /\ run.pc = "login"
    /\ user' = TRUE
    /\ run' = [run EXCEPT !.pc = "list"]
    /\ UNCHANGED <<spec, objects, starts>>

Current == Plan[run.at]
IdsOf(kind, key) == {i.id : i \in {j \in run.ids : j.kind = kind /\ j.key = key}}

\* Cards and dashboards are listed by collection.
KindOf(item) == IF item.kind = "cards" THEN "card" ELSE item.kind
ParentOf(kind) ==
    IF kind \in {"card", "dashboard"} THEN CHOOSE c \in IdsOf("collection", "collection") : TRUE
    ELSE 0

\* The next item; all but the cards and the contents are looked for one by one.
Advance(r) ==
    [r EXCEPT !.at = r.at + 1,
              !.pc = IF r.at = Len(Plan) THEN "done"
                     ELSE IF Plan[r.at + 1].kind \in {"card", "fill"} THEN "put" ELSE "list"]

\* A GET of what there is. "cards" is existing_cards, read once for the whole loop.
List ==
    LET kind == KindOf(Current)
        there == {o \in objects : o.kind = kind /\ o.parent = ParentOf(kind)}
        listed == [run EXCEPT !.pc = "put", !.listed = {[id |-> o.id, name |-> o.name] : o \in there}]
    IN  /\ run.pc = "list"
        /\ run' = IF Current.kind = "cards" THEN Advance(listed) ELSE listed
        /\ UNCHANGED <<spec, user, objects, starts>>

\* Mutation: nothing that exists is found.
FoundNothing == {}

Found == {o.id : o \in {p \in run.listed : p.name = Current.name}}

Knows(r, item, id) ==
    Advance([r EXCEPT !.ids = r.ids \cup {[kind |-> item.kind, key |-> item.key, id |-> id]}])

\* POST of what was not found. The reply may be lost, which ends the run.
Create ==
    LET id == Cardinality(objects) + 1
    IN  /\ run.pc = "put" /\ Current.kind # "fill" /\ Found = {}
        /\ objects' = objects \cup {[id |-> id, kind |-> Current.kind, name |-> Current.name,
                                     parent |-> ParentOf(Current.kind), version |-> run.version,
                                     cards |-> {}, links |-> {}]}
        /\ run' \in {Knows(run, Current, id), Idle}
        /\ UNCHANGED <<spec, user, starts>>

\* Mutation: what exists is left as it is.
UpdatedNever(o, id) == o

\* PUT of a database or a card that was found; collections and dashboards are taken
\* as they are.
Updated(o, id) ==
    IF o.id = id /\ o.kind \in {"database", "card"} THEN [o EXCEPT !.version = run.version] ELSE o

Update ==
    /\ run.pc = "put" /\ Current.kind # "fill"
    /\ \E id \in Found :
          /\ objects' = {Updated(o, id) : o \in objects}
          /\ run' = Knows(run, Current, id)
    /\ UNCHANGED <<spec, user, starts>>

\* fill_dashboard: one PUT of everything on it.
Fill ==
    /\ run.pc = "put" /\ Current.kind = "fill"
    /\ objects' = {IF o.id \in IdsOf("dashboard", Current.key)
                   THEN [o EXCEPT !.version = run.version,
                                  !.cards = UNION {IdsOf("card", c) : c \in Shows[Current.key]},
                                  !.links = UNION {IdsOf("dashboard", b) : b \in LinksTo[Current.key]}]
                   ELSE o : o \in objects}
    /\ run' = Advance(run)
    /\ UNCHANGED <<spec, user, starts>>

\* A call fails, or the process is stopped: nothing is caught.
Stop ==
    /\ Working
    /\ run' = Idle
    /\ UNCHANGED <<spec, user, objects, starts>>

Next == Edit \/ Start \/ Authenticate \/ List \/ Create \/ Update \/ Fill \/ Stop

Spec == Init /\ [][Next]_vars

-----------------------------------------------------------------------------
\* Runs that were stopped at any call, and whose last creation may have gone
\* through unnoticed, leave nothing that a later run takes for missing: nothing
\* exists twice.
NoSecondCopy ==
    Cardinality({<<o.kind, o.name>> : o \in objects}) = Cardinality(objects)

NameOf(specs, key) == specs[CHOOSE i \in DOMAIN specs : specs[i].key = key].name

\* What a finished run leaves: every dashboard holds its cards as they are specified
\* now, no others, and links to the dashboards it names, although earlier runs built
\* any part of it from earlier specifications.
FinishedMeansCurrent ==
    run.pc = "done" /\ run.version = spec =>
        \A b \in Keys(BoardSeq) :
            LET named(kind, specs, keys) ==
                    {o \in objects : o.kind = kind /\ o.name \in {NameOf(specs, k) : k \in keys}}
                shown == named("card", CardSeq, Shows[b])
            IN  \E o \in named("dashboard", BoardSeq, {b}) :
                    /\ o.version = spec
                    /\ Cardinality(shown) = Cardinality(Shows[b])
                    /\ o.cards = {c.id : c \in shown}
                    /\ \A c \in shown : c.version = spec
                    /\ o.links = {d.id : d \in named("dashboard", BoardSeq, LinksTo[b])}
==============================================================================
