----------------------------- MODULE Portfolio -----------------------------
(***************************************************************************)
(* The portfolio of an organization: the foundation (the property and its  *)
(* first unit, which the onboarding requires), the buildings of the        *)
(* property, and its units, created one by one or imported from a file.    *)
(* The code creates one property in an organization and removes nothing.   *)
(***************************************************************************)
EXTENDS Organizations

CONSTANTS
  Codes, Fold,   \* unit codes, and the lower case of each
  Names          \* names of buildings

ASSUME PortfolioAssumption == Fold \in [Codes -> Codes] /\ NoValue \notin Names

VARIABLES
  property,  \* properties: the organizations that have theirs
  building,  \* buildings of each organization's property
  unit       \* units of each organization's property: [code, building]

portfolioVars == <<property, building, unit>>

Managers == {"OWNER", "PROPERTY_MANAGER"}
Row == [code : Codes, building : Names \cup {NoValue}]
CodesOf(rows) == {row.code : row \in rows}

(* A file of 1 to 500 rows; no two codes are equal in lower case. *)
WellFormed(rows) ==
  /\ Cardinality(rows) \in 1..500
  /\ \A r, s \in rows : r # s => Fold[r.code] # Fold[s.code]

(* What an import reports before it writes. *)
Acceptable(o, rows) ==
  /\ CodesOf(rows) \cap CodesOf(unit[o]) = {}
  /\ \A row \in rows : row.building \in building[o] \cup {NoValue}

-----------------------------------------------------------------------------
BeginFoundation(h, q) ==
  /\ q.op = "foundation" /\ Passes(q, Managers) /\ Recorded(q) = {}
  /\ org[q.org].status = "ONBOARDING" /\ At(q.org, "PORTFOLIO_REQUIRED")
  /\ Serve(h, q, NoValue)

(* The rows are inserted first, and kept only if the progress was still there. *)
CommitFoundation(h) ==
  LET q == call[h].req
      rows == {[code |-> q.code, building |-> NoValue]}
  IN /\ Serving(h, "foundation") /\ Recorded(q) = {}
     /\ At(q.org, "PORTFOLIO_REQUIRED")
     /\ property' = property \cup {q.org}
     /\ unit' = [unit EXCEPT ![q.org] = @ \cup rows]
     /\ Enter(q.org, "READY_FOR_REVIEW")
     /\ Record(q, rows)
     /\ Done(h)
     /\ UNCHANGED building

(* The other commands are for active organizations. *)
Established(q) ==
  /\ Passes(q, Managers) /\ Recorded(q) = {}
  /\ org[q.org].status = "ACTIVE" /\ q.org \in property

BeginBuilding(h, q) ==
  /\ q.op = "building" /\ Established(q)
  /\ Serve(h, q, NoValue)

CommitBuilding(h) ==
  LET q == call[h].req IN
  /\ Serving(h, "building") /\ Recorded(q) = {}
  /\ q.name \notin building[q.org]
  /\ building' = [building EXCEPT ![q.org] = @ \cup {q.name}]
  /\ Record(q, {})
  /\ Done(h)
  /\ UNCHANGED <<org, property, unit>>

BeginUnit(h, q) ==
  /\ q.op = "unit" /\ Established(q)
  /\ \A row \in q.rows : row.building \in building[q.org] \cup {NoValue}
  /\ Serve(h, q, NoValue)

(* A dry run, and a file with errors, is answered with the report alone. *)
BeginImport(h, q) ==
  /\ q.op = "import" /\ WellFormed(q.rows) /\ q.mode = "COMMIT"
  /\ Established(q) /\ Acceptable(q.org, q.rows)
  /\ Serve(h, q, NoValue)

FaultyCommitUnits(h) ==
  LET q == call[h].req
      new == {row \in q.rows : row.code \notin CodesOf(unit[q.org])}
  IN /\ Serving(h, "unit") \/ Serving(h, "import")
     /\ Recorded(q) = {}
     /\ unit' = [unit EXCEPT ![q.org] = @ \cup new]
     /\ Record(q, q.rows)
     /\ Done(h)
     /\ UNCHANGED <<org, property, building>>

(* The codes of a property are a unique index: one row refused refuses all. *)
CommitUnits(h) ==
  LET q == call[h].req IN
  /\ Serving(h, "unit") \/ Serving(h, "import")
  /\ Recorded(q) = {}
  /\ CodesOf(q.rows) \cap CodesOf(unit[q.org]) = {}
  /\ unit' = [unit EXCEPT ![q.org] = @ \cup q.rows]
  /\ Record(q, q.rows)
  /\ Done(h)
  /\ UNCHANGED <<org, property, building>>

-----------------------------------------------------------------------------
PortfolioInit == /\ property = {}
                 /\ building = [o \in Orgs |-> {}] /\ unit = [o \in Orgs |-> {}]

BeginPortfolio(h, q) ==
  BeginFoundation(h, q) \/ BeginBuilding(h, q) \/ BeginUnit(h, q) \/ BeginImport(h, q)
CommitPortfolio(h) == CommitFoundation(h) \/ CommitBuilding(h) \/ CommitUnits(h)

-----------------------------------------------------------------------------
(* Every variable has the values the schema and the handlers give it. *)
PortfolioTypeOK ==
  /\ property \subseteq Orgs
  /\ building \in [Orgs -> SUBSET Names]
  /\ \A o \in Orgs : unit[o] \subseteq Row

(* The units of a property are exactly those of the requests on record: each came   *)
(* of one request, an import is in whole or not at all, no code is used twice, and  *)
(* a unit stands in a building of the property, however the requests are raced.     *)
UnitsFollowRecords ==
  \A o \in Orgs :
    LET made == {e \in record : e.req.op \in {"foundation", "unit", "import"} /\ e.req.org = o}
    IN /\ unit[o] = UNION {e.made : e \in made}
       /\ \A d, e \in made : d # e => CodesOf(d.made) \cap CodesOf(e.made) = {}
       /\ Cardinality(CodesOf(unit[o])) = Cardinality(unit[o])
       /\ \A row \in unit[o] : row.building \in building[o] \cup {NoValue}
       /\ o \in property <=> \E e \in made : e.req.op = "foundation"

=============================================================================
