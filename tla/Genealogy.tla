------------------------------ MODULE Genealogy ------------------------------
(***************************************************************************)
(* The genealogy of units and the walks over it: the table genealogy_link  *)
(* of migrations/0002, the two functions of migrations/0003 and the recall *)
(* query of crates/trace-store/src/query.rs.  Pure.                        *)
(*                                                                         *)
(* A link [tenant, parent, child, lot] says what went into the parent: a   *)
(* child unit, or a quantity of a lot.  Each walk is a recursive query cut *)
(* off at DepthCap levels; a level is computed from the one before it, and *)
(* its rows are a set, so the duplicates of UNION ALL are one.             *)
(***************************************************************************)
EXTENDS Integers

CONSTANTS
  None,       \* a null column
  DepthCap    \* 32 in every walk

ASSUME DepthCapAssumption == DepthCap \in Nat \ {0}

\* The constraints of genealogy_link: one kind, and no unit into itself.
Allowed(link) ==
  /\ (link.child = None) # (link.lot = None)
  /\ link.child # link.parent

\* The units that took in one of these units.
ParentsOf(links, units) == {l.parent : l \in {k \in links : k.child \in units}}

-----------------------------------------------------------------------------
\* genealogy_descendants: the links below the root, with their depths.
Descendants(links, root) ==
  LET walk[d \in 1..DepthCap] ==
        {l \in links : \/ d = 1 /\ l.parent = root
                       \/ d > 1 /\ l.parent \in {k.child : k \in walk[d - 1]}}
  IN  UNION {{[depth |-> d, child |-> l.child, lot |-> l.lot] : l \in walk[d]} :
               d \in 1..DepthCap}

\* genealogy_ancestors: the units above the leaf, with their depths.
Ancestors(links, leaf) ==
  LET walk[d \in 1..DepthCap] ==
        ParentsOf(links, IF d = 1 THEN {leaf} ELSE walk[d - 1])
  IN  UNION {{[depth |-> d, parent |-> p] : p \in walk[d]} : d \in 1..DepthCap}

-----------------------------------------------------------------------------
\* Mutant: the recall stops at the units the lot went into.
UnitsAffectedByLot_Direct(links, lot) == {l.parent : l \in {k \in links : k.lot = lot}}

\* units_affected_by_lot: the units a lot went into, at depth 0, and up to
\* DepthCap levels of units those went into.
UnitsAffectedByLot(links, lot) ==
  LET rolled_up[d \in 0..DepthCap] ==
        IF d = 0 THEN {l.parent : l \in {k \in links : k.lot = lot}}
                 ELSE ParentsOf(links, rolled_up[d - 1])
  IN  UNION {rolled_up[d] : d \in 0..DepthCap}
=============================================================================
