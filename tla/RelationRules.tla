---------------------------- MODULE RelationRules ----------------------------
(***************************************************************************)
(* What assignability means, independently of how it is computed.          *)
(*                                                                         *)
(* A key stands for one RelationKey: a pair of normalised types and a      *)
(* relation kind, together with the binder environment under which the     *)
(* pair is compared (StackRelationKey).  The structural rules of           *)
(* relate_uncached reduce a key to other keys.  Whatever the rule - union  *)
(* source and intersection target (all members), union target (some        *)
(* member), overload sets (every target signature matched by some source   *)
(* signature), object, tuple and function shapes (all slots) - the         *)
(* reduction is a conjunction of disjunctions, evaluated left to right.    *)
(***************************************************************************)
EXTENDS Naturals, Sequences

CONSTANTS
    Keys,   \* the relation keys of the instance
    Rule    \* the rule of each key: a sequence of clauses, each a sequence of arms

(* One recursive call of a rule.  "local": the caller gives the probe its  *)
(* own accumulator and merges it only when the probe wins (union targets); *)
(* otherwise the probe writes to the frame's accumulator, win or lose.     *)
(* "quiet": the caller discards the probe's reason (ADR-0016).             *)
Arm == [key : Keys, local : BOOLEAN, quiet : BOOLEAN]

ASSUME RuleAssumption == Rule \in [Keys -> Seq(Seq(Arm))]

(* Key k follows by its own rule from the keys of W.  No rule is antitone  *)
(* in its sub-relations.                                                   *)
Sat(k, W) ==
    \A c \in DOMAIN Rule[k] : \E a \in DOMAIN Rule[k][c] : Rule[k][c][a].key \in W

(* What follows coinductively when the keys of A may be assumed.           *)
Closed(W, A) == \A w \in W : Sat(w, W \cup A)
Under(A) == {k \in Keys : \E W \in SUBSET Keys : k \in W /\ Closed(W, A)}

(* The relation itself: recursive types are equi-recursive, so it is the   *)
(* greatest fixpoint of the rules.                                         *)
Holds == Under({})
=============================================================================
