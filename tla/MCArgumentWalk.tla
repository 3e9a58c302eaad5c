---------------------------- MODULE MCArgumentWalk ----------------------------
(***************************************************************************)
(* Families of calls for ArgumentWalk: a callback with a parameter x,      *)
(* reached in every way a signature can be selected for it, whose body     *)
(* declares a local and makes another call, again with every kind of       *)
(* argument and signature.  The relation, inference and substitution are   *)
(* the smallest that tell the cases apart.                                 *)
(***************************************************************************)
EXTENDS ArgumentWalk

Num == <<"num">>
Str == <<"str">>
Unknown == <<"unknown">>

RECURSIVE MCAssignable(_, _)
MCAssignable(s, t) ==
    \/ s = t \/ s = Error \/ t = Error \/ s = Never \/ t = Unknown
    \/ IsFn(s) /\ IsFn(t) /\ MCAssignable(t[2], s[2]) /\ MCAssignable(s[3], t[3])
    \/ (IsList(s) \/ IsTuple(s)) /\ (IsList(t) \/ (IsTuple(t) /\ IsTuple(s))) /\ MCAssignable(s[2], t[2])

(* What a parameter type's T stands for, given an argument's type.         *)
RECURSIVE Solve(_, _)
Solve(p, t) ==
    CASE p = Param -> t
      [] IsFn(p) /\ IsFn(t) -> Solve(p[3], t[3])
      [] IsList(p) /\ (IsList(t) \/ IsTuple(t)) -> Solve(p[2], t[2])
      [] OTHER -> None

MCInfer(sig, tys) ==
    LET solved == {i \in DOMAIN sig.params \cap DOMAIN tys : Solve(sig.params[i], tys[i]) # None}
    IN IF solved = {} THEN None ELSE Solve(sig.params[Min(solved)], tys[Min(solved)])

RECURSIVE Subst(_, _)
Subst(t, arg) ==
    CASE t = Param -> IF arg = None THEN Unknown ELSE arg
      [] IsFn(t) -> Fn(Subst(t[2], arg), Subst(t[3], arg))
      [] IsList(t) -> List(Subst(t[2], arg))
      [] IsTuple(t) -> Tuple(Subst(t[2], arg))
      [] OTHER -> t

MCInstantiate(sig, arg) ==
    [sig EXCEPT !.params = [i \in DOMAIN sig.params |-> Subst(sig.params[i], arg)],
                !.ret = Subst(sig.ret, arg)]

-----------------------------------------------------------------------------
Lit(ty)     == [kind |-> "literal", id |-> 0, ty |-> ty]
Bad(id)     == [kind |-> "bad", id |-> id]
Use(id, s)  == [kind |-> "read", id |-> id, slot |-> s, flow |-> 0, fails |-> {Str}]
Ref(s)      == [kind |-> "read", id |-> 0, slot |-> s, flow |-> 0, fails |-> {}]
Let(s, e)   == [kind |-> "let", id |-> 0, slot |-> s, init |-> e, hoisted |-> FALSE]
Var(s, e)   == [Let(s, e) EXCEPT !.hoisted = TRUE]
Narrowed(e, n)       == [e EXCEPT !.flow = n]
Arrow(id, s, body)   == [kind |-> "arrow", id |-> id, slot |-> s, generic |-> FALSE, body |-> body]
Generic(arrow)       == [arrow EXCEPT !.generic = TRUE]
ListOf(id, e)        == [kind |-> "list", id |-> id, elem |-> e]
Either(id, e)        == [kind |-> "either", id |-> id, operand |-> e]
Call(id, sigs, args) == [kind |-> "call", id |-> id, sigs |-> sigs, args |-> args]

Sig(params, ret)     == [generic |-> FALSE, params |-> params, ret |-> ret]
Poly(params, ret)    == [generic |-> TRUE, params |-> params, ret |-> ret]

(* Ways to contextualise an arrow that returns a number: the signatures,   *)
(* what surrounds it, and the type its parameter finally has.              *)
Site(sigs, before, listed, generic, final) ==
    [sigs |-> sigs, before |-> before, listed |-> listed, generic |-> generic, final |-> final]

Sites == {
    Site(<<Sig(<<Fn(Str, Num)>>, Num)>>, <<>>, FALSE, FALSE, Str),
    Site(<<Sig(<<Fn(Str, Num)>>, Num)>>, <<>>, FALSE, TRUE, Error),
    Site(<<Sig(<<Fn(Num, Str)>>, Num), Sig(<<Fn(Str, Num)>>, Str)>>, <<>>, FALSE, FALSE, Str),
    Site(<<Sig(<<Fn(Str, Num)>>, Num), Sig(<<Fn(Num, Num)>>, Str)>>, <<>>, FALSE, FALSE, Str),
    Site(<<Sig(<<Fn(Num, Str)>>, Num), Sig(<<Fn(Str, Str)>>, Num)>>, <<>>, FALSE, FALSE, Error),
    Site(<<Sig(<<>>, Num), Sig(<<Fn(Str, Num)>>, Num)>>, <<>>, FALSE, FALSE, Str),
    Site(<<Sig(<<Fn(Num, Str)>>, Num), Sig(<<>>, Num)>>, <<>>, FALSE, FALSE, Error),
    Site(<<Poly(<<Param, Fn(Param, Num)>>, Param)>>, <<Lit(Str)>>, FALSE, FALSE, Str),
    Site(<<Poly(<<Fn(Str, Param)>>, Param)>>, <<>>, FALSE, FALSE, Str),
    Site(<<Poly(<<Param>>, Param)>>, <<>>, FALSE, FALSE, Error),
    Site(<<Sig(<<Never, Fn(Str, Num)>>, Num)>>, <<Lit(Num)>>, FALSE, FALSE, Error),
    Site(<<Sig(<<>>, Num)>>, <<>>, FALSE, FALSE, Error),
    Site(<<Sig(<<Tuple(Fn(Str, Num))>>, Num)>>, <<>>, TRUE, FALSE, Str),
    Site(<<Sig(<<List(Num)>>, Num), Sig(<<Tuple(Fn(Str, Num))>>, Num)>>, <<>>, TRUE, FALSE, Str),
    Site(<<Sig(<<List(Fn(Str, Num))>>, Num)>>, <<>>, TRUE, FALSE, Error),
    Site(<<Poly(<<List(Param)>>, Param)>>, <<>>, TRUE, FALSE, Error) }

CallAt(site, id, slot, body) ==
    LET arrow == [Arrow(id + 1, slot, body) EXCEPT !.generic = site.generic]
    IN Call(id, site.sigs, site.before \o <<IF site.listed THEN ListOf(id + 2, arrow) ELSE arrow>>)

(* A call whose selected overload, and so its type, depends on the local y. *)
Choice(id) ==
    Call(id, <<Sig(<<List(Num)>>, Num), Sig(<<List(Str)>>, Str)>>, <<ListOf(id + 1, Ref("y"))>>)

(* (cond && y), a var and a generic arrow in a tuple: none of them alone   *)
(* makes a walk report twice or not at all.                                *)
Others(id) ==
    Call(id, <<Sig(<<Unknown, Tuple(Fn(Str, Num))>>, Num)>>,
         <<Either(id + 1, Ref("y")), ListOf(id + 2, Generic(Arrow(id + 3, "v", <<Lit(Num)>>)))>>)

Owed(site, id) == IF site.final = Str THEN {id} ELSE {}

(* x => { const y = x; inner(z => { bad; y.m(); z.m(); return 1 });        *)
(*        const r = choice([y]); r.m(); if (...) y.m(); return 1 }         *)
Nested(outer, inner) ==
    [call |-> CallAt(outer, 10, "x", <<
                Let("y", Ref("x")),
                CallAt(inner, 20, "z", <<Bad(30), Use(31, "y"), Use(32, "z"), Lit(Num)>>),
                Let("r", Choice(40)),
                Use(33, "r"),
                Narrowed(Use(34, "y"), 1),
                Lit(Num) >>),
     leaves |-> {30, 31, 32, 33, 34},
     owed |-> {30} \cup (UNION {Owed(outer, id) : id \in {31, 33, 34}}) \cup Owed(inner, 32)]

(* The call is itself an argument, beside another one.                     *)
Chained(outer) ==
    [call |-> Call(50, <<Sig(<<Num, List(Num)>>, Num)>>,
                   << CallAt(outer, 10, "x", <<Bad(30), Use(31, "x"), Let("y", Ref("x")),
                                               Var("r", Lit(Num)), Others(40), Lit(Num)>>),
                      ListOf(51, Bad(32)) >>),
     leaves |-> {30, 31, 32},
     owed |-> {30, 32} \cup Owed(outer, 31)]

MCPrograms == {Nested(o, i) : o, i \in Sites} \cup {Chained(o) : o \in Sites}

(* f(cond && [bad], [<T>(v) => bad], x => { var r = x; r.m(); if (...) x.m(); ... }) *)
MisreportedPrograms == {
    [call |-> Call(10, <<Sig(<<List(Num), Tuple(Fn(Num, Num)), Fn(Str, Num)>>, Num)>>,
                   << Either(11, ListOf(12, Bad(30))),
                      ListOf(13, Generic(Arrow(14, "v", <<Bad(31)>>))),
                      Arrow(15, "x", << Var("r", Ref("x")), Use(32, "r"),
                                        Narrowed(Use(33, "x"), 1), Lit(Num) >>) >>),
     leaves |-> {30, 31, 32, 33},
     owed |-> {30, 31, 32, 33}] }

(* x => { const y = x; if (...) { y; const r = id([y]); r.m() } ... }      *)
NarrowedPrograms == {
    [call |-> CallAt(site, 10, "x", <<
                Let("y", Ref("x")),
                Narrowed(Ref("y"), 1),
                Let("r", Call(20, <<Poly(<<Param>>, Param)>>,
                              <<ListOf(21, Narrowed(Ref("y"), 1))>>)),
                [Use(30, "r") EXCEPT !.fails = {List(Str)}],
                Lit(Num) >>),
     leaves |-> {30},
     owed |-> Owed(site, 30)] : site \in Sites }
=============================================================================
