---------------------------- MODULE MCCilResolve ----------------------------
(***************************************************************************)
(* Sources for CilResolve: all orders of the statements of each group.     *)
(* In a statement the parent of a node is its place in the statement, 0 if *)
(* it is the statement itself.                                             *)
(***************************************************************************)
EXTENDS CilResolve

D(f, n, up) == Node(f, n, <<>>, <<>>, up)
M(n, x, up) == Node("macro", n, <<>>, <<x>>, up)
S(f, refs, up) == Node(f, NoName, refs, <<>>, up)

Base == <<D("attribute", "a", 0), D("type", "z", 0)>>

\* statements, by what they are for
DeclT == <<D("type", "t", 0)>>
NeedsT == <<D("optional", "o", 0), D("type", "u", 1), S("use", <<"t">>, 1)>>
NeedsU == <<D("optional", "p", 0), S("set", <<"a", "u">>, 1), S("set", <<"a", "z">>, 1)>>
Nested == <<D("optional", "q", 0), D("type", "v", 1), D("optional", "r", 1), S("order", <<"u">>, 3),
            S("set", <<"a", "v">>, 1)>>
SetA == <<S("set", <<"a", "z">>, 0)>>
BlockB == <<D("block", "b", 0), D("type", "t", 1), D("optional", "g", 1), S("use", <<"u">>, 3),
            D("type", "y", 3), S("set", <<"a", "t">>, 1)>>
BlockC == <<D("block", "c", 0), S("blockinherit", <<"b">>, 1), D("optional", "e", 1), S("use", <<"y">>, 3)>>
BlockD == <<D("block", "d", 0), S("blockabstract", <<"d">>, 1), S("blockinherit", <<"c">>, 1),
            D("block", "f", 1), S("use", <<"nothing">>, 4)>>
BlockH == <<D("block", "h", 0), D("optional", "g", 1), D("type", "t", 2), S("use", <<"u">>, 2), S("use", <<"t">>, 1)>>
BlockL == <<D("block", "l", 0), S("blockinherit", <<"h">>, 1), S("call", <<"m", "t">>, 1)>>
BlockE == <<D("block", "e", 0), D("block", "f", 1), D("type", "y", 2), M("m", "x", 1), S("use", <<"z">>, 4)>>
BlockI == <<D("block", "i", 0), D("block", "f", 1), S("use", <<"y">>, 2), S("blockinherit", <<"e">>, 1),
            M("m", "x", 1), S("use", <<"x">>, 5), S("call", <<"m", "z">>, 1),
            D("block", "j", 1), S("blockinherit", <<"f">>, 8)>>
OptBadInherit == <<D("block", "l", 0), D("optional", "o", 1), S("blockinherit", <<"b">>, 2),
                   S("blockinherit", <<"nothing">>, 2)>>
MacroM == <<M("m", "x", 0), S("use", <<"x">>, 1), D("optional", "h", 1), S("set", <<"a", "x">>, 3), S("use", <<"u">>, 3)>>
MacroN == <<M("n", "x", 0), D("type", "t", 1), S("use", <<"x">>, 1), S("use", <<"t">>, 1)>>
MacroK == <<M("k", "x", 0), S("call", <<"m", "x">>, 1)>>
CallM == <<S("call", <<"m", "z">>, 0)>>
CallK == <<S("call", <<"k", "z">>, 0)>>
CallN == <<D("block", "s", 0), S("call", <<"n", "t">>, 1)>>
OptCallM == <<D("optional", "i", 0), S("call", <<"m", "u">>, 1), D("type", "w", 1)>>
OptCallN == <<D("optional", "i", 0), S("call", <<"n", "t">>, 1), D("type", "w", 1)>>
OptCallNone == <<D("optional", "i", 0), S("call", <<"nothing", "z">>, 1), D("type", "w", 1)>>
DeclTToo == <<D("optional", "g", 0), D("type", "t", 1), S("use", <<"u">>, 1)>>
NeedsW == <<D("optional", "j", 0), S("use", <<"w">>, 1)>>
Alias == <<D("optional", "c", 0), D("alias", "k", 1), S("aliasactual", <<"k", "t">>, 1), S("use", <<"k">>, 1)>>
NeedsAlias == <<D("optional", "e", 0), S("use", <<"k">>, 1), D("alias", "kk", 1), S("aliasactual", <<"kk", "k">>, 1)>>

Groups == {
    <<DeclT, NeedsT, NeedsU, Nested>>,
    <<NeedsT, NeedsU, Nested, SetA>>,
    <<DeclT, Alias, NeedsAlias, NeedsT>>,
    <<Alias, NeedsAlias, NeedsT>>,
    <<DeclT, DeclTToo, Alias>>,
    <<DeclTToo, NeedsT, OptCallM, MacroM>>,
    <<BlockB, BlockC, BlockD>>,
    <<BlockB, BlockC, NeedsT>>,
    <<BlockB, OptBadInherit, BlockC>>,
    <<DeclT, BlockH, BlockL, MacroM>>,
    <<BlockE, BlockI>>,
    <<MacroM, OptCallM, NeedsW, NeedsT>>,
    <<MacroM, MacroK, CallK, NeedsU>>,
    <<MacroM, OptCallNone, NeedsW, CallM>>,
    <<DeclT, MacroN, CallN>>,
    <<MacroN, OptCallN, NeedsT>>
    }

\* Sources that are refused.
Refused == {
    <<BlockB, <<D("block", "l", 0), S("blockinherit", <<"nothing">>, 1)>>>>,
    <<MacroM, <<D("block", "l", 0), S("blockinherit", <<"m">>, 1)>>>>,
    <<BlockB, BlockC, BlockD, <<D("block", "h", 0), S("blockinherit", <<"d">>, 1)>>>>,
    <<BlockB, <<D("block", "c", 0), D("attribute", "t", 1), S("blockinherit", <<"b">>, 1)>>>>,
    <<BlockB, <<D("block", "c", 0), S("blockinherit", <<"e">>, 1)>>, <<D("block", "e", 0), S("blockinherit", <<"c">>, 1)>>>>,
    <<MacroM, <<D("block", "l", 0), S("blockabstract", <<"m">>, 1)>>>>,
    <<<<D("block", "l", 0), S("blockabstract", <<"nothing">>, 1)>>>>,
    <<<<D("optional", "o", 0), D("block", "l", 1)>>>>,
    <<<<S("call", <<"m", "z">>, 0)>>>>,
    <<MacroM, <<S("call", <<"m">>, 0)>>>>,
    <<MacroM, <<S("call", <<"m", "nothing">>, 0)>>>>,
    <<<<M("m", "x", 0), S("call", <<"k", "x">>, 1)>>, MacroK, CallK>>,
    <<DeclT, <<D("alias", "k", 0)>>>>,
    <<DeclT, <<D("alias", "k", 0), S("aliasactual", <<"k", "t">>, 0), S("aliasactual", <<"k", "z">>, 0)>>>>,
    <<<<D("alias", "k", 0), D("alias", "l", 0), S("aliasactual", <<"k", "l">>, 0), S("aliasactual", <<"l", "k">>, 0)>>>>,
    <<DeclT, <<S("aliasactual", <<"t", "z">>, 0)>>>>,
    <<<<D("alias", "k", 0), S("aliasactual", <<"k", "nothing">>, 0)>>>>,
    <<<<S("use", <<"nothing">>, 0)>>>>,
    <<<<S("set", <<"a", "nothing">>, 0)>>>>,
    <<<<S("set", <<"z", "z">>, 0)>>>>
    }

\* the statements one after the other
Source(statements) ==
    FoldLeft(LAMBDA s, st : s \o [i \in DOMAIN st |-> IF st[i].parent = 0 THEN st[i]
                                                      ELSE [st[i] EXCEPT !.parent = @ + Len(s)]],
             Base, statements)

Orders(g) == {[i \in DOMAIN g |-> g[p[i]]] : p \in {q \in [DOMAIN g -> DOMAIN g] : IsInjective(q)}}

\* A call in a called macro hands on an argument that an optional declares.
\* NeedsT, which declares it, fails only in the last pass.
Handed == <<MacroM, MacroK, NeedsT, <<D("optional", "i", 0), S("call", <<"k", "u">>, 1)>>>>
MCSources == {Source(g) : g \in UNION {Orders(h) : h \in Groups} \cup Refused} \cup {Source(Handed)}
=============================================================================
