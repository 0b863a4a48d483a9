----------------------------- MODULE MCTreeCarrier -----------------------------
(***************************************************************************)
(* TreeCarrier for TLC.  The charts: one of five charts on three levels,   *)
(* one of which makes no resources and one hooks only; one with several    *)
(* files and resources to a chart; two with a directory "templates" inside *)
(* of "templates", where one is rejected; and one without resources.       *)
(***************************************************************************)
EXTENDS TreeCarrier, TLC

Of(path, names) == <<"a">> \o path \o <<"templates">> \o names

B == <<"charts", "b">>
C == <<"charts", "c">>
D == B \o <<"charts", "d">>
E == B \o <<"charts", "e">>

MCCharts == {
    (Of(<<>>, <<"x">>) :> 1) @@ (Of(C, <<"x">>) :> 1) @@ (Of(D, <<"x">>) :> 1)
        @@ (Of(E, <<"x">>) :> 1),
    (Of(<<>>, <<"x">>) :> 2) @@ (Of(B, <<"x">>) :> 1) @@ (Of(B, <<"y">>) :> 1)
        @@ (Of(C, <<"x">>) :> 0),
    (Of(<<>>, <<"s", "templates", "x">>) :> 1) @@ (Of(B, <<"x">>) :> 1),
    (Of(<<>>, <<"templates", "x">>) :> 1) @@ (Of(B, <<"x">>) :> 1),
    (Of(<<>>, <<"x">>) :> 0) }
===============================================================================
