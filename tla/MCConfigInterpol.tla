-------------------------- MODULE MCConfigInterpol --------------------------
(***************************************************************************)
(* An instance of ConfigInterpol for TLC.                                  *)
(***************************************************************************)
EXTENDS ConfigInterpol, TLC

Plain(t) == [text |-> t, ref |-> None]
To(t, o) == [text |-> t, ref |-> o]

\* Options in front of the first header and in a section; the latter may refer to
\* another one, which is in [DEFAULT], in the environment or nowhere, or to itself.
File(f, s, v, d) == [section |-> (FAKE :> f @@ s :> ("a" :> v)), DEFAULT |-> d]

MCBases ==
  {File(f, "s", v, d) :
     f \in {"a" :> Plain("base"), << >>}, v \in {Plain("base"), To("base", "b"), To("base", "a")},
     d \in {<< >>, "b" :> Plain("default"), "b" :> To("default", "c")}}

\* An overlay has a section in common with the base, or one of its own.
MCOverlays ==
  {File(<< >>, s, v, d) :
     s \in {"s", "t"}, v \in {Plain("overlay"), To("overlay", "b")},
     d \in {<< >>, "a" :> Plain("default"), "b" :> To("overlay", "c")}}

MCEnvirons == {<< >>, "c" :> Plain("env"), "b" :> To("env", "a")}
=============================================================================
