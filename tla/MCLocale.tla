-------------------------------- MODULE MCLocale --------------------------------
(***************************************************************************)
(* A small instance of Locale: two tabs of one browser and one of another. *)
(***************************************************************************)
EXTENDS Locale, TLC

CONSTANTS t1, t2, t3, b1, b2, fr, xx

MCBrowser == (t1 :> b1) @@ (t2 :> b1) @@ (t3 :> b2)

\* The first asks for nothing that is supported, the other for French.
MCLanguages == (b1 :> <<xx>>) @@ (b2 :> <<xx, fr, En>>)
===============================================================================
