-------------------------- MODULE MCHttpsExchange --------------------------
(* Instances of HttpsExchange for TLC.                                      *)
EXTENDS HttpsExchange, TLC

CONSTANTS window, loader  \* model values

MCThreads == {window, loader}
\* The window makes every kind of request, the other thread loads in the background and
\* sends reports.
Everything == (window :> {"post", "image"}) @@ (loader :> {"post", "load"})

=============================================================================
