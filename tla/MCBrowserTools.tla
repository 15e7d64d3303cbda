--------------------------- MODULE MCBrowserTools ----------------------------
(* Instances of BrowserTools for TLC.                                       *)
EXTENDS BrowserTools, TLC

\* HTTP requests are interchangeable: only safety runs use this.
HttpSymmetry == Permutations(Http)
=============================================================================
