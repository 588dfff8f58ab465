--------------------------- MODULE MCStreamViewer ---------------------------
(* A small instance of StreamViewer: one effect of a page, which may be left *)
(* at any time, beside two commands at a time.                               *)
EXTENDS StreamViewer, TLC
=============================================================================
