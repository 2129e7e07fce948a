--------------------------- MODULE MCActionJournal ---------------------------
(* The action journal on a small instance.  The runs of this module give     *)
(* every constant its value in the cfg.                                      *)
EXTENDS ActionJournal
=============================================================================
