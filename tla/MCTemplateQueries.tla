-------------------------- MODULE MCTemplateQueries --------------------------
(* Model-checking instance of TemplateQueries. *)
EXTENDS TemplateQueries
=============================================================================
