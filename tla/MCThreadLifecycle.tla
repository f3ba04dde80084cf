------------------------- MODULE MCThreadLifecycle -------------------------
(* Attribute sets for model checking ThreadLifecycle.                      *)
EXTENDS ThreadLifecycle

JoinableOnly == {{}}
JoinableOrDetached == {{}, {"Detached"}}

=============================================================================
