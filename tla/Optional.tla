------------------------------ MODULE Optional ------------------------------
(* What Python's None stands for in the modules that extend this one: a    *)
(* value that is missing, different from every other value.                *)
CONSTANT None
=============================================================================
