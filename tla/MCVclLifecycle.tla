--------------------------- MODULE MCVclLifecycle ---------------------------
(* What the VCLs declare in the runs: a and b differ in a setting, p has a *)
(* persist_path, and a VCL may declare the same namespace twice.           *)
EXTENDS VclLifecycle

VolatileSettings == {"a", "b"}
PersistentSettings == {"p"}
Declarations == {<<"a">>, <<"a", "a">>, <<"b">>, <<"p", "a">>, <<"a", "p">>}
=============================================================================
