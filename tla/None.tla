-------------------------------- MODULE None --------------------------------
(* The value of what has no value: Python's None.                          *)
CONSTANT NULL
=============================================================================
