------------------------------- MODULE GoValues -----------------------------
(* Values that the modules share.                                           *)
CONSTANTS
  None,  \* nil, the empty name, or no such object in the API server
  Bad    \* a text that does not parse or decompress
=============================================================================
