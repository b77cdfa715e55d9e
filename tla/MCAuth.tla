------------------------------- MODULE MCAuth -------------------------------
(***************************************************************************)
(* Small instances of Auth for what comments in the source say of it.  The *)
(* interleavings of two users are checked with Compression.                *)
(***************************************************************************)
EXTENDS Auth

CONSTANTS alice, alices_key

OneUser == {alice}

OneKey == {alices_key}

AllMethods == {{"password", "publickey", "keyboard-interactive"}}

=============================================================================
