--------------------------- MODULE MCCompression ---------------------------
(***************************************************************************)
(* A small instance of Compression, and so of Auth.  Two users are enough  *)
(* to tell the user of a request from the user of the session, two keys to *)
(* tell the key of a signature from the key of a PK_OK.                    *)
(***************************************************************************)
EXTENDS Compression

CONSTANTS alice, bob, alices_key, bobs_key

TwoUsers == {alice, bob}

TwoKeys == {alices_key, bobs_key}

(* With password alone the set of methods can become empty. *)
OfferedMethods == {{"password"}, {"password", "publickey", "keyboard-interactive"}}

(* Preferred::DEFAULT, Preferred::COMPRESSED, and the lists of applications *)
(* with other tastes.                                                       *)
Default ==
    [kex |-> <<"curve25519">>, key |-> <<"ed25519", "rsa256", "rsa512">>,
     cipher |-> <<"chacha20">>, mac |-> <<"none">>,
     compression |-> <<"none", "zlib", "zlib@openssh.com">>]

Compressed ==
    [Default EXCEPT !.compression = <<"zlib", "zlib@openssh.com", "none">>]

OtherOrder ==
    [Default EXCEPT !.key = <<"rsa512", "ed25519">>, !.mac = <<>>,
                    !.compression = <<"zlib@openssh.com", "none">>]

AnyPreferences == {Default, Compressed, OtherOrder}

(* Another client may compress in one direction only, or offer what thrussh *)
(* does not know.                                                           *)
Foreign == [KexInit(Default) EXCEPT !.kex = <<"group14", "curve25519">>]

AnyKexInits ==
    {[Foreign EXCEPT !.client_compression = <<"zlib">>,
                     !.server_compression = <<"none">>],
     [Foreign EXCEPT !.server_compression = <<"zlib@openssh.com", "zlib">>],
     [Foreign EXCEPT !.client_compression = <<"other">>]}

=============================================================================
