---------------------------- MODULE Negotiation ----------------------------
(***************************************************************************)
(* The choice of algorithms from two KEXINITs (negotiation.rs).  Each side *)
(* makes it for itself, from the lists it has sent and those it has read.  *)
(* The fields of the two directions' ciphers and MACs that read_kex skips, *)
(* and guessed packets, which thrussh never sends, are left out.           *)
(***************************************************************************)
EXTENDS Sequences

LOCAL INSTANCE SequencesExt

CONSTANT NoName   \* no common algorithm

(* write_kex: a thrussh session offers its preferred algorithms, and the    *)
(* same compression in both directions.                                     *)
KexInit(preferred) ==
    [kex |-> preferred.kex, key |-> preferred.key, cipher |-> preferred.cipher,
     mac |-> preferred.mac,
     client_compression |-> preferred.compression,
     server_compression |-> preferred.compression]

FirstIn(list, other) ==
    LET first == SelectInSeq(list, LAMBDA name : Contains(other, name))
    IN  IF first = 0 THEN NoName ELSE list[first]

(* Select: the first name of the client's list that is in the server's. *)
ClientSelect(own, read) == FirstIn(own, read)

ServerSelect_OwnOrder(own, read) == FirstIn(own, read)   \* mutant

ServerSelect(own, read) == FirstIn(read, own)

(* read_kex; without a MAC a connection goes on. *)
ReadKex(role, own, read) ==
    [list \in DOMAIN own |->
        IF role = "client" THEN ClientSelect(own[list], read[list])
                           ELSE ServerSelect(own[list], read[list])]

Common(names) == \A list \in DOMAIN names \ {"mac"} : names[list] # NoName

(* The server then looks for a key of the chosen kind: Error::UnknownKey. *)
ServerHasKey(names, keys) == names.key \in keys

Zlib(name) == name \in {"zlib", "zlib@openssh.com"}

=============================================================================
