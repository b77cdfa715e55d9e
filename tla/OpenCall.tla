------------------------------ MODULE OpenCall ------------------------------
(***************************************************************************)
(* What opening a channel promises, without tables, numbers or packets:    *)
(* the two ends of each channel.  The opener asks; only then may the       *)
(* acceptor set up its end; only after that may the opener be told that    *)
(* the channel is open.  A call that asked comes back, opened or not.      *)
(***************************************************************************)
CONSTANTS
    Channels,      \* every channel that may ever be asked for
    Awaited        \* those whose opener waits for the answer

VARIABLES
    opener,        \* "idle", "asked", "open" or "over"
    accepted       \* the channels whose other end is set up

vars == <<opener, accepted>>

Init ==
    /\ opener = [ch \in Channels |-> "idle"]
    /\ accepted = {}

Ask(ch) ==
    /\ opener[ch] = "idle"
    /\ opener' = [opener EXCEPT ![ch] = "asked"]
    /\ UNCHANGED accepted

(* While it accepts one channel a side may ask for another. *)
Accept(ch) ==
    /\ opener[ch] # "idle"
    /\ accepted' = accepted \cup {ch}
    /\ \/ UNCHANGED opener
       \/ \E other \in Channels :
             /\ opener[other] = "idle"
             /\ opener' = [opener EXCEPT ![other] = "asked"]

Answer(ch) ==
    /\ opener[ch] = "asked"
    /\ \E how \in {"open", "over"} :
          /\ how = "open" => ch \in accepted
          /\ opener' = [opener EXCEPT ![ch] = how]
    /\ UNCHANGED accepted

Next == \E ch \in Channels : Ask(ch) \/ Accept(ch) \/ Answer(ch)

Spec == Init /\ [][Next]_vars

FairSpec == Spec /\ \A ch \in Awaited : WF_vars(Answer(ch))

=============================================================================
