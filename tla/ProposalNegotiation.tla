------------------------ MODULE ProposalNegotiation ------------------------
(***************************************************************************)
(* What the proposal threads promise: each approval of a proposal for a    *)
(* recipient opens one conversation of two teams through a referee.  The   *)
(* recipient speaks first and the teams take turns; a turn is on offer     *)
(* until the referee releases it, and only one is on offer at a time;      *)
(* after a closing turn, or once the proposal has been taken back, nothing *)
(* is said any more.  Nothing said is ever changed.                        *)
(***************************************************************************)
EXTENDS Naturals, Sequences

CONSTANTS Threads       \* the conversations there may be

VARIABLES
    standing,           \* of each thread: not opened, live, or taken back
    said,               \* the turns released in it
    offered             \* the turns waiting for the referee: none or one

negotiationVars == <<standing, said, offered>>

Turns == [speaker : {"recipient", "source"}, closes : BOOLEAN]

Init ==
    /\ standing = [t \in Threads |-> "none"]
    /\ said = [t \in Threads |-> <<>>]
    /\ offered = [t \in Threads |-> <<>>]

Closed(t) == said[t] # <<>> /\ said[t][Len(said[t])].closes

Speaker(t) == IF Len(said[t]) % 2 = 0 THEN "recipient" ELSE "source"

Open(t) ==
    /\ standing[t] = "none"
    /\ standing' = [standing EXCEPT ![t] = "live"]
    /\ UNCHANGED <<said, offered>>

Offer(t, turn) ==
    /\ standing[t] = "live"
    /\ ~Closed(t)
    /\ offered[t] = <<>>
    /\ turn.speaker = Speaker(t)
    /\ offered' = [offered EXCEPT ![t] = <<turn>>]
    /\ UNCHANGED <<standing, said>>

Release(t) ==
    /\ standing[t] = "live"
    /\ offered[t] # <<>>
    /\ said' = [said EXCEPT ![t] = Append(@, offered[t][1])]
    /\ offered' = [offered EXCEPT ![t] = <<>>]
    /\ UNCHANGED standing

\* The proposal goes back to its team, and every live thread with it.
TakeBack ==
    /\ standing' = [t \in Threads |->
                       IF standing[t] = "live" THEN "over" ELSE standing[t]]
    /\ UNCHANGED <<said, offered>>

Next ==
    \/ \E t \in Threads : Open(t) \/ Release(t)
    \/ \E t \in Threads, turn \in Turns : Offer(t, turn)
    \/ TakeBack

Spec == Init /\ [][Next]_negotiationVars
=============================================================================
