--------------------------- MODULE MCCascadeTurn ---------------------------
(***************************************************************************)
(* Turns of the Cascade path over a small pool of cascades, in two kinds of *)
(* behaviours to keep the product of the turns' and the surroundings'       *)
(* states small: all turns at once while accounts and processes stay as     *)
(* they are, and one turn while everything changes.  In a third kind no     *)
(* turn of those takes place, and one is followed poll by poll              *)
(* (CascadePoll).                                                          *)
(***************************************************************************)
EXTENDS CascadeTurn, CascadePoll, TLC

VARIABLE busy      \* the turns that take place

MCInit ==
    /\ Init /\ busy \in {Requests, {}} \cup {{r} : r \in Requests}
    /\ PollInit /\ (busy # {} => steps = <<>>)

Pooled ==
    /\ busy # {} /\ UNCHANGED pollVars
    /\ \/ \E r \in busy : TurnStep(r)
       \/ \E f \in Fps : Expire(f)
       \/ busy # Requests /\ ((\E r \in busy : SkipAccount(r)) \/ Change)

OneTurn == busy = {} /\ PollNext /\ UNCHANGED vars

MCNext == UNCHANGED busy /\ (Pooled \/ OneTurn)

MCSpec == MCInit /\ [][MCNext]_<<vars, busy, pollVars>>

SameTenant == [f \in Fps |-> 1]
Symmetry   == Permutations(Ids) \cup Permutations(Keys)
=============================================================================
