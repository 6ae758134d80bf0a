---------------------------- MODULE ClientReply ----------------------------
(***************************************************************************)
(* What a client of the chat endpoint is promised, whatever happens behind *)
(* it: all the bytes it gets come from one upstream attempt, they stop when *)
(* the reply has ended, and only a reply that reached it is remembered for  *)
(* its next turn (session, response cache, account affinity).               *)
(***************************************************************************)
CONSTANTS Requests, Attempts

VARIABLES
    reply,   \* reply[r]: "open", "ok", "error" or "gone"
    wire,    \* wire[r]: the attempts whose bytes are in the reply
    saved    \* saved[r]: the turn was remembered

replyVars == <<reply, wire, saved>>

ReplyInit ==
    /\ reply = [r \in Requests |-> "open"]
    /\ wire = [r \in Requests |-> {}]
    /\ saved = [r \in Requests |-> FALSE]

Bytes(r, n) ==
    /\ reply[r] = "open" /\ wire[r] \subseteq {n}
    /\ wire' = [wire EXCEPT ![r] = {n}]
    /\ UNCHANGED <<reply, saved>>

\* The last bytes, and the end.
Answer(r, n) ==
    /\ reply[r] = "open" /\ wire[r] \subseteq {n}
    /\ wire' = [wire EXCEPT ![r] = {n}]
    /\ reply' = [reply EXCEPT ![r] = "ok"]
    /\ saved' = [saved EXCEPT ![r] = TRUE]

Refuse(r, how) ==
    /\ reply[r] = "open" /\ reply' = [reply EXCEPT ![r] = how]
    /\ UNCHANGED <<wire, saved>>

ReplyNext ==
    \/ \E r \in Requests, n \in Attempts : Bytes(r, n) \/ Answer(r, n)
    \/ \E r \in Requests, how \in {"error", "gone"} : Refuse(r, how)

ReplySpec == ReplyInit /\ [][ReplyNext]_replyVars
=============================================================================
