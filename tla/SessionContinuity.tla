-------------------------- MODULE SessionContinuity --------------------------
(***************************************************************************)
(* Session ids for dialogs whose client sends the whole history every time  *)
(* (src/session-continuity.js).  A dialog has no name: a state of the store *)
(* is found again by the pairs of question and answer in the history, or by *)
(* the first question where there is no pair yet, and its id is the one the *)
(* upstream sees.  resolveSessionId runs before a turn and                 *)
(* commitAfterResponse after it, and turns of other dialogs come between.   *)
(*                                                                         *)
(* A pair is what its hash identifies.  Only the first question of a dialog *)
(* can be that of another one; the answers to it may differ or not.  A      *)
(* client may branch a dialog, and may compact one: it rewrites every pair  *)
(* and keeps the first question.  Left out: a client that shortens answers  *)
(* (driftScore), histories with a tool result nobody asked for, the model   *)
(* configuration and the reasoning that ride on a state.                   *)
(***************************************************************************)
EXTENDS Listing, FiniteSets

CONSTANTS Dialogs, Openers,
          Answers,            \* Answers[d]: what the answers in dialog d may be
          Window,             \* PAIR_WINDOW_SIZE
          MaxStates,          \* DEVIN_CONNECT_SESSION_MAX_STATES
          Compacts,           \* clients compact
          MaxPairs, MaxIds,   \* bounds: pairs of a history, ids minted
          NoSession

ASSUME ContAssumption ==
    /\ Window \in Nat \ {0} /\ MaxStates \in Nat \ {0}
    /\ MaxPairs \in Nat /\ MaxIds \in Nat
    /\ NoSession \notin Nat \ {0}
    /\ Compacts \in BOOLEAN

VARIABLES
    states,     \* statesById, in the order of lastSeen
    commits,    \* commitIndex: a set of [window, id]
    minted,     \* the ids so far are 1 .. minted
    dlg,        \* dlg[d]: history, question asked, id of its session; done: the
                \*   history is one that was committed with this id
    lost        \* the state of some dialog was given up (its time, or the room), or a
                \*   dialog was branched at a pair that its state no longer indexes

contVars == <<states, commits, minted, dlg, lost>>

NoQuestion == <<>>

ContInit ==
    /\ states = <<>> /\ commits = {} /\ minted = 0
    /\ dlg = [d \in Dialogs |-> [hist |-> <<>>, ask |-> NoQuestion, id |-> NoSession,
                            done |-> FALSE]]
    /\ lost = FALSE

-----------------------------------------------------------------------------
Recent(s) == SubSeq(s, IF Len(s) > Window THEN Len(s) - Window + 1 ELSE 1, Len(s))

\* rootAnchorKey: the first question.
Root(hist, ask) == IF hist # <<>> THEN hist[1].ask ELSE ask

\* How far the end of window w, wherever it is in h, goes back in both.
Common(h, w) ==
    LET runs(a) == {n \in 1 .. Len(w) : n <= a /\ SubSeq(w, Len(w) - n + 1, Len(w))
                                                    = SubSeq(h, a - n + 1, a)}
        ends    == {a \in DOMAIN h : w # <<>> /\ h[a] = w[Len(w)]}
    IN  IF ends = {} THEN 0
        ELSE LET a == CHOOSE a \in ends : \A b \in ends : b <= a
             IN  Cardinality(runs(a))

\* States that some pair of h leads to: every pair a state had is indexed.
Seen(h)      == {s \in AllOf(states) : s.keys \cap AllOf(h) # {}}
UnderRoot(q) == {s \in AllOf(states) : s.root = q}

\* A set of the index holds its states in the order they were made.
Earliest(S) == CHOOSE s \in S : \A t \in S : s.id <= t.id

Best(h) ==
    {s \in Seen(h) : /\ Common(h, s.window) > 0
                     /\ \A t \in Seen(h) : t # s => Common(h, t.window) < Common(h, s.window)}

\* State s has the window w now, and was seen last.
Now(s, w) == Append(OnlyOf(states, AllOf(states) \ {s}),
                    [s EXCEPT !.window = w, !.keys = @ \cup AllOf(w)])

\* enforceCapacity and a new state.
Crowded(l) == IF Len(l) >= MaxStates THEN OnlyOf(l, AllOf(l) \ {l[1]}) ELSE l
Created(w, q) ==
    Append(Crowded(states), [id |-> minted + 1, window |-> w, keys |-> AllOf(w), root |-> q])

\* evictState takes every key that leads to the state.
Living(l)  == {s.id : s \in AllOf(l)}
Led(c, l)  == {x \in c : x.id \in Living(l)}
Bereft     == \E d \in Dialogs : dlg[d].id \in Living(states) \ Living(states')

Mint == minted < MaxIds /\ minted' = minted + 1

\* What goes with a state that is given up.
Follow == commits' = Led(commits, states') /\ lost' = (lost \/ Bereft)

-----------------------------------------------------------------------------
\* resolveSessionId for a turn with history h, before question q.

Resolved(h, q) ==
    LET one == UnderRoot(Root(h, q)) IN
    \/ /\ h = <<>> /\ one # {}
       /\ states' = Now(Earliest(one), Earliest(one).window)
       /\ UNCHANGED minted
    \/ /\ h = <<>> /\ one = {}
       /\ Mint /\ states' = Created(<<>>, q)
    \/ /\ h # <<>> /\ Best(h) # {}
       /\ states' = Now(Earliest(Best(h)), Recent(h))
       /\ UNCHANGED minted
    \/ /\ h # <<>> /\ Seen(h) = {} /\ Cardinality(one) = 1
       /\ states' = Now(Earliest(one), Recent(h))
       /\ UNCHANGED minted
    \/ /\ h # <<>> /\ Best(h) = {} /\ ~(Seen(h) = {} /\ Cardinality(one) = 1)
       /\ Mint /\ states' = Created(Recent(h), NoQuestion)

Resolve(d, q) ==
    /\ dlg[d].ask = NoQuestion /\ Len(dlg[d].hist) < MaxPairs
    /\ Resolved(dlg[d].hist, q)
    /\ Follow
    /\ dlg' = [dlg EXCEPT ![d].ask = q]

DropTurn(d) ==
    /\ dlg[d].ask # NoQuestion /\ dlg' = [dlg EXCEPT ![d].ask = NoQuestion]
    /\ UNCHANGED <<states, commits, minted, lost>>

\* Mistake: any state under the first question will do, claimed or not.
ClaimableAny(q) == UnderRoot(q)

\* A state that a first question made and no answer has claimed.
Claimable(q) == {s \in UnderRoot(q) : s.window = <<>>}

\* The dialog d has the history h, and its session is the one called id.
Belongs(d, h, id) == dlg' = [dlg EXCEPT ![d] = [hist |-> h, ask |-> NoQuestion, id |-> id,
                                              done |-> TRUE]]

\* State s is the one of dialog d, with window w, and no session is new.
Taken(d, h, s, w) ==
    states' = Now(s, w) /\ Belongs(d, h, s.id) /\ UNCHANGED minted

\* The state that this very window was committed with.
Own(h) == {s \in AllOf(states) : \E c \in commits : c.window = Recent(h) /\ c.id = s.id}

\* The states that the last pair of h leads to at which any does.
Matching(h) ==
    LET under(n) == {s \in AllOf(states) : h[n] \in s.keys /\ Common(h, s.window) > 0}
        last     == {n \in DOMAIN h : under(n) # {} /\ \A m \in n + 1 .. Len(h) : under(m) = {}}
    IN  UNION {under(n) : n \in last}

\* commitAfterResponse for the history h.
Committed(d, h) ==
    LET q    == Root(h, NoQuestion)
        some == Own(h) \cup Matching(h)
    IN
    /\ \/ Own(h) # {} /\ Taken(d, h, Earliest(Own(h)), Earliest(Own(h)).window)
       \/ Own(h) = {} /\ \E s \in Matching(h) : Taken(d, h, s, Recent(h))
       \/ some = {} /\ Claimable(q) # {} /\ Taken(d, h, Earliest(Claimable(q)), Recent(h))
       \/ /\ some = {} /\ Claimable(q) = {}
          /\ Mint /\ states' = Created(Recent(h), q) /\ Belongs(d, h, minted + 1)
    /\ commits' = Led({c \in commits : c.window # Recent(h)}
                        \cup {[window |-> Recent(h), id |-> dlg'[d].id]}, states')
    /\ lost' = (lost \/ Bereft)

Commit(d, o) ==
    /\ dlg[d].ask # NoQuestion
    /\ Committed(d, Append(dlg[d].hist, [ask |-> dlg[d].ask, out |-> o]))

-----------------------------------------------------------------------------
\* What clients do, and time.

Branch(d, e) ==
    /\ dlg[e].hist = <<>> /\ dlg[e].ask = NoQuestion
    /\ \E n \in 1 .. Len(dlg[d].hist) :
          LET h == SubSeq(dlg[d].hist, 1, n) IN
          /\ dlg' = [dlg EXCEPT ![e].hist = h, ![e].id = dlg[d].id]
          /\ lost' = (lost \/ dlg[d].id \notin {s.id : s \in Seen(h)})
    /\ UNCHANGED <<states, commits, minted>>

\* A dialog that has a session to itself is compacted.
Compact(d) ==
    /\ Compacts /\ dlg[d].done /\ dlg[d].ask = NoQuestion
    /\ \A e \in Dialogs \ {d} : dlg[e].id # dlg[d].id
    /\ dlg' = [dlg EXCEPT ![d].hist = <<[ask |-> @[1].ask, out |-> <<"summary", d>>]>>,
                          ![d].done = FALSE]
    /\ UNCHANGED <<states, commits, minted, lost>>

ExpireState(s) ==
    /\ states' = OnlyOf(states, AllOf(states) \ {s})
    /\ Follow
    /\ UNCHANGED <<minted, dlg>>

Questions(d) ==
    IF dlg[d].hist = <<>> THEN {<<x>> : x \in Openers} ELSE {<<d, Len(dlg[d].hist)>>}

ContNext ==
    \/ \E d \in Dialogs :
          \/ \E q \in Questions(d) : Resolve(d, q)
          \/ \E o \in Answers[d] : Commit(d, o)
          \/ DropTurn(d)
          \/ \E e \in Dialogs : Branch(d, e)
          \/ Compact(d)
    \/ \E s \in AllOf(states) : ExpireState(s)

ContSpec == ContInit /\ [][ContNext]_contVars

-----------------------------------------------------------------------------
\* Two dialogs that have parted are two sessions upstream, whoever came first
\* at each turn, as long as no dialog has lost its state
\* (session-continuity.js: the fork must not be re-associated into the original
\* session).
Parted(h, g)  == \E n \in DOMAIN h \cap DOMAIN g : h[n] # g[n]
DialogsApart ==
    ~lost => \A d, e \in Dialogs :
        /\ dlg[d].done /\ dlg[e].done
        /\ Parted(dlg[d].hist, dlg[e].hist)
        => dlg[d].id # dlg[e].id
=============================================================================
