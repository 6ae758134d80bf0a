------------------------------ MODULE MCTables ------------------------------
(***************************************************************************)
(* Small instances of the tables, the update of the program and a           *)
(* translated stream, which share no state with each other: a behaviour is  *)
(* one of exactly one of them, the others stand still, and the states are   *)
(* the sum and not the product.                                            *)
(***************************************************************************)
EXTENDS AccountPool, QuotaCooldown, SelfUpdate, ResponseStore, Lockout, AnthropicStream,
        StickySession, SessionContinuity, TLC

VARIABLES
    part,                                             \* who moves
    cache                                             \* ConversationPool

NoRequest == {}

\* Three tenants with two conversations each, and room for three.
Cascades == {"A", "B", "C"} \X {1, 2}
Cache == INSTANCE ConversationPool WITH
    Fps <- Cascades, TenantOf <- [f \in Cascades |-> f[1]], PoolMax <- 3,
    NoEntry <- NoRow, NoGen <- NoRow, pool <- cache

\* Two callers of one tenant and one of another, and room for two bindings.
TenantOfCaller == [c \in Callers |-> IF c = "y1" THEN "Y" ELSE "X"]

\* Two dialogs with one opening, and two answers to every question.
AnyAnswer == [d \in Dialogs |-> {"o1", "o2"}]

-----------------------------------------------------------------------------
\* Affinity comes in two kinds of behaviours: one caller whose accounts change,
\* with two requests at once; many callers that take turns.
Parts == {"ledger", "quota", "cache", "one caller", "many callers", "sessions",
          "lockout", "responses", "update", "stream"}

MCInit ==
    /\ part \in Parts
    /\ Init /\ (part # "ledger" => pool = {} /\ key = [a \in Rows |-> CHOOSE k \in Keys : TRUE])
    /\ QuotaInit
    /\ Cache!CacheInit
    /\ StickyInit /\ (part # "one caller" => ~noFallback)
    /\ ContInit
    /\ LockInit
    /\ StoreInit
    /\ UpdateInit /\ TranslatorInit

OneCaller ==
    /\ part = "one caller" /\ StickyNext
    /\ \A r \in DOMAIN ask' : ask'[r].caller \in {NoRow, "x1"}

ManyCallers ==
    /\ part = "many callers"
    /\ Turns("r1") \/ \E c \in Callers : ExpireBinding(c)

Moves ==
    \/ part = "ledger" /\ Next
    \/ part = "quota" /\ QuotaNext
    \/ part = "cache" /\ Cache!CacheNext
    \/ OneCaller \/ ManyCallers
    \/ part = "sessions" /\ ContNext
    \/ part = "lockout" /\ LockNext
    \/ part = "responses" /\ StoreNext
    \/ part = "update" /\ UpdateNext
    \/ part = "stream" /\ TranslatorNext

\* The variables v belong to P, and stand still while another part moves.
Still(P, v) == IF part \in P THEN TRUE ELSE UNCHANGED v

MCNext ==
    /\ UNCHANGED part
    /\ Still({"ledger"}, vars) /\ Still({"quota"}, quotaVars) /\ Still({"cache"}, cache)
    /\ Still({"one caller", "many callers"}, stickyVars)
    /\ Still({"sessions"}, contVars) /\ Still({"lockout"}, lockVars)
    /\ Still({"responses"}, store)
    /\ Still({"update"}, updateVars) /\ Still({"stream"}, translatorVars)
    /\ Moves

MCSpec ==
    MCInit /\ [][MCNext]_<<part, vars, quotaVars, cache, stickyVars, contVars, lockVars, store,
                        updateVars, translatorVars>>

-----------------------------------------------------------------------------
\* No tenant loses its last cascade to another (ConversationPool), and who is
\* over its share of the bytes pays itself (ResponseStore).
EvictionFair == Cache!OthersKeepOne /\ WriterPays
=============================================================================
