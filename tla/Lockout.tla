------------------------------ MODULE Lockout ------------------------------
(***************************************************************************)
(* The lockout of dashboard callers by address (src/auth.js; its callers    *)
(* are the gates of src/server.js and src/dashboard/api.js).  Failed        *)
(* attempts are counted, and at the threshold the address is banned for a   *)
(* while.  The table is bounded: a new address takes the place of the       *)
(* oldest one that is not banned, found by a scan that gives up after so    *)
(* many bans; without a place the attempt is not counted at all.            *)
(*                                                                         *)
(* A record is kept in the order of insertion.  Its ban and its idle time   *)
(* end when the environment says so.                                       *)
(***************************************************************************)
EXTENDS Listing, FiniteSets

CONSTANTS Ips,
          Threshold,     \* of the settings, when it is not switched off
          LockMax,       \* LOCKOUT_MAX_ENTRIES
          ScanBudget     \* _LOCKOUT_EVICT_SCAN_BUDGET

ASSUME LockAssumption == Threshold \in Nat /\ LockMax \in Nat \ {0} /\ ScanBudget \in Nat

VARIABLES
    attempts,    \* _lockoutAttempts: [ip, count, ban: "none", "live", "over"; idle]
    lockOn       \* the threshold is not 0

lockVars == <<attempts, lockOn>>

LockInit == attempts = <<>> /\ lockOn = TRUE

Has(s, ip)   == \E i \in DOMAIN s : s[i].ip = ip
At(s, ip)    == CHOOSE i \in DOMAIN s : s[i].ip = ip
Minus(s, ip) == OnlyOf(s, {e \in AllOf(s) : e.ip # ip})
Banned(s)    == {s[i].ip : i \in {j \in DOMAIN s : s[j].ban = "live"}}

\* Mistake: the oldest makes room.
EvictableOldest == {i \in DOMAIN attempts : i = 1}

\* _evictLockoutForInsert: the first record without a live ban, unless the scan
\* meets its budget of bans before.
Evictable ==
    {i \in DOMAIN attempts :
        /\ attempts[i].ban # "live" /\ i <= ScanBudget
        /\ \A j \in 1 .. i - 1 : attempts[j].ban = "live"}

\* A failure is counted in the record at i.
Counted(s, i) ==
    IF s[i].count + 1 >= Threshold
    THEN [s EXCEPT ![i] = [s[i] EXCEPT !.count = 0, !.ban = "live", !.idle = FALSE]]
    ELSE [s EXCEPT ![i] = [s[i] EXCEPT !.count = @ + 1, !.idle = FALSE]]

Recorded(s, ip) ==
    LET t == Append(s, [ip |-> ip, count |-> 0, ban |-> "none", idle |-> FALSE])
    IN  Counted(t, Len(t))

\* checkLockout, and what it does to the record.
Checked(ip) ==
    IF ~lockOn THEN Minus(attempts, ip)
    ELSE LET i == At(attempts, ip) IN
         IF Has(attempts, ip) /\ attempts[i].ban = "over"
         THEN [attempts EXCEPT ![i] = [attempts[i] EXCEPT !.count = 0, !.ban = "none"]]
         ELSE attempts

\* A request with a wrong password.  Requests of one address do not overlap:
\* the gate runs from its check to its count without a pause.
WrongPassword(ip) ==
    LET s == Checked(ip) IN
    /\ UNCHANGED lockOn
    /\ \/ ip \in Banned(s) /\ lockOn /\ attempts' = s
       \/ ~lockOn /\ attempts' = s
       \/ /\ lockOn /\ ip \notin Banned(s) /\ Has(s, ip)
          /\ attempts' = Counted(s, At(s, ip))
       \/ /\ lockOn /\ ~Has(s, ip) /\ Len(s) < LockMax
          /\ attempts' = Recorded(s, ip)
       \/ /\ lockOn /\ ~Has(s, ip) /\ Len(s) >= LockMax /\ Evictable = {}
          /\ attempts' = s
       \/ /\ lockOn /\ ~Has(s, ip) /\ Len(s) >= LockMax
          /\ \E i \in Evictable : attempts' = Recorded(Minus(s, s[i].ip), ip)

\* One with the right password: a banned address does not get that far.
RightPassword(ip) ==
    /\ ip \notin Banned(Checked(ip))
    /\ attempts' = Minus(Checked(ip), ip) /\ UNCHANGED lockOn

\* One without a password counts for nothing.
NoPassword(ip) == attempts' = Checked(ip) /\ UNCHANGED lockOn

\* _purgeLockouts
Purge ==
    /\ attempts' = OnlyOf(attempts, {e \in AllOf(attempts) : e.ban = "live" \/ ~e.idle})
    /\ UNCHANGED lockOn

\* Time.
BanEnds(i) ==
    /\ attempts[i].ban = "live" /\ attempts' = [attempts EXCEPT ![i].ban = "over"]
    /\ UNCHANGED lockOn

GoesIdle(i) ==
    /\ ~attempts[i].idle /\ attempts' = [attempts EXCEPT ![i].idle = TRUE]
    /\ UNCHANGED lockOn

SetThreshold == lockOn' = ~lockOn /\ UNCHANGED attempts

LockNext ==
    \/ \E ip \in Ips : WrongPassword(ip) \/ RightPassword(ip) \/ NoPassword(ip)
    \/ \E i \in DOMAIN attempts : BanEnds(i) \/ GoesIdle(i)
    \/ Purge \/ SetThreshold

LockSpec == LockInit /\ [][LockNext]_lockVars

-----------------------------------------------------------------------------
\* A flood of addresses neither lifts a ban that is live nor grows the table
\* (auth.js: distinct-IP floods cannot exhaust memory, and cannot wipe a ban):
\* a ban ends by its time, or one by one, when its address asks while the
\* lockout is off.
BansStand ==
    [][ /\ Len(attempts') <= LockMax
        /\ Cardinality({ip \in Banned(attempts) : ~Has(attempts', ip)})
             <= (IF lockOn THEN 0 ELSE 1) ]_lockVars
=============================================================================
