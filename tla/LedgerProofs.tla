---------------------------- MODULE LedgerProofs ----------------------------
(***************************************************************************)
(* Seven small machines that stand by themselves: the accounts file        *)
(* (AccountsFile) and the undo points of an update (SelfUpdate), which     *)
(* survive crashes; the in-flight ledger (AccountPool), the quota          *)
(* deadlines (QuotaCooldown) and the affinity of callers (StickySession),  *)
(* by which accounts are selected; and two tables with a limit, the        *)
(* lockouts of the dashboard (Lockout) and the stored responses            *)
(* (ResponseStore).                                                        *)
(*                                                                         *)
(* The file, for any number of changes and failures: FileSafe speaks of    *)
(* what is on the disk; that memory is never behind the last save, and     *)
(* still holds the filtered records, carries it through the next save.     *)
(*                                                                         *)
(* The lockouts, for any number of addresses: an address has one record,   *)
(* so that taking the record of one without a ban takes no other's ban.    *)
(*                                                                         *)
(* Affinity, for any callers, accounts and requests: a pick moves a caller *)
(* only when its own account is not free, and what it does to the table    *)
(* concerns that caller alone. The victim of a binding is of the writer's  *)
(* tenant when there are two: for the table is full, so that if the other  *)
(* one has no more than half of it the writer has its share.               *)
(*                                                                         *)
(* The store, for any tenants, sizes and limits. The four hand-kept        *)
(* numbers are sums over the table as long as no two entries share an id,  *)
(* for the clamps at 0 hide a drift only if there is one. The loop that    *)
(* makes room for bytes ends within the limit, because every pass drops an *)
(* entry and the one that was written fits alone; and what each pass       *)
(* leaves (Left) says who paid for it.                                     *)
(*                                                                         *)
(* The update, for any number of releases: UndoKept says that a point of   *)
(* the last move is on the disk. That no later promotion buries it needs   *)
(* two facts more: a pending point that HEAD has reached is the one of     *)
(* that move, and HEAD comes back to where the move ended by nothing but   *)
(* another update, since every point leads to an earlier commit and        *)
(* rollbacks only descend.                                                 *)
(*                                                                         *)
(* The ledger, for any number of accounts, keys and requests: the counters *)
(* are well typed; when every request releases by id they are exact; and   *)
(* when, besides, degraded serving and pinned acquisition are off, no      *)
(* account serves more requests than its cap. SlotsExact is not inductive  *)
(* alone: the sweep would break it if it could find a stale counter with a *)
(* live holder. SinceFresh excludes that: the counter's age is at most the *)
(* age of each of its holders, hence at most the deadline, hence at most   *)
(* the threshold.                                                          *)
(***************************************************************************)
EXTENDS AccountsFile, SelfUpdate, AccountPool, QuotaCooldown, ResponseStore, Lockout, StickySession,
        ListingProofs, FiniteSetTheorems

MemoryIsAhead == running /\ ~blind => mem >= saved /\ kept = Others

FileInv == FileTypeOK /\ FileSafe /\ MemoryIsAhead

LEMMA InitSafe == FileInit => FileInv
  <1> SUFFICES ASSUME FileInit PROVE FileInv
    OBVIOUS
  <1>1. file \in Contents /\ file.rev = 0 /\ file.others = Others
    BY DEF FileInit, Contents
  <1>2. disk \in SUBSET Contents /\ disk = {file} /\ saved = 0
    BY <1>1 DEF FileInit
  <1>3. FileTypeOK
    <2>1. /\ running \in BOOLEAN /\ dirty \in BOOLEAN /\ blind \in BOOLEAN
          /\ mem \in Nat /\ saved \in Nat
      BY DEF FileInit
    <2>2. kept \in SUBSET Others
      BY DEF FileInit
    <2> QED BY <1>1, <1>2, <2>1, <2>2 DEF FileTypeOK
  <1>4. SavedSurvives
    BY <1>1, <1>2 DEF SavedSurvives
  <1>5. CleanIsPublished /\ MemoryIsAhead
    BY DEF FileInit, CleanIsPublished, MemoryIsAhead
  <1> QED BY <1>3, <1>4, <1>5 DEF FileInv, FileSafe

\* Whatever becomes of a save, the disk has the old contents or the new.
LEMMA SaveKeepsSafe ==
    ASSUME FileTypeOK, FileSafe, NEW c \in Contents, Save(c),
           ~blind => c.rev >= saved /\ c.others = Others,
           blind' = blind,
           c = Snapshot'
    PROVE  /\ file' \in Contents /\ disk' \in SUBSET Contents
           /\ dirty' \in BOOLEAN /\ saved' \in {saved, c.rev}
           /\ FileSafe'
  <1>1. CASE Published(c)
    <2>1. file' = c /\ disk' = {c} /\ saved' = c.rev /\ dirty' = FALSE
      BY <1>1 DEF Published
    <2>2. c.rev \in Nat
      BY DEF Contents
    <2>3. SavedSurvives'
      BY <2>1, <2>2 DEF SavedSurvives
    <2>4. CleanIsPublished'
      BY <2>1 DEF CleanIsPublished
    <2> QED BY <2>1, <2>2, <2>3, <2>4 DEF FileSafe
  <1>2. CASE NotWritten
    BY <1>2 DEF NotWritten, FileTypeOK, FileSafe, SavedSurvives, CleanIsPublished
  <1>3. CASE Unproven(c)
    <2>1. file' = c /\ disk' = disk \cup {c} /\ dirty' = TRUE /\ saved' = saved
      BY <1>3 DEF Unproven
    <2>2. SavedSurvives'
      BY <2>1 DEF FileSafe, SavedSurvives
    <2>3. CleanIsPublished'
      BY <2>1 DEF CleanIsPublished
    <2> QED BY <2>1, <2>2, <2>3 DEF FileSafe, FileTypeOK
  <1> QED BY <1>1, <1>2, <1>3 DEF Save

LEMMA StepSafe == FileInv /\ [FileNext]_fileVars => FileInv'
  <1> SUFFICES ASSUME FileInv, [FileNext]_fileVars PROVE FileInv'
    OBVIOUS
  <1> USE DEF FileInv
  <1>1. CASE SavedChange
    <2> DEFINE c == [Snapshot EXCEPT !.rev = mem + 1]
    <2>1. /\ mem' = mem + 1 /\ running /\ running' = running
          /\ kept' = kept /\ blind' = blind /\ Save(c)
      BY <1>1 DEF SavedChange, Change
    <2>2. c \in Contents /\ c = Snapshot' /\ c.rev = mem + 1 /\ c.others = kept
      BY <2>1 DEF Snapshot, Contents, FileTypeOK
    <2>3. ~blind => c.rev >= saved /\ c.others = Others
      BY <2>1, <2>2 DEF MemoryIsAhead, FileTypeOK
    <2> HIDE DEF c
    <2>4. /\ file' \in Contents /\ disk' \in SUBSET Contents
          /\ dirty' \in BOOLEAN /\ saved' \in {saved, c.rev} /\ FileSafe'
      BY <2>1, <2>2, <2>3, SaveKeepsSafe
    <2>5. FileTypeOK'
      BY <2>1, <2>2, <2>4 DEF FileTypeOK
    <2>6. MemoryIsAhead'
      BY <2>1, <2>2, <2>3, <2>4 DEF MemoryIsAhead, FileTypeOK
    <2> QED BY <2>4, <2>5, <2>6
  <1>2. CASE LazyChange
    BY <1>2 DEF LazyChange, Change, FileTypeOK, FileSafe, SavedSurvives,
       CleanIsPublished, MemoryIsAhead
  <1>3. CASE Flush
    <2>1. /\ UNCHANGED <<running, mem, kept, blind>> /\ running /\ Save(Snapshot)
      BY <1>3 DEF Flush
    <2>2. /\ Snapshot \in Contents /\ Snapshot = Snapshot'
          /\ Snapshot.rev = mem /\ Snapshot.others = kept
      BY <2>1 DEF Snapshot, Contents, FileTypeOK
    <2>3. ~blind => Snapshot.rev >= saved /\ Snapshot.others = Others
      BY <2>1, <2>2 DEF MemoryIsAhead
    <2>4. /\ file' \in Contents /\ disk' \in SUBSET Contents
          /\ dirty' \in BOOLEAN /\ saved' \in {saved, Snapshot.rev} /\ FileSafe'
      BY <2>1, <2>2, <2>3, SaveKeepsSafe
    <2>5. FileTypeOK'
      BY <2>1, <2>2, <2>4 DEF FileTypeOK
    <2>6. MemoryIsAhead'
      BY <2>1, <2>2, <2>4 DEF MemoryIsAhead, FileTypeOK
    <2> QED BY <2>4, <2>5, <2>6
  <1>4. CASE Kill
    <2>1. ~blind => mem >= saved /\ kept = Others
      BY <1>4 DEF Kill, MemoryIsAhead
    <2>2. /\ Snapshot \in Contents /\ Snapshot.rev = mem /\ Snapshot.others = kept
      BY DEF Snapshot, Contents, FileTypeOK
    <2> QED BY <1>4, <2>1, <2>2 DEF Kill, Down, FileTypeOK, FileSafe,
            SavedSurvives, CleanIsPublished, MemoryIsAhead
  <1>5. CASE PowerLoss
    BY <1>5 DEF PowerLoss, Down, FileTypeOK, FileSafe, SavedSurvives,
       CleanIsPublished, MemoryIsAhead
  <1>6. CASE Start
    BY <1>6 DEF Start, FileTypeOK, FileSafe, SavedSurvives, CleanIsPublished,
       MemoryIsAhead, Contents, Snapshot
  <1>7. CASE StartBlind
    BY <1>7 DEF StartBlind, FileTypeOK, FileSafe, SavedSurvives, CleanIsPublished,
       MemoryIsAhead
  <1>8. CASE UNCHANGED fileVars
    BY <1>8 DEF fileVars, FileTypeOK, FileSafe, SavedSurvives, CleanIsPublished,
       MemoryIsAhead, Snapshot
  <1> QED BY <1>1, <1>2, <1>3, <1>4, <1>5, <1>6, <1>7, <1>8 DEF FileNext

\* The file never falls behind the last save that reported success, and a clean
\* pool is on the file (saveAccounts, loadAccounts, fs-atomic.js).
THEOREM FileStaysSafe == FileSpec => []FileSafe
  <1>1. FileInv => FileSafe
    BY DEF FileInv
  <1> QED BY <1>1, InitSafe, StepSafe, PTL DEF FileSpec

-----------------------------------------------------------------------------
(* The lockout.                                                            *)

Record == [ip : Ips, count : Nat, ban : {"none", "live", "over"}, idle : BOOLEAN]
IpOf   == [e \in Record |-> e.ip]

\* One record for an address, and no more than there is room for.
LockTable(s) == s \in Seq(Record) /\ Apart(s, IpOf) /\ Len(s) <= LockMax

LockInv == LockTable(attempts) /\ lockOn \in BOOLEAN

\* The fields of a record.
LEMMA RecordFields ==
  ASSUME NEW e \in Record
  PROVE  /\ e.ip \in Ips /\ e.count \in Nat /\ e.ban \in {"none", "live", "over"}
         /\ e.idle \in BOOLEAN /\ IpOf[e] = e.ip
BY DEF Record, IpOf

\* What may be written over a record.
LEMMA RecordWritten ==
  ASSUME NEW e \in Record, NEW n \in Nat, NEW ban \in {"none", "live", "over"}, NEW idle \in BOOLEAN
  PROVE  /\ [e EXCEPT !.count = n, !.ban = ban, !.idle = idle] \in Record
         /\ [e EXCEPT !.count = n, !.ban = ban] \in Record
         /\ [e EXCEPT !.count = n, !.idle = idle] \in Record
         /\ [e EXCEPT !.ban = ban] \in Record /\ [e EXCEPT !.idle = idle] \in Record
         /\ [e EXCEPT !.count = n, !.ban = ban, !.idle = idle].ip = e.ip
         /\ [e EXCEPT !.count = n, !.ban = ban].ip = e.ip
         /\ [e EXCEPT !.count = n, !.idle = idle].ip = e.ip
         /\ [e EXCEPT !.ban = ban].ip = e.ip /\ [e EXCEPT !.idle = idle].ip = e.ip
BY DEF Record

\* Who is banned, and who has a record, by the records.
LEMMA WhoHas ==
  ASSUME NEW s \in Seq(Record), NEW ip
  PROVE  /\ Has(s, ip) <=> \E e \in AllOf(s) : e.ip = ip
         /\ ip \in Banned(s) <=> \E e \in AllOf(s) : e.ip = ip /\ e.ban = "live"
BY DEF Has, Banned, AllOf

\* Records go, and nothing else happens.
LEMMA LockTrims ==
  ASSUME NEW s, LockTable(s), NEW T
  PROVE  LockTable(OnlyOf(s, T)) /\ AllOf(OnlyOf(s, T)) = AllOf(s) \cap T
<1>1. s \in Seq(Record) /\ Apart(s, IpOf) /\ Len(s) <= LockMax /\ Len(s) \in Nat
  BY DEF LockTable
<1>2. OnlyOf(s, T) \in Seq(Record) /\ Apart(OnlyOf(s, T), IpOf)
  BY <1>1, OnlyOfIn, OnlyOfApart
<1>3. Len(OnlyOf(s, T)) \in Nat /\ Len(OnlyOf(s, T)) <= LockMax
  BY <1>1, OnlyOfShorter, LockAssumption
<1> QED BY <1>1, <1>2, <1>3, AllOfKept DEF LockTable

\* An address has one record at most, and At finds it.
LEMMA LockOne ==
  ASSUME NEW s, LockTable(s), NEW ip, Has(s, ip)
  PROVE  /\ At(s, ip) \in 1 .. Len(s) /\ s[At(s, ip)] \in Record /\ s[At(s, ip)].ip = ip
         /\ \A e \in AllOf(s) : e.ip = ip => e = s[At(s, ip)]
<1>1. s \in Seq(Record) /\ DOMAIN s = 1 .. Len(s) /\ \A i \in 1 .. Len(s) : s[i] \in Record
  BY DEF LockTable
<1>2. At(s, ip) \in DOMAIN s /\ s[At(s, ip)].ip = ip
  BY DEF At, Has
<1> DEFINE k == At(s, ip)
<1> HIDE DEF k
<1>3. k \in 1 .. Len(s) /\ s[k] \in Record /\ s[k].ip = ip
  BY <1>1, <1>2 DEF k
<1>4. ASSUME NEW e \in AllOf(s), e.ip = ip PROVE e = s[k]
  <2>1. PICK i \in 1 .. Len(s) : e = s[i]
    BY <1>1 DEF AllOf
  <2>2. IpOf[s[i]] = IpOf[s[k]]
    BY <1>1, <1>3, <1>4, <2>1, RecordFields
  <2> QED BY <1>3, <2>1, <2>2 DEF LockTable, Apart
<1> QED BY <1>3, <1>4 DEF k

\* A record is written over, under its address.
LEMMA LockWritten ==
  ASSUME NEW s, LockTable(s), NEW i \in 1 .. Len(s), NEW e \in Record, e.ip = s[i].ip
  PROVE  /\ LockTable([s EXCEPT ![i] = e])
         /\ \A ip : Has(s, ip) => Has([s EXCEPT ![i] = e], ip)
<1> DEFINE t == [s EXCEPT ![i] = e]
<1>1. s \in Seq(Record) /\ DOMAIN s = 1 .. Len(s) /\ \A j \in 1 .. Len(s) : s[j] \in Record
  BY DEF LockTable
<1>2. t \in Seq(Record) /\ Len(t) = Len(s) /\ DOMAIN t = 1 .. Len(s)
      /\ \A j \in 1 .. Len(s) : t[j] = IF j = i THEN e ELSE s[j]
  BY <1>1
<1> HIDE DEF t
<1>3. \A j \in 1 .. Len(s) : t[j].ip = s[j].ip /\ t[j] \in Record
  BY <1>1, <1>2
<1>4. \A j \in 1 .. Len(s) : IpOf[t[j]] = IpOf[s[j]]
  BY <1>1, <1>3, RecordFields
<1>5. Apart(t, IpOf)
  BY <1>2, <1>4 DEF Apart, LockTable
<1>6. \A ip : Has(s, ip) => Has(t, ip)
  BY <1>1, <1>2, <1>3 DEF Has
<1> QED BY <1>2, <1>5, <1>6 DEF LockTable, t

\* A failure is counted: whoever had a record has one.
LEMMA CountedKeeps ==
  ASSUME NEW s, LockTable(s), NEW i \in 1 .. Len(s)
  PROVE  LockTable(Counted(s, i)) /\ \A ip : Has(s, ip) => Has(Counted(s, i), ip)
<1> DEFINE e == [s[i] EXCEPT !.count = 0, !.ban = "live", !.idle = FALSE]
           d == [s[i] EXCEPT !.count = @ + 1, !.idle = FALSE]
<1>1. s[i] \in Record
  BY DEF LockTable
<1>2. s[i].count \in Nat
  BY <1>1, RecordFields
<1>3. e \in Record /\ e.ip = s[i].ip /\ d \in Record /\ d.ip = s[i].ip
  <2>1. s[i].count + 1 \in Nat /\ 0 \in Nat
    BY <1>2
  <2> QED BY <1>1, <2>1, RecordWritten
<1>4. Counted(s, i) = [s EXCEPT ![i] = e] \/ Counted(s, i) = [s EXCEPT ![i] = d]
  BY DEF Counted
<1> HIDE DEF e, d
<1> QED BY <1>3, <1>4, LockWritten

\* A new record comes behind the others.
LEMMA RecordedKeeps ==
  ASSUME NEW s, LockTable(s), NEW ip \in Ips, ~Has(s, ip), Len(s) < LockMax
  PROVE  LockTable(Recorded(s, ip)) /\ \A q : Has(s, q) => Has(Recorded(s, ip), q)
<1> DEFINE e == [ip |-> ip, count |-> 0, ban |-> "none", idle |-> FALSE]
           t == Append(s, e)
<1>1. e \in Record /\ e.ip = ip
  BY DEF Record
<1>2. s \in Seq(Record) /\ DOMAIN s = 1 .. Len(s) /\ \A j \in 1 .. Len(s) : s[j] \in Record
  BY DEF LockTable
<1>3. Recorded(s, ip) = Counted(t, Len(t))
  BY DEF Recorded
<1> HIDE DEF e
<1>4. /\ t \in Seq(Record) /\ Len(t) = Len(s) + 1 /\ t[Len(s) + 1] = e
      /\ DOMAIN t = 1 .. Len(s) + 1 /\ \A j \in 1 .. Len(s) : t[j] = s[j]
  BY <1>1, <1>2
<1> HIDE DEF t
<1>5. \A j \in 1 .. Len(s) : s[j].ip # ip
  BY <1>2 DEF Has
<1>6. Apart(t, IpOf)
  <2> SUFFICES ASSUME NEW i \in 1 .. Len(s) + 1, NEW j \in 1 .. Len(s) + 1, IpOf[t[i]] = IpOf[t[j]]
               PROVE  i = j
    BY <1>4 DEF Apart
  <2>1. t[i].ip = t[j].ip
    BY <1>4, RecordFields
  <2>2. CASE i \in 1 .. Len(s) /\ j \in 1 .. Len(s)
    BY <1>4, <2>2 DEF LockTable, Apart
  <2>3. CASE i = Len(s) + 1 \/ j = Len(s) + 1
    <3>1. i = Len(s) + 1 \/ i \in 1 .. Len(s)
      BY <1>2
    <3>2. j = Len(s) + 1 \/ j \in 1 .. Len(s)
      BY <1>2
    <3> QED BY <1>1, <1>4, <1>5, <2>1, <2>3, <3>1, <3>2
  <2> QED BY <1>2, <2>2, <2>3
<1>7. LockTable(t) /\ Len(t) \in 1 .. Len(t)
  BY <1>2, <1>4, <1>6, LockAssumption DEF LockTable
<1>8. \A q : Has(s, q) => Has(t, q)
  BY <1>2, <1>4 DEF Has
<1> QED BY <1>3, <1>7, <1>8, CountedKeeps

\* What a check does: nothing but to the address that asks, which loses its record
\* while the lockout is off, and a ban that is over while it is on.
LEMMA CheckedKeeps ==
  ASSUME LockInv, NEW ip \in Ips
  PROVE  /\ LockTable(Checked(ip))
         /\ lockOn => \A q : Has(attempts, q) => Has(Checked(ip), q)
         /\ \A q : q # ip /\ Has(attempts, q) => Has(Checked(ip), q)
         /\ lockOn /\ ip \in Banned(attempts) => ip \in Banned(Checked(ip))
         /\ lockOn /\ ~Has(Checked(ip), ip) => Checked(ip) = attempts
<1>1. LockTable(attempts) /\ attempts \in Seq(Record)
  BY DEF LockInv, LockTable
<1>2. CASE ~lockOn
  <2> DEFINE U == {e \in AllOf(attempts) : e.ip # ip}
  <2>1. Checked(ip) = OnlyOf(attempts, U)
    BY <1>2 DEF Checked, Minus
  <2>2. LockTable(OnlyOf(attempts, U)) /\ AllOf(OnlyOf(attempts, U)) = U
    <3>1. AllOf(attempts) \cap U = U
      OBVIOUS
    <3> HIDE DEF U
    <3> QED BY <1>1, <3>1, LockTrims
  <2>3. Checked(ip) \in Seq(Record)
    BY <2>1, <2>2 DEF LockTable
  <2>4. ASSUME NEW q, q # ip, Has(attempts, q) PROVE Has(Checked(ip), q)
    <3>1. PICK e \in AllOf(attempts) : e.ip = q
      BY <1>1, <2>4, WhoHas
    <3>2. e \in AllOf(Checked(ip))
      BY <2>1, <2>2, <2>4, <3>1
    <3> QED BY <2>3, <3>1, <3>2, WhoHas
  <2> QED BY <1>2, <2>1, <2>2, <2>4
<1>3. CASE lockOn /\ Has(attempts, ip) /\ attempts[At(attempts, ip)].ban = "over"
  <2> DEFINE k == At(attempts, ip)
             e == [attempts[k] EXCEPT !.count = 0, !.ban = "none"]
  <2>1. /\ k \in 1 .. Len(attempts) /\ attempts[k] \in Record /\ attempts[k].ip = ip
        /\ \A d \in AllOf(attempts) : d.ip = ip => d = attempts[k]
    BY <1>1, <1>3, LockOne
  <2>2. Checked(ip) = [attempts EXCEPT ![k] = e]
    BY <1>3 DEF Checked
  <2>3. e \in Record /\ e.ip = attempts[k].ip
    BY <2>1, RecordWritten
  <2>4. attempts[k].ban = "over"
    BY <1>3
  <2> HIDE DEF k, e
  <2>5. LockTable([attempts EXCEPT ![k] = e])
        /\ \A q : Has(attempts, q) => Has([attempts EXCEPT ![k] = e], q)
    BY <1>1, <2>1, <2>3, LockWritten
  <2>6. ip \notin Banned(attempts)
    BY <1>1, <2>1, <2>4, WhoHas
  <2> QED BY <1>3, <2>2, <2>5, <2>6
<1>4. CASE lockOn /\ ~(Has(attempts, ip) /\ attempts[At(attempts, ip)].ban = "over")
  <2>1. Checked(ip) = attempts
    BY <1>4 DEF Checked
  <2> QED BY <1>1, <2>1
<1> QED BY <1>2, <1>3, <1>4 DEF LockInv

\* No ban is lifted by a step that leaves all banned addresses their records, but
\* for one that asks while the lockout is off.
Lifted == {ip \in Banned(attempts) : ~Has(attempts', ip)}

Stands == Len(attempts') <= LockMax /\ Cardinality(Lifted) <= (IF lockOn THEN 0 ELSE 1)

\* So it is enough to count them as none, or as the one that asks.
LEMMA NoneLifted ==
  ASSUME LockTable(attempts'), \A ip \in Banned(attempts) : Has(attempts', ip)
  PROVE  Stands
<1>1. Lifted = {}
  BY DEF Lifted
<1>2. Cardinality(Lifted) = 0
  BY <1>1, FS_EmptySet
<1> QED BY <1>2 DEF Stands, LockTable

\* While the lockout is off.
LEMMA OneLifted ==
  ASSUME LockTable(attempts'), ~lockOn, NEW ip,
         \A q \in Banned(attempts) : q # ip => Has(attempts', q)
  PROVE  Stands
<1>1. Lifted = {} \/ Lifted = {ip}
  BY DEF Lifted
<1>2. Cardinality(Lifted) \in {0, 1}
  BY <1>1, FS_EmptySet, FS_Singleton
<1> QED BY <1>2 DEF Stands, LockTable

\* Who is banned has a record.
LEMMA BannedHas ==
  ASSUME LockInv
  PROVE  \A ip \in Banned(attempts) : Has(attempts, ip)
BY DEF Banned, Has

\* A wrong password is counted, if there is room for its address: what makes room is
\* not banned.
LEMMA WrongPasswordStands ==
  ASSUME LockInv, NEW ip \in Ips, WrongPassword(ip)
  PROVE  LockInv' /\ Stands
<1> DEFINE c == Checked(ip)
<1>1. /\ LockTable(c)
      /\ lockOn => \A q : Has(attempts, q) => Has(c, q)
      /\ \A q : q # ip /\ Has(attempts, q) => Has(c, q)
      /\ lockOn /\ ~Has(c, ip) => c = attempts
  BY CheckedKeeps
<1>2. lockOn' = lockOn /\ lockOn \in BOOLEAN
  BY DEF WrongPassword, LockInv
<1>3. /\ \/ attempts' = c
         \/ lockOn /\ Has(c, ip) /\ attempts' = Counted(c, At(c, ip))
         \/ lockOn /\ ~Has(c, ip) /\ Len(c) < LockMax /\ attempts' = Recorded(c, ip)
         \/ /\ lockOn /\ ~Has(c, ip) /\ Len(c) >= LockMax
            /\ \E i \in Evictable : attempts' = Recorded(Minus(c, c[i].ip), ip)
  BY DEF WrongPassword
<1> HIDE DEF c
<1>4. CASE attempts' = c
  <2>1. LockTable(attempts')
    BY <1>1, <1>4
  <2>2. CASE lockOn
    <3>1. \A p \in Banned(attempts) : Has(attempts', p)
      BY <1>1, <1>4, <2>2, BannedHas
    <3> QED BY <1>2, <2>1, <3>1, NoneLifted DEF LockInv
  <2>3. CASE ~lockOn
    <3>1. \A p \in Banned(attempts) : p # ip => Has(attempts', p)
      BY <1>1, <1>4, BannedHas
    <3> QED BY <1>2, <2>1, <2>3, <3>1, OneLifted DEF LockInv
  <2> QED BY <1>2, <2>1, <2>2, <2>3 DEF LockInv
<1>5. CASE lockOn /\ Has(c, ip) /\ attempts' = Counted(c, At(c, ip))
  <2>1. At(c, ip) \in 1 .. Len(c)
    BY <1>1, <1>5, LockOne
  <2>2. LockTable(attempts') /\ \A q : Has(c, q) => Has(attempts', q)
    BY <1>1, <1>5, <2>1, CountedKeeps
  <2> QED BY <1>1, <1>2, <1>5, <2>2, BannedHas, NoneLifted DEF LockInv
<1>6. CASE lockOn /\ ~Has(c, ip) /\ Len(c) < LockMax /\ attempts' = Recorded(c, ip)
  <2>2. LockTable(attempts') /\ \A q : Has(c, q) => Has(attempts', q)
    BY <1>1, <1>6, RecordedKeeps
  <2> QED BY <1>1, <1>2, <1>6, <2>2, BannedHas, NoneLifted DEF LockInv
<1>7. CASE /\ lockOn /\ ~Has(c, ip) /\ Len(c) >= LockMax
           /\ \E i \in Evictable : attempts' = Recorded(Minus(c, c[i].ip), ip)
  <2>1. c = attempts /\ c \in Seq(Record) /\ DOMAIN c = 1 .. Len(c) /\ Len(c) \in Nat
    BY <1>1, <1>7 DEF LockTable
  <2>2. PICK i \in Evictable : attempts' = Recorded(Minus(c, c[i].ip), ip)
    BY <1>7
  <2>3. i \in 1 .. Len(c) /\ c[i].ban # "live" /\ c[i] \in Record /\ c[i] \in AllOf(c)
    BY <2>1, <2>2 DEF Evictable, AllOf
  <2> DEFINE q == c[i].ip
             U == {e \in AllOf(c) : e.ip # q}
             r == OnlyOf(c, U)
  <2>4. Minus(c, q) = r
    BY DEF Minus
  <2>5. LockTable(r) /\ AllOf(r) = U
    <3>1. AllOf(c) \cap U = U
      OBVIOUS
    <3> HIDE DEF U
    <3> QED BY <1>1, <3>1, LockTrims
  <2>6. r \in Seq(Record) /\ Len(r) \in Nat
    <3> HIDE DEF r
    <3> QED BY <2>5 DEF LockTable
  <2>7. Len(r) < LockMax
    <3>1. c[i] \notin U
      OBVIOUS
    <3> HIDE DEF U
    <3>2. Len(OnlyOf(c, U)) + 1 <= Len(c)
      BY <2>1, <2>3, <3>1, OnlyOfDrops
    <3>3. Len(c) <= LockMax /\ LockMax \in Nat
      BY <1>1, LockAssumption DEF LockTable
    <3> QED BY <2>1, <2>6, <3>2, <3>3
  <2>8. \A p : p # q /\ Has(c, p) => Has(r, p)
    <3> SUFFICES ASSUME NEW p, p # q, Has(c, p) PROVE Has(r, p)
      OBVIOUS
    <3>1. PICK e \in AllOf(c) : e.ip = p
      BY <2>1, WhoHas
    <3>2. e \in AllOf(r)
      BY <2>5, <3>1
    <3> QED BY <2>6, <3>1, <3>2, WhoHas
  <2>9. ~Has(r, ip)
    <3> SUFFICES ASSUME Has(r, ip) PROVE FALSE
      OBVIOUS
    <3>1. PICK e \in AllOf(r) : e.ip = ip
      BY <2>6, WhoHas
    <3>2. e \in AllOf(c)
      BY <2>5, <3>1
    <3> QED BY <1>7, <2>1, <3>1, <3>2, WhoHas
  <2>10. q \notin Banned(c)
    <3> SUFFICES ASSUME q \in Banned(c) PROVE FALSE
      OBVIOUS
    <3>1. PICK e \in AllOf(c) : e.ip = q /\ e.ban = "live"
      BY <2>1, WhoHas
    <3>2. Has(c, q)
      BY <2>1, <3>1, WhoHas
    <3>3. e = c[i]
      BY <1>1, <2>3, <3>1, <3>2, LockOne
    <3> QED BY <2>3, <3>1, <3>3
  <2> HIDE DEF q, U, r
  <2>11. attempts' = Recorded(r, ip)
    BY <2>2, <2>4 DEF q
  <2>12. LockTable(attempts') /\ \A p : Has(r, p) => Has(attempts', p)
    BY <2>5, <2>7, <2>9, <2>11, RecordedKeeps
  <2>13. \A p \in Banned(attempts) : Has(attempts', p)
    BY <2>1, <2>8, <2>10, <2>12, BannedHas
  <2> QED BY <1>2, <2>12, <2>13, NoneLifted DEF LockInv
<1> QED BY <1>3, <1>4, <1>5, <1>6, <1>7

\* The right password ends a record that is not banned.
LEMMA RightPasswordStands ==
  ASSUME LockInv, NEW ip \in Ips, RightPassword(ip)
  PROVE  LockInv' /\ Stands
<1> DEFINE c == Checked(ip)
           U == {e \in AllOf(c) : e.ip # ip}
           r == OnlyOf(c, U)
<1>1. /\ LockTable(c)
      /\ lockOn => \A q : Has(attempts, q) => Has(c, q)
      /\ \A q : q # ip /\ Has(attempts, q) => Has(c, q)
      /\ lockOn /\ ip \in Banned(attempts) => ip \in Banned(c)
  BY CheckedKeeps
<1>2. lockOn' = lockOn /\ lockOn \in BOOLEAN
  BY DEF RightPassword, LockInv
<1>3. ip \notin Banned(c) /\ attempts' = r
  BY DEF RightPassword, Minus
<1>4. LockTable(r) /\ AllOf(r) = U
  <2>1. AllOf(c) \cap U = U
    OBVIOUS
  <2> HIDE DEF U, c
  <2> QED BY <1>1, <2>1, LockTrims
<1>5. r \in Seq(Record) /\ c \in Seq(Record)
  BY <1>1, <1>4 DEF LockTable
<1> HIDE DEF c, r
<1>6. ASSUME NEW q \in Banned(attempts), q # ip PROVE Has(r, q)
  <2>1. Has(c, q)
    BY <1>1, <1>6, BannedHas
  <2>2. PICK e \in AllOf(c) : e.ip = q
    BY <1>5, <2>1, WhoHas
  <2>3. e \in AllOf(r)
    BY <1>4, <1>6, <2>2
  <2> QED BY <1>5, <2>2, <2>3, WhoHas
<1>7. LockTable(attempts')
  BY <1>3, <1>4
<1>8. CASE lockOn
  <2>1. ip \notin Banned(attempts)
    BY <1>1, <1>3, <1>8
  <2> QED BY <1>2, <1>3, <1>6, <1>7, <2>1, NoneLifted DEF LockInv
<1>9. CASE ~lockOn
  BY <1>2, <1>3, <1>6, <1>7, <1>9, OneLifted DEF LockInv
<1> QED BY <1>2, <1>8, <1>9

\* No password: nothing but the check.
LEMMA NoPasswordStands ==
  ASSUME LockInv, NEW ip \in Ips, NoPassword(ip)
  PROVE  LockInv' /\ Stands
<1> DEFINE c == Checked(ip)
<1>1. /\ LockTable(c)
      /\ lockOn => \A q : Has(attempts, q) => Has(c, q)
      /\ \A q : q # ip /\ Has(attempts, q) => Has(c, q)
  BY CheckedKeeps
<1>2. lockOn' = lockOn /\ lockOn \in BOOLEAN /\ attempts' = c
  BY DEF NoPassword, LockInv
<1> HIDE DEF c
<1>3. CASE lockOn
  BY <1>1, <1>2, <1>3, BannedHas, NoneLifted DEF LockInv
<1>4. CASE ~lockOn
  BY <1>1, <1>2, <1>4, BannedHas, OneLifted DEF LockInv
<1> QED BY <1>2, <1>3, <1>4

\* The purge leaves the bans alone.
LEMMA PurgeStands ==
  ASSUME LockInv, Purge
  PROVE  LockInv' /\ Stands
<1> DEFINE U == {e \in AllOf(attempts) : e.ban = "live" \/ ~e.idle}
           r == OnlyOf(attempts, U)
<1>1. attempts' = r /\ lockOn' = lockOn /\ lockOn \in BOOLEAN
  BY DEF Purge, LockInv
<1>2. LockTable(r) /\ AllOf(r) = U
  <2>1. AllOf(attempts) \cap U = U
    OBVIOUS
  <2> HIDE DEF U
  <2> QED BY <2>1, LockTrims DEF LockInv
<1>3. r \in Seq(Record) /\ attempts \in Seq(Record)
  BY <1>2 DEF LockTable, LockInv
<1> HIDE DEF r
<1>4. ASSUME NEW q \in Banned(attempts) PROVE Has(r, q)
  <2>1. PICK e \in AllOf(attempts) : e.ip = q /\ e.ban = "live"
    BY <1>3, <1>4, WhoHas
  <2>2. e \in AllOf(r)
    BY <1>2, <2>1
  <2> QED BY <1>3, <2>1, <2>2, WhoHas
<1> QED BY <1>1, <1>2, <1>4, NoneLifted DEF LockInv

\* Time: a ban is over, or an address was idle for long.
LEMMA TimeStands ==
  ASSUME LockInv, NEW i \in DOMAIN attempts, BanEnds(i) \/ GoesIdle(i)
  PROVE  LockInv' /\ Stands
<1>1. i \in 1 .. Len(attempts) /\ attempts[i] \in Record /\ LockTable(attempts)
  BY DEF LockInv, LockTable
<1> DEFINE over == [attempts[i] EXCEPT !.ban = "over"]
           idle == [attempts[i] EXCEPT !.idle = TRUE]
<1>2. over \in Record /\ over.ip = attempts[i].ip /\ idle \in Record /\ idle.ip = attempts[i].ip
  BY <1>1, RecordWritten
<1>3. lockOn' = lockOn /\ (attempts' = [attempts EXCEPT ![i] = over] \/ attempts' = [attempts EXCEPT ![i] = idle])
  BY DEF BanEnds, GoesIdle
<1> HIDE DEF over, idle
<1>4. /\ LockTable([attempts EXCEPT ![i] = over]) /\ LockTable([attempts EXCEPT ![i] = idle])
      /\ \A q : Has(attempts, q) => Has([attempts EXCEPT ![i] = over], q)
      /\ \A q : Has(attempts, q) => Has([attempts EXCEPT ![i] = idle], q)
  BY <1>1, <1>2, LockWritten
<1>5. LockTable(attempts') /\ \A q : Has(attempts, q) => Has(attempts', q)
  BY <1>3, <1>4
<1> QED BY <1>3, <1>5, BannedHas, NoneLifted DEF LockInv

\* Every step keeps the table, and the bans.
LEMMA LockStep ==
  ASSUME LockInv, [LockNext]_lockVars
  PROVE  LockInv' /\ (LockNext => Stands)
<1>1. CASE UNCHANGED lockVars
  <2>1. attempts' = attempts /\ lockOn' = lockOn
    BY <1>1 DEF lockVars
  <2>2. LockTable(attempts') /\ \A q \in Banned(attempts) : Has(attempts', q)
    BY <2>1, BannedHas DEF LockInv
  <2> QED BY <2>1, <2>2, NoneLifted DEF LockInv
<1>2. ASSUME NEW ip \in Ips, WrongPassword(ip) \/ RightPassword(ip) \/ NoPassword(ip)
      PROVE  LockInv' /\ Stands
  BY <1>2, WrongPasswordStands, RightPasswordStands, NoPasswordStands
<1>3. ASSUME NEW i \in DOMAIN attempts, BanEnds(i) \/ GoesIdle(i)
      PROVE  LockInv' /\ Stands
  BY <1>3, TimeStands
<1>4. CASE Purge
  BY <1>4, PurgeStands
<1>5. CASE SetThreshold
  <2>1. attempts' = attempts /\ lockOn' \in BOOLEAN
    BY <1>5 DEF SetThreshold, LockInv
  <2>2. LockTable(attempts') /\ \A q \in Banned(attempts) : Has(attempts', q)
    BY <2>1, BannedHas DEF LockInv
  <2> QED BY <2>1, <2>2, NoneLifted DEF LockInv
<1> QED BY <1>1, <1>2, <1>3, <1>4, <1>5 DEF LockNext

\* No flood of addresses lifts a ban or outgrows the table, for any number of
\* addresses, limit, threshold and scan: what is evicted is not banned, and without
\* it nothing is recorded.
THEOREM BansHold == LockSpec => BansStand
<1>1. LockInit => LockInv
  <2> SUFFICES ASSUME LockInit PROVE LockInv
    OBVIOUS
  <2>1. attempts = <<>> /\ Len(attempts) = 0 /\ lockOn = TRUE
    BY DEF LockInit
  <2> QED BY <2>1, LockAssumption DEF LockInv, LockTable, Apart
<1>2. LockInv /\ [LockNext]_lockVars => LockInv' /\ [Stands]_lockVars
  BY LockStep
<1>3. LockInv /\ [LockNext]_lockVars
        => LockInv' /\ [ /\ Len(attempts') <= LockMax
                         /\ Cardinality({ip \in Banned(attempts) : ~Has(attempts', ip)})
                              <= (IF lockOn THEN 0 ELSE 1) ]_lockVars
  BY <1>2 DEF Stands, Lifted
<1> QED BY <1>1, <1>3, PTL DEF LockSpec, BansStand

-----------------------------------------------------------------------------
(* The response store.                                                     *)

IdOf   == [e \in Response |-> e.id]
Weight == [e \in Response |-> e.bytes]

Stores == [entries : Seq(Response), bytes : Nat, counts : [Owners -> Nat], bytesOf : [Owners -> Nat]]

\* The invariant, of one value of the store: an entry for an id, and ledgers that
\* say what the table says.
StoreOK(s) ==
    /\ s \in Stores /\ Apart(s.entries, IdOf)
    /\ s.bytes = BytesIn(s.entries)
    /\ \A t \in Owners : /\ s.bytesOf[t] = BytesIn(OfTenants(s.entries, {t}))
                          /\ s.counts[t] = Len(OfTenants(s.entries, {t}))

StoreInv == StoreOK(store) /\ store.bytes <= StoreMaxBytes /\ Len(store.entries) <= StoreMax

\* The fields of an entry.
LEMMA ResponseFields ==
  ASSUME NEW e \in Response
  PROVE  /\ e.id \in Ids /\ e.id \in Nat /\ e.id # NoId /\ e.tenant \in Owners
         /\ e.bytes \in Nat /\ e.bytes <= StoreMaxBytes /\ e.expired \in BOOLEAN
         /\ IdOf[e] = e.id /\ Weight[e] = e.bytes
<1>1. e.bytes \in 0 .. StoreMaxBytes /\ StoreMaxBytes \in Nat /\ StoreMax \in Nat
  BY StoreAssumption DEF Response
<1> QED BY <1>1 DEF Response, IdOf, Weight, Ids, NoId

\* What responses weigh is a number.
LEMMA WeightType == Weight \in [Response -> Nat]
BY ResponseFields DEF Weight

\* What one entry weighs, and what none do.
LEMMA BytesOfFew ==
  /\ BytesIn(<<>>) = 0
  /\ \A e \in Response : BytesIn(<<e>>) = e.bytes
  /\ \A s \in Seq(Response) : BytesIn(s) \in Nat
<1>1. Total(<<>>, Weight) = 0
  BY WeightType, TotalEmpty
<1>2. ASSUME NEW e \in Response PROVE Total(<<e>>, Weight) = e.bytes
  <2>1. <<>> \in Seq(Response) /\ Append(<<>>, e) = <<e>>
    OBVIOUS
  <2>2. Total(Append(<<>>, e), Weight) = Total(<<>>, Weight) + Weight[e]
    BY <2>1, WeightType, TotalAppend
  <2> QED BY <1>1, <2>1, <2>2, ResponseFields
<1>3. \A s \in Seq(Response) : Total(s, Weight) \in Nat
  BY WeightType, TotalIn
<1> QED BY <1>1, <1>2, <1>3 DEF BytesIn, Weight

\* One entry of a list has its id.
LEMMA OneOfId ==
  ASSUME NEW s \in Seq(Response), Apart(s, IdOf), NEW e \in AllOf(s)
  PROVE  OnlyOf(s, {x \in Response : x.id = e.id}) = <<e>>
<1> DEFINE T == {x \in Response : x.id = e.id}
           r == OnlyOf(s, T)
<1>1. PICK k \in 1 .. Len(s) : e = s[k]
  BY DEF AllOf
<1>2. e \in Response /\ e \in T
  BY <1>1
<1>3. r \in Seq(Response) /\ Apart(r, IdOf)
  <2> HIDE DEF T
  <2> QED BY OnlyOfIn, OnlyOfApart
<1>4. /\ \A i \in 1 .. Len(r) : r[i] \in T
      /\ \E i \in 1 .. Len(r) : r[i] = e
  <2> HIDE DEF T
  <2> QED BY <1>1, <1>2, OnlyOfEntries
<1>5. \A i \in 1 .. Len(r) : r[i] \in Response /\ r[i].id = e.id
  BY <1>4
<1> HIDE DEF r, T
<1>6. \A i, j \in 1 .. Len(r) : i = j
  BY <1>3, <1>5, ResponseFields DEF Apart
<1>7. Len(r) = 1 /\ r[1] = e
  <2>1. PICK i \in 1 .. Len(r) : r[i] = e
    BY <1>4
  <2>2. Len(r) \in Nat
    BY <1>3
  <2>3. 1 \in 1 .. Len(r) /\ Len(r) \in 1 .. Len(r)
    BY <2>1, <2>2
  <2> QED BY <1>6, <2>1, <2>3
<1>8. r = <<e>>
  BY <1>3, <1>7
<1> QED BY <1>8 DEF r, T

\* What a list is when the entry of an id is gone.
LEMMA OneRemoved ==
  ASSUME NEW s \in Seq(Response), Apart(s, IdOf), NEW e \in AllOf(s)
  PROVE  /\ Len(OnlyOf(s, {x \in Response : x.id # e.id})) + 1 = Len(s)
         /\ BytesIn(OnlyOf(s, {x \in Response : x.id # e.id})) + e.bytes = BytesIn(s)
         /\ AllOf(OnlyOf(s, {x \in Response : x.id # e.id})) = AllOf(s) \ {e}
<1> DEFINE T == {x \in Response : x.id # e.id}
           U == {x \in Response : x.id = e.id}
           r == OnlyOf(s, T)
<1>1. PICK k \in 1 .. Len(s) : e = s[k]
  BY DEF AllOf
<1>2. /\ e \in Response /\ e \notin T /\ Response \ T = U /\ Len(s) \in Nat
      /\ T = OtherKeys(Response, IdOf, e.id)
  <2>1. \A x \in Response : IdOf[x] = x.id
    BY DEF IdOf
  <2> QED BY <1>1, <2>1 DEF OtherKeys
<1>3. OnlyOf(s, U) = <<e>>
  BY OneOfId
<1> HIDE DEF T, U
<1>4. Len(r) \in Nat /\ Len(r) + 1 <= Len(s) /\ Len(s) <= Len(r) + 1
  <2>1. Len(r) \in Nat
    BY OnlyOfShorter
  <2>2. Len(r) + 1 <= Len(s)
    BY <1>1, <1>2, OnlyOfDrops
  <2>3. Len(s) <= Len(r) + 1
    BY <1>2, OnlyOfButOne
  <2> QED BY <2>1, <2>2, <2>3
<1>5. BytesIn(s) = BytesIn(r) + BytesIn(<<e>>)
  <2>1. Total(s, Weight) = Total(r, Weight) + Total(OnlyOf(s, Response \ T), Weight)
    BY WeightType, TotalSplits
  <2> QED BY <1>2, <1>3, <2>1 DEF BytesIn, Weight
<1>6. BytesIn(<<e>>) = e.bytes
  BY <1>2, BytesOfFew
<1>7. AllOf(r) = AllOf(s) \cap T
  BY AllOfKept
<1>8. AllOf(s) \cap T = AllOf(s) \ {e}
  <2>1. ASSUME NEW x \in AllOf(s), x # e PROVE x \in T
    <3>1. PICK i \in 1 .. Len(s) : x = s[i]
      BY <2>1 DEF AllOf
    <3>2. x \in Response /\ (x.id = e.id => IdOf[s[i]] = IdOf[s[k]])
      BY <1>1, <1>2, <3>1, ResponseFields
    <3>3. x.id # e.id
      BY <1>1, <2>1, <3>1, <3>2 DEF Apart
    <3> QED BY <3>2, <3>3 DEF T
  <2> QED BY <1>2, <2>1
<1> QED BY <1>2, <1>4, <1>5, <1>6, <1>7, <1>8 DEF r, T

\* Nothing goes where the id is not found.
LEMMA NoneRemoved ==
  ASSUME NEW s \in Seq(Response), NEW id, \A e \in AllOf(s) : e.id # id
  PROVE  OnlyOf(s, {x \in Response : x.id # id}) = s
<1> DEFINE T == {x \in Response : x.id # id}
<1>1. AllOf(s) \subseteq T
  BY DEF AllOf
<1> HIDE DEF T
<1>2. OnlyOf(s, T) = s
  BY <1>1, OnlyOfWhole
<1> QED BY <1>2 DEF T

\* The entries of a tenant, when one is gone.
LEMMA TenantRemoved ==
  ASSUME NEW s \in Seq(Response), Apart(s, IdOf), NEW e \in AllOf(s), NEW t
  PROVE  LET r == OfTenants(OnlyOf(s, {x \in Response : x.id # e.id}), {t})
             q == OfTenants(s, {t})
         IN  /\ t = e.tenant => Len(r) + 1 = Len(q) /\ BytesIn(r) + e.bytes = BytesIn(q)
             /\ t # e.tenant => r = q
<1> DEFINE T == {x \in Response : x.id # e.id}
           U == {x \in Response : x.tenant \in {t}}
           q == OnlyOf(s, U)
<1>1. PICK k \in 1 .. Len(s) : e = s[k] /\ e \in Response
  BY DEF AllOf
<1>2. OnlyOf(OnlyOf(s, T), U) = OnlyOf(q, T)
  <2> HIDE DEF T, U
  <2> QED BY OnlyOfCounts
<1>3. q \in Seq(Response) /\ Apart(q, IdOf) /\ AllOf(q) = AllOf(s) \cap U
  <2> HIDE DEF U
  <2> QED BY OnlyOfIn, OnlyOfApart, AllOfKept
<1> HIDE DEF q
<1>4. CASE t = e.tenant
  <2>1. e \in AllOf(q)
    BY <1>1, <1>3, <1>4
  <2>2. Len(OnlyOf(q, T)) + 1 = Len(q) /\ BytesIn(OnlyOf(q, T)) + e.bytes = BytesIn(q)
    BY <1>3, <2>1, OneRemoved
  <2> QED BY <1>2, <1>4, <2>2 DEF OfTenants, q
<1>5. CASE t # e.tenant
  <2>1. ASSUME NEW x \in AllOf(q) PROVE x.id # e.id
    <3>1. x \in AllOf(s) /\ x # e
      BY <1>3, <1>5
    <3>2. PICK i \in 1 .. Len(s) : x = s[i]
      BY <3>1 DEF AllOf
    <3>3. x \in Response /\ (x.id = e.id => IdOf[s[i]] = IdOf[s[k]])
      BY <1>1, <3>2, ResponseFields
    <3> QED BY <1>1, <3>1, <3>2, <3>3 DEF Apart
  <2>2. OnlyOf(q, T) = q
    BY <1>3, <2>1, NoneRemoved
  <2> QED BY <1>2, <1>5, <2>2 DEF OfTenants, q
<1> QED BY <1>4, <1>5

\* The entry of an id that is known.
LEMMA EntryIs ==
  ASSUME NEW s, StoreOK(s), NEW id \in Known(s)
  PROVE  EntryOf(s, id) \in AllOf(s.entries) /\ EntryOf(s, id).id = id /\ EntryOf(s, id) \in Response
<1>1. \E e \in AllOf(s.entries) : e.id = id
  BY DEF Known
<1>2. s.entries \in Seq(Response)
  BY DEF StoreOK, Stores
<1> QED BY <1>1, <1>2 DEF EntryOf, AllOf

\* An entry is dropped, from the table and from all four ledgers.
LEMMA DroppedOK ==
  ASSUME NEW s, StoreOK(s), NEW id \in Known(s)
  PROVE  /\ StoreOK(Dropped(s, id))
         /\ Len(Dropped(s, id).entries) + 1 = Len(s.entries)
         /\ Dropped(s, id).bytes + EntryOf(s, id).bytes = s.bytes
         /\ Dropped(s, id).bytes <= s.bytes
         /\ AllOf(Dropped(s, id).entries) = AllOf(s.entries) \ {EntryOf(s, id)}
<1> DEFINE e == EntryOf(s, id)
           d == Dropped(s, id)
           r == OnlyOf(s.entries, {x \in Response : x.id # e.id})
           n == s.counts[e.tenant] - 1
           b == IF n > 0 THEN Above0(s.bytesOf[e.tenant] - e.bytes) ELSE 0
<1>1. e \in AllOf(s.entries) /\ e.id = id /\ e \in Response
  BY EntryIs
<1>2. /\ s.entries \in Seq(Response) /\ Apart(s.entries, IdOf) /\ s.bytes = BytesIn(s.entries)
      /\ s.counts \in [Owners -> Nat] /\ s.bytesOf \in [Owners -> Nat] /\ s.bytes \in Nat
  BY DEF StoreOK, Stores
<1>3. e.tenant \in Owners /\ e.bytes \in Nat
  BY <1>1, ResponseFields
<1>4. d = [entries |-> r, bytes |-> Above0(s.bytes - e.bytes),
           counts |-> [s.counts EXCEPT ![e.tenant] = n],
           bytesOf |-> [s.bytesOf EXCEPT ![e.tenant] = b]]
  BY <1>1 DEF Dropped, AllBut
<1>5. /\ r \in Seq(Response) /\ Apart(r, IdOf) /\ Len(r) + 1 = Len(s.entries)
      /\ BytesIn(r) + e.bytes = BytesIn(s.entries) /\ BytesIn(r) \in Nat
      /\ AllOf(r) = AllOf(s.entries) \ {e}
  <2> DEFINE T == {x \in Response : x.id # e.id}
  <2>1. r \in Seq(Response) /\ Apart(r, IdOf)
    <3> HIDE DEF T
    <3> QED BY <1>2, OnlyOfIn, OnlyOfApart
  <2>2. BytesIn(r) \in Nat
    <3> HIDE DEF r
    <3> QED BY <2>1, BytesOfFew
  <2> HIDE DEF T, e
  <2> QED BY <1>1, <1>2, <2>1, <2>2, OneRemoved
<1>6. \A t \in Owners :
         /\ t = e.tenant => /\ Len(OfTenants(r, {t})) + 1 = Len(OfTenants(s.entries, {t}))
                            /\ BytesIn(OfTenants(r, {t})) + e.bytes = BytesIn(OfTenants(s.entries, {t}))
         /\ t # e.tenant => OfTenants(r, {t}) = OfTenants(s.entries, {t})
  <2> HIDE DEF e
  <2> QED BY <1>1, <1>2, TenantRemoved DEF r
<1>7. \A t \in Owners : OfTenants(r, {t}) \in Seq(Response) /\ OfTenants(s.entries, {t}) \in Seq(Response)
  <2> HIDE DEF r
  <2> QED BY <1>2, <1>5, OnlyOfIn DEF OfTenants
<1>8. \A t \in Owners : s.bytesOf[t] = BytesIn(OfTenants(s.entries, {t})) /\ s.counts[t] = Len(OfTenants(s.entries, {t}))
  BY DEF StoreOK
<1> HIDE DEF e, r, n, b
<1>9. Above0(s.bytes - e.bytes) = BytesIn(r) /\ BytesIn(r) <= s.bytes /\ BytesIn(r) + e.bytes = s.bytes
  <2>1. PICK k \in Nat : k = BytesIn(r)
    BY <1>5
  <2>2. s.bytes - e.bytes = k /\ k <= s.bytes /\ k + e.bytes = s.bytes
    BY <1>2, <1>3, <1>5, <2>1
  <2> QED BY <2>1, <2>2 DEF Above0
<1>10. /\ n = Len(OfTenants(r, {e.tenant})) /\ n \in Nat
       /\ b = BytesIn(OfTenants(r, {e.tenant})) /\ b \in Nat
  <2> DEFINE q == OfTenants(r, {e.tenant})
             p == OfTenants(s.entries, {e.tenant})
  <2>1. q \in Seq(Response) /\ Len(q) + 1 = Len(p) /\ BytesIn(q) + e.bytes = BytesIn(p)
    BY <1>3, <1>6, <1>7
  <2>2. s.bytesOf[e.tenant] = BytesIn(p) /\ s.counts[e.tenant] = Len(p)
    BY <1>3, <1>8
  <2>3. p \in Seq(Response)
    BY <1>3, <1>7
  <2> HIDE DEF p, q
  <2>4. PICK k \in Nat : k = BytesIn(q)
    BY <2>1, BytesOfFew
  <2>5. Len(q) \in Nat /\ Len(p) \in Nat
    BY <2>1, <2>3
  <2>6. n = Len(q)
    BY <2>1, <2>2, <2>5 DEF n
  <2>7. Above0(s.bytesOf[e.tenant] - e.bytes) = k
    <3>1. s.bytesOf[e.tenant] - e.bytes = k
      BY <1>3, <2>1, <2>2, <2>4
    <3> QED BY <2>4, <3>1 DEF Above0
  <2>8. Len(q) = 0 => BytesIn(q) = 0
    <3>1. Len(q) = 0 => q = <<>>
      BY <2>1
    <3> QED BY <3>1, BytesOfFew
  <2> QED BY <2>4, <2>5, <2>6, <2>7, <2>8 DEF b, q
<1>11. /\ d.entries = r /\ d.bytes = BytesIn(r)
       /\ d.counts = [s.counts EXCEPT ![e.tenant] = n] /\ d.bytesOf = [s.bytesOf EXCEPT ![e.tenant] = b]
  BY <1>4, <1>9
<1>12. d \in Stores
  <2>1. [s.counts EXCEPT ![e.tenant] = n] \in [Owners -> Nat]
    BY <1>2, <1>10
  <2>2. [s.bytesOf EXCEPT ![e.tenant] = b] \in [Owners -> Nat]
    BY <1>2, <1>10
  <2> QED BY <1>4, <1>5, <1>9, <2>1, <2>2 DEF Stores
<1>13. ASSUME NEW t \in Owners
       PROVE  d.bytesOf[t] = BytesIn(OfTenants(d.entries, {t})) /\ d.counts[t] = Len(OfTenants(d.entries, {t}))
  <2>1. CASE t = e.tenant
    BY <1>2, <1>10, <1>11, <2>1
  <2>2. CASE t # e.tenant
    BY <1>2, <1>6, <1>8, <1>11, <2>2
  <2> QED BY <2>1, <2>2
<1> HIDE DEF d
<1>14. StoreOK(d)
  BY <1>5, <1>11, <1>12, <1>13 DEF StoreOK
<1> QED BY <1>5, <1>9, <1>11, <1>14 DEF d, e

\* Known without the one that was dropped.
LEMMA DroppedKnown ==
  ASSUME NEW s, StoreOK(s), NEW id \in Known(s)
  PROVE  Known(Dropped(s, id)) = Known(s) \ {id}
<1> DEFINE d == Dropped(s, id)
<1>1. AllOf(d.entries) = AllOf(s.entries) \ {EntryOf(s, id)}
  BY DroppedOK
<1>2. EntryOf(s, id) \in AllOf(s.entries) /\ EntryOf(s, id).id = id
  BY EntryIs
<1>3. \A x \in AllOf(s.entries) : x.id = id => x = EntryOf(s, id)
  <2> SUFFICES ASSUME NEW x \in AllOf(s.entries), x.id = id PROVE x = EntryOf(s, id)
    OBVIOUS
  <2>1. s.entries \in Seq(Response) /\ Apart(s.entries, IdOf)
    BY DEF StoreOK, Stores
  <2>2. PICK i \in 1 .. Len(s.entries) : x = s.entries[i] /\ x \in Response
    BY <2>1 DEF AllOf
  <2>3. PICK j \in 1 .. Len(s.entries) : EntryOf(s, id) = s.entries[j] /\ EntryOf(s, id) \in Response
    BY <1>2, <2>1 DEF AllOf
  <2>4. IdOf[s.entries[i]] = IdOf[s.entries[j]]
    BY <1>2, <2>2, <2>3, ResponseFields
  <2> QED BY <2>1, <2>2, <2>3, <2>4 DEF Apart
<1> HIDE DEF d
<1> QED BY <1>1, <1>2, <1>3 DEF Known, d

\* An entry comes, and is booked.
LEMMA InsertedOK ==
  ASSUME NEW s, StoreOK(s), NEW e \in Response, e.id \notin Known(s)
  PROVE  /\ StoreOK(Inserted(s, e)) /\ Len(Inserted(s, e).entries) = Len(s.entries) + 1
         /\ AllOf(Inserted(s, e).entries) = AllOf(s.entries) \cup {e}
<1> DEFINE d == Inserted(s, e)
           r == Append(s.entries, e)
           cs == [s.counts EXCEPT ![e.tenant] = @ + 1]
           bs == [s.bytesOf EXCEPT ![e.tenant] = @ + e.bytes]
<1>1. /\ s.entries \in Seq(Response) /\ Apart(s.entries, IdOf) /\ s.bytes = BytesIn(s.entries)
      /\ s.counts \in [Owners -> Nat] /\ s.bytesOf \in [Owners -> Nat] /\ s.bytes \in Nat
  BY DEF StoreOK, Stores
<1>2. e.tenant \in Owners /\ e.bytes \in Nat /\ IdOf[e] = e.id /\ Weight[e] = e.bytes
  BY ResponseFields
<1>3. d = [entries |-> r, bytes |-> s.bytes + e.bytes, counts |-> cs, bytesOf |-> bs]
  BY DEF Inserted
<1>4. /\ r \in Seq(Response) /\ Len(r) = Len(s.entries) + 1 /\ r[Len(s.entries) + 1] = e
      /\ \A i \in 1 .. Len(s.entries) : r[i] = s.entries[i]
  BY <1>1
<1>5. BytesIn(r) = s.bytes + e.bytes
  BY <1>1, <1>2, WeightType, TotalAppend DEF BytesIn, Weight
<1>6. Apart(r, IdOf)
  <2>1. \A i \in 1 .. Len(s.entries) : IdOf[s.entries[i]] # e.id
    <3> SUFFICES ASSUME NEW i \in 1 .. Len(s.entries) PROVE IdOf[s.entries[i]] # e.id
      OBVIOUS
    <3>1. s.entries[i] \in Response /\ s.entries[i] \in AllOf(s.entries)
      BY <1>1 DEF AllOf
    <3>2. s.entries[i].id \in Known(s)
      BY <3>1 DEF Known
    <3> QED BY <3>1, <3>2, ResponseFields
  <2>2. Len(s.entries) \in Nat
    BY <1>1
  <2> SUFFICES ASSUME NEW i \in 1 .. Len(r), NEW j \in 1 .. Len(r), IdOf[r[i]] = IdOf[r[j]] PROVE i = j
    BY DEF Apart
  <2> HIDE DEF r
  <2>3. i = Len(s.entries) + 1 \/ i \in 1 .. Len(s.entries)
    BY <1>4, <2>2
  <2>4. j = Len(s.entries) + 1 \/ j \in 1 .. Len(s.entries)
    BY <1>4, <2>2
  <2>5. CASE i \in 1 .. Len(s.entries) /\ j \in 1 .. Len(s.entries)
    BY <1>1, <1>4, <2>5 DEF Apart
  <2> QED BY <1>2, <1>4, <2>1, <2>3, <2>4, <2>5
<1>7. ASSUME NEW t \in Owners
      PROVE  /\ OfTenants(r, {t}) = IF e.tenant = t THEN Append(OfTenants(s.entries, {t}), e)
                                    ELSE OfTenants(s.entries, {t})
             /\ OfTenants(s.entries, {t}) \in Seq(Response)
             /\ Len(OfTenants(s.entries, {t})) \in Nat /\ BytesIn(OfTenants(s.entries, {t})) \in Nat
  <2> DEFINE T == {x \in Response : x.tenant \in {t}}
  <2>1. e \in T <=> e.tenant = t
    OBVIOUS
  <2> HIDE DEF T
  <2>2. OnlyOf(r, T) = IF e \in T THEN Append(OnlyOf(s.entries, T), e) ELSE OnlyOf(s.entries, T)
    BY <1>1, OnlyOfAppend
  <2>3. OnlyOf(s.entries, T) \in Seq(Response)
    BY <1>1, OnlyOfIn
  <2>4. Len(OnlyOf(s.entries, T)) \in Nat /\ BytesIn(OnlyOf(s.entries, T)) \in Nat
    BY <2>3, BytesOfFew
  <2> QED BY <2>1, <2>2, <2>3, <2>4 DEF OfTenants, T
<1> HIDE DEF r
<1>8. cs \in [Owners -> Nat] /\ bs \in [Owners -> Nat] /\ s.bytes + e.bytes \in Nat
  BY <1>1, <1>2
<1>9. ASSUME NEW t \in Owners
      PROVE  bs[t] = BytesIn(OfTenants(r, {t})) /\ cs[t] = Len(OfTenants(r, {t}))
  <2> DEFINE q == OfTenants(s.entries, {t})
  <2>1. s.bytesOf[t] = BytesIn(q) /\ s.counts[t] = Len(q)
    BY DEF StoreOK
  <2>2. q \in Seq(Response) /\ OfTenants(r, {t}) = IF e.tenant = t THEN Append(q, e) ELSE q
    BY <1>7
  <2> HIDE DEF q
  <2>3. Len(Append(q, e)) = Len(q) + 1
    BY <2>2
  <2>4. BytesIn(Append(q, e)) = BytesIn(q) + e.bytes
    BY <1>2, <2>2, WeightType, TotalAppend DEF BytesIn, Weight
  <2>5. CASE e.tenant = t
    BY <1>1, <1>2, <2>1, <2>2, <2>3, <2>4, <2>5
  <2>6. CASE e.tenant # t
    BY <1>1, <1>2, <2>1, <2>2, <2>6
  <2> QED BY <2>5, <2>6
<1>10. d \in Stores
  BY <1>3, <1>4, <1>8 DEF Stores
<1>11. d.entries = r /\ d.bytes = s.bytes + e.bytes /\ d.counts = cs /\ d.bytesOf = bs
  BY <1>3
<1> HIDE DEF d, cs, bs
<1>12. StoreOK(d)
  BY <1>5, <1>6, <1>9, <1>10, <1>11 DEF StoreOK
<1>13. AllOf(r) = AllOf(s.entries) \cup {e}
  <2>1. PICK k \in Nat : k = Len(s.entries)
    BY <1>1
  <2>2. DOMAIN r = 1 .. (k + 1) /\ DOMAIN s.entries = 1 .. k
    BY <1>1, <1>4, <2>1
  <2>3. 1 .. (k + 1) = (1 .. k) \cup {k + 1}
    BY <2>1
  <2> QED BY <1>4, <2>1, <2>2, <2>3 DEF AllOf
<1> QED BY <1>4, <1>11, <1>12, <1>13 DEF d

\* Every tenant has what it had, or less.
LEMMA SharesFall ==
  ASSUME NEW s, StoreOK(s), NEW id \in Known(s), NEW t \in Owners
  PROVE  /\ Dropped(s, id).counts[t] \in Nat /\ s.counts[t] \in Nat
         /\ Dropped(s, id).counts[t] = IF EntryOf(s, id).tenant = t THEN s.counts[t] - 1 ELSE s.counts[t]
         /\ Dropped(s, id).bytesOf[t] \in Nat /\ s.bytesOf[t] \in Nat
         /\ Dropped(s, id).bytesOf[t] = IF EntryOf(s, id).tenant = t
                                        THEN s.bytesOf[t] - EntryOf(s, id).bytes ELSE s.bytesOf[t]
         /\ Dropped(s, id).bytesOf[t] <= s.bytesOf[t]
<1> DEFINE d == Dropped(s, id)
           e == EntryOf(s, id)
           r == OfTenants(d.entries, {t})
           q == OfTenants(s.entries, {t})
<1>1. StoreOK(d) /\ d.entries = OnlyOf(s.entries, {x \in Response : x.id # e.id})
  <2>1. StoreOK(d)
    BY DroppedOK
  <2>2. e.id = id
    BY EntryIs
  <2>3. d.entries = AllBut(s, id)
    BY DEF Dropped
  <2> HIDE DEF d, e
  <2> QED BY <2>1, <2>2, <2>3 DEF AllBut
<1>2. e \in AllOf(s.entries) /\ e \in Response /\ e.bytes \in Nat
  BY EntryIs, ResponseFields
<1>3. s.entries \in Seq(Response) /\ Apart(s.entries, IdOf) /\ d.entries \in Seq(Response)
  <2> HIDE DEF d
  <2> QED BY <1>1 DEF StoreOK, Stores
<1>4. q \in Seq(Response) /\ r \in Seq(Response)
  <2> HIDE DEF d
  <2> QED BY <1>3, OnlyOfIn DEF OfTenants
<1>5. /\ t = e.tenant => Len(r) + 1 = Len(q) /\ BytesIn(r) + e.bytes = BytesIn(q)
      /\ t # e.tenant => r = q
  <2> DEFINE m == OnlyOf(s.entries, {x \in Response : x.id # e.id})
  <2> HIDE DEF d, e
  <2>1. /\ t = e.tenant => /\ Len(OfTenants(m, {t})) + 1 = Len(q)
                           /\ BytesIn(OfTenants(m, {t})) + e.bytes = BytesIn(q)
        /\ t # e.tenant => OfTenants(m, {t}) = q
    BY <1>2, <1>3, TenantRemoved
  <2>2. d.entries = m
    BY <1>1
  <2> HIDE DEF m
  <2> QED BY <2>1, <2>2
<1>6. /\ d.counts[t] = Len(r) /\ d.bytesOf[t] = BytesIn(r)
      /\ s.counts[t] = Len(q) /\ s.bytesOf[t] = BytesIn(q)
  <2> HIDE DEF d
  <2> QED BY <1>1 DEF StoreOK
<1> HIDE DEF d, e, r, q
<1>7. Len(r) \in Nat /\ Len(q) \in Nat /\ BytesIn(r) \in Nat /\ BytesIn(q) \in Nat
  BY <1>4, BytesOfFew
<1>8. PICK a \in Nat, b \in Nat : a = BytesIn(r) /\ b = BytesIn(q)
  BY <1>7
<1>9. a <= b
  BY <1>2, <1>5, <1>8
<1>10. d.counts[t] = IF e.tenant = t THEN s.counts[t] - 1 ELSE s.counts[t]
  BY <1>5, <1>6, <1>7
<1>11. d.bytesOf[t] = IF e.tenant = t THEN s.bytesOf[t] - e.bytes ELSE s.bytesOf[t]
  BY <1>2, <1>5, <1>6, <1>8
<1> QED BY <1>6, <1>7, <1>8, <1>9, <1>10, <1>11 DEF d, e

\* The tenants that hold something are finitely many.
LEMMA KeepersFinite ==
  ASSUME NEW s
  PROVE  IsFiniteSet(Keepers(s)) /\ Cardinality(Keepers(s)) \in Nat
<1>1. Keepers(s) \in SUBSET Owners
  BY DEF Keepers
<1> QED BY <1>1, StoreAssumption, FS_Subset, FS_CardinalityType

\* Who is within its share stays within it when an entry is dropped.
LEMMA ShareKept ==
  ASSUME NEW s, StoreOK(s), NEW id \in Known(s), NEW t \in Owners, ~OverShare(s, t)
  PROVE  ~OverShare(Dropped(s, id), t)
<1> DEFINE d == Dropped(s, id)
<1>1. \A p \in Owners : d.counts[p] \in Nat /\ s.counts[p] \in Nat /\ d.counts[p] <= s.counts[p]
  BY SharesFall
<1>2. d.bytesOf[t] \in Nat /\ s.bytesOf[t] \in Nat /\ d.bytesOf[t] <= s.bytesOf[t]
  BY SharesFall
<1> HIDE DEF d
<1>3. Keepers(d) \in SUBSET Keepers(s)
  BY <1>1 DEF Keepers
<1>4. /\ Cardinality(Keepers(d)) \in Nat /\ Cardinality(Keepers(s)) \in Nat
      /\ Cardinality(Keepers(d)) <= Cardinality(Keepers(s))
  BY <1>3, KeepersFinite, FS_Subset
<1>5. PICK a \in Nat, b \in Nat, m \in Nat, n \in Nat :
         /\ a = d.bytesOf[t] /\ b = s.bytesOf[t]
         /\ m = Cardinality(Keepers(d)) /\ n = Cardinality(Keepers(s))
  BY <1>2, <1>4
<1>6. a <= b /\ m <= n
  BY <1>2, <1>4, <1>5
<1>7. a * m <= b * n
  <2>1. a * m <= b * m
    BY <1>6
  <2>2. b * m <= b * n
    BY <1>6
  <2> QED BY <2>1, <2>2
<1>8. StoreMaxBytes \in Nat /\ a * m \in Nat /\ b * n \in Nat
  BY StoreAssumption
<1>9. MinTenantBytes \in Int
  BY StoreAssumption
<1>10. ~(b > MinTenantBytes /\ b * n > StoreMaxBytes)
  BY <1>5 DEF OverShare
<1>11. ~(a > MinTenantBytes /\ a * m > StoreMaxBytes)
  BY <1>6, <1>7, <1>8, <1>9, <1>10
<1> QED BY <1>5, <1>11 DEF OverShare, d

\* The oldest of those who may go.
LEMMA OldestIs ==
  ASSUME NEW s, StoreOK(s), NEW T, NEW id, Candidates(s, T, id) # <<>>
  PROVE  /\ OldestId(s, T, id) \in Known(s) /\ OldestId(s, T, id) # id
         /\ \E e \in AllOf(s.entries) : e.id = OldestId(s, T, id) /\ e.tenant \in T
<1> DEFINE U == {e \in Response : e.tenant \in T /\ e.id # id}
           c == OnlyOf(s.entries, U)
<1>1. s.entries \in Seq(Response) /\ c = Candidates(s, T, id)
  BY DEF StoreOK, Stores, Candidates
<1>2. c \in Seq(Response) /\ AllOf(c) = AllOf(s.entries) \cap U
  <2> HIDE DEF U
  <2> QED BY <1>1, OnlyOfIn, AllOfKept
<1> HIDE DEF c
<1>3. c[1] \in AllOf(c)
  <2>1. Len(c) \in Nat /\ Len(c) # 0
    BY <1>1, <1>2
  <2>2. 1 \in DOMAIN c
    BY <1>2, <2>1
  <2> QED BY <2>2 DEF AllOf
<1>4. c[1] \in AllOf(s.entries) /\ c[1].tenant \in T /\ c[1].id # id
  BY <1>2, <1>3
<1> QED BY <1>1, <1>4 DEF OldestId, Known

\* Some entry may go where there are two, whichever is protected.
LEMMA SomeMayGo ==
  ASSUME NEW s, StoreOK(s), NEW id, Len(s.entries) > 1 \/ (Len(s.entries) > 0 /\ id = NoId)
  PROVE  Candidates(s, Owners, id) # <<>>
<1> DEFINE U == {e \in Response : e.tenant \in Owners /\ e.id # id}
           c == OnlyOf(s.entries, U)
<1>1. s.entries \in Seq(Response) /\ Apart(s.entries, IdOf) /\ c = Candidates(s, Owners, id)
  BY DEF StoreOK, Stores, Candidates
<1>2. \E i \in 1 .. Len(s.entries) : s.entries[i].id # id
  <2>1. \A i \in 1 .. Len(s.entries) : s.entries[i] \in Response
    BY <1>1
  <2>2. CASE Len(s.entries) > 1
    <3>1. 1 \in 1 .. Len(s.entries) /\ 2 \in 1 .. Len(s.entries) /\ 1 # 2
      BY <1>1, <2>2
    <3>2. IdOf[s.entries[1]] # IdOf[s.entries[2]]
      BY <1>1, <3>1 DEF Apart
    <3> QED BY <2>1, <3>1, <3>2, ResponseFields
  <2>3. CASE Len(s.entries) > 0 /\ id = NoId
    <3>1. 1 \in 1 .. Len(s.entries)
      BY <1>1, <2>3
    <3> QED BY <2>1, <2>3, <3>1, ResponseFields
  <2> QED BY <2>2, <2>3
<1>3. PICK i \in 1 .. Len(s.entries) : s.entries[i].id # id
  BY <1>2
<1>4. s.entries[i] \in U
  BY <1>1, <1>3, ResponseFields
<1> HIDE DEF U
<1>5. \E j \in 1 .. Len(c) : c[j] = s.entries[i]
  BY <1>1, <1>4, OnlyOfEntries
<1>6. Len(<<>>) = 0
  OBVIOUS
<1> QED BY <1>1, <1>5, <1>6

\* A store of one entry holds no more than it may.
LEMMA OneFits ==
  ASSUME NEW s, StoreOK(s), Len(s.entries) <= 1
  PROVE  s.bytes <= StoreMaxBytes
<1>1. s.entries \in Seq(Response) /\ s.bytes = BytesIn(s.entries) /\ StoreMaxBytes \in Nat
  BY StoreAssumption DEF StoreOK, Stores
<1>2. CASE Len(s.entries) = 0
  <2>1. s.entries = <<>>
    BY <1>1, <1>2
  <2> QED BY <1>1, <2>1, BytesOfFew
<1>3. CASE Len(s.entries) = 1
  <2>1. s.entries = <<s.entries[1]>> /\ s.entries[1] \in Response
    BY <1>1, <1>3
  <2>2. BytesIn(<<s.entries[1]>>) = s.entries[1].bytes
    BY <2>1, BytesOfFew
  <2> QED BY <1>1, <2>1, <2>2, ResponseFields
<1>4. Len(s.entries) \in Nat
  BY <1>1
<1>5. Len(s.entries) = 0 \/ Len(s.entries) = 1
  <2>1. PICK n \in Nat : n = Len(s.entries)
    BY <1>4
  <2>2. n <= 1
    BY <2>1
  <2>3. n = 0 \/ n = 1
    BY <2>2
  <2> QED BY <2>1, <2>3
<1> QED BY <1>2, <1>3, <1>5

-----------------------------------------------------------------------------
\* A tenant that lost an entry to the writer t, while the table went from s to x,
\* lost it to one that is within its share, or has nothing but what it wrote.
Paid(s, x, t) ==
    (\E y \in AllOf(s.entries) : y \notin AllOf(x.entries) /\ y.tenant # t)
      => ~OverShare(x, t) \/ x.counts[t] = 1

\* What may come of s, just written by t with the entry id, when entries go.
Left(s, id, t) ==
    {x \in Stores : /\ StoreOK(x) /\ AllOf(x.entries) \subseteq AllOf(s.entries) /\ Paid(s, x, t)
                    /\ \E e \in AllOf(x.entries) : e.id = id /\ e.tenant = t}

\* The entry that is written is one of its tenant's, and all of them if that has one.
LEMMA OwnEntry ==
  ASSUME NEW x, StoreOK(x), NEW e \in AllOf(x.entries)
  PROVE  /\ x.counts[e.tenant] \in Nat /\ x.counts[e.tenant] > 0
         /\ Candidates(x, {e.tenant}, e.id) = <<>> => x.counts[e.tenant] = 1
         /\ x.counts[e.tenant] = 1 => Candidates(x, {e.tenant}, e.id) = <<>>
<1> DEFINE t == e.tenant
           q == OfTenants(x.entries, {t})
           U == {y \in Response : y.tenant \in {t}}
           T == {y \in Response : y.id # e.id}
           r == OnlyOf(q, T)
<1>1. x.entries \in Seq(Response) /\ Apart(x.entries, IdOf) /\ e \in Response /\ t \in Owners
  <2>1. x.entries \in Seq(Response) /\ Apart(x.entries, IdOf)
    BY DEF StoreOK, Stores
  <2> QED BY <2>1, ResponseFields DEF AllOf
<1>2. q \in Seq(Response) /\ Apart(q, IdOf) /\ e \in AllOf(q)
  <2>1. e \in U
    BY <1>1
  <2> HIDE DEF U
  <2>2. OnlyOf(x.entries, U) \in Seq(Response) /\ Apart(OnlyOf(x.entries, U), IdOf)
        /\ AllOf(OnlyOf(x.entries, U)) = AllOf(x.entries) \cap U
    BY <1>1, OnlyOfIn, OnlyOfApart, AllOfKept
  <2> QED BY <2>1, <2>2 DEF OfTenants, U
<1>3. x.counts[t] = Len(q)
  BY <1>1 DEF StoreOK
<1>4. Candidates(x, {t}, e.id) = r
  <2>1. {y \in Response : y.tenant \in {t} /\ y.id # e.id} = U \cap T
    OBVIOUS
  <2>2. OnlyOf(OnlyOf(x.entries, U), T) = OnlyOf(x.entries, U \cap T)
    <3> HIDE DEF U, T
    <3> QED BY <1>1, OnlyOfTwice
  <2> QED BY <2>1, <2>2 DEF Candidates, OfTenants
<1> HIDE DEF q
<1>5. Len(r) + 1 = Len(q) /\ r \in Seq(Response)
  <2>1. Len(r) + 1 = Len(q)
    BY <1>2, OneRemoved
  <2>2. r \in Seq(Response)
    <3> HIDE DEF T
    <3> QED BY <1>2, OnlyOfIn
  <2> QED BY <2>1, <2>2
<1> HIDE DEF r, t
<1>6. Len(q) \in Nat /\ Len(r) \in Nat /\ (r = <<>> <=> Len(r) = 0)
  BY <1>2, <1>5
<1> QED BY <1>3, <1>4, <1>5, <1>6 DEF t

\* Relief drops an entry of the table, and not the one just written; it ends when
\* the bytes fit.
LEMMA RelievedLeft ==
  ASSUME NEW s, NEW id, NEW t \in Owners, NEW x \in Left(s, id, t)
  PROVE  /\ Relieved(x, id, t) \in Left(s, id, t)
         /\ x.bytes <= StoreMaxBytes => Relieved(x, id, t) = x
         /\ x.bytes > StoreMaxBytes => Len(Relieved(x, id, t).entries) + 1 = Len(x.entries)
<1>1. StoreOK(x) /\ AllOf(x.entries) \subseteq AllOf(s.entries) /\ Paid(s, x, t) /\ x \in Stores
      /\ x.bytes \in Nat /\ StoreMaxBytes \in Nat /\ Len(x.entries) \in Nat
  BY StoreAssumption DEF Left, Stores
<1>2. PICK own \in AllOf(x.entries) : own.id = id /\ own.tenant = t
  BY DEF Left
<1>3. CASE x.bytes <= StoreMaxBytes
  <2>1. Relieved(x, id, t) = x
    BY <1>1, <1>3 DEF Relieved
  <2> QED BY <1>1, <1>3, <2>1
<1>4. CASE x.bytes > StoreMaxBytes
  <2>1. Len(x.entries) > 1
    BY <1>1, <1>4, OneFits
  <2> DEFINE T == IF OverShare(x, t) /\ Candidates(x, {t}, id) # <<>> THEN {t} ELSE Owners
             v == ByteVictim(x, id, t)
             d == Dropped(x, v)
  <2>2. v = OldestId(x, T, id) /\ Candidates(x, T, id) # <<>>
    BY <1>1, <2>1, SomeMayGo DEF ByteVictim
  <2>3. Relieved(x, id, t) = d
    BY <1>4, <2>1 DEF Relieved
  <2> HIDE DEF v
  <2>4. v \in Known(x) /\ v # id /\ \E e \in AllOf(x.entries) : e.id = v /\ e.tenant \in T
    <3> HIDE DEF T
    <3> QED BY <1>1, <2>2, OldestIs
  <2>5. /\ StoreOK(d) /\ Len(d.entries) + 1 = Len(x.entries)
        /\ AllOf(d.entries) = AllOf(x.entries) \ {EntryOf(x, v)}
    BY <1>1, <2>4, DroppedOK
  <2>6. EntryOf(x, v) \in AllOf(x.entries) /\ EntryOf(x, v).id = v
    BY <1>1, <2>4, EntryIs
  <2>7. own \in AllOf(d.entries)
    BY <1>2, <2>4, <2>5, <2>6
  <2>8. EntryOf(x, v).tenant \in T
    <3>1. PICK e \in AllOf(x.entries) : e.id = v /\ e.tenant \in T
      BY <2>4
    <3>2. e \in Response /\ EntryOf(x, v) \in Response
      BY <1>1, <2>6, <3>1 DEF AllOf, Stores
    <3>3. e = EntryOf(x, v)
      <4>1. PICK i \in 1 .. Len(x.entries), j \in 1 .. Len(x.entries) :
               e = x.entries[i] /\ EntryOf(x, v) = x.entries[j]
        BY <1>1, <2>6, <3>1 DEF AllOf, Stores
      <4>2. IdOf[x.entries[i]] = IdOf[x.entries[j]]
        BY <2>6, <3>1, <3>2, <4>1, ResponseFields
      <4> QED BY <1>1, <4>1, <4>2 DEF StoreOK, Apart
    <3> QED BY <3>1, <3>3
  <2>9. d.counts[t] = (IF EntryOf(x, v).tenant = t THEN x.counts[t] - 1 ELSE x.counts[t])
    BY <1>1, <2>4, SharesFall
  <2>10. ~OverShare(x, t) => ~OverShare(d, t)
    BY <1>1, <2>4, ShareKept
  <2> DEFINE e == EntryOf(x, v)
  <2> HIDE DEF d, e
  <2>11. Paid(s, d, t)
    <3> SUFFICES ASSUME NEW y \in AllOf(s.entries), y \notin AllOf(d.entries), y.tenant # t
                 PROVE  ~OverShare(d, t) \/ d.counts[t] = 1
      BY DEF Paid
    <3>1. CASE e.tenant = t
      <4>1. y \notin AllOf(x.entries)
        BY <2>5, <3>1 DEF e
      <4>2. ~OverShare(x, t) \/ x.counts[t] = 1
        BY <1>1, <4>1 DEF Paid
      <4>3. x.counts[t] # 1
        <5>1. d.counts[t] \in Nat /\ d.counts[t] > 0
          BY <1>2, <2>5, <2>7, OwnEntry
        <5>2. x.counts[t] \in Nat /\ d.counts[t] = x.counts[t] - 1
          BY <1>1, <1>2, <2>9, <3>1, OwnEntry DEF e
        <5> QED BY <5>1, <5>2
      <4> QED BY <2>10, <4>2, <4>3
    <3>2. CASE e.tenant # t
      <4>1. ~(OverShare(x, t) /\ Candidates(x, {t}, id) # <<>>)
        BY <2>8, <3>2 DEF e
      <4>2. Candidates(x, {t}, id) = <<>> => x.counts[t] = 1
        BY <1>1, <1>2, OwnEntry
      <4>3. d.counts[t] = x.counts[t]
        BY <2>9, <3>2 DEF e
      <4> QED BY <2>10, <4>1, <4>2, <4>3
    <3> QED BY <3>1, <3>2
  <2>12. d \in Left(s, id, t)
    <3>1. d \in Stores /\ AllOf(d.entries) \subseteq AllOf(s.entries)
      BY <1>1, <2>5 DEF StoreOK
    <3> QED BY <1>2, <2>5, <2>7, <2>11, <3>1 DEF Left
  <2> QED BY <1>1, <1>4, <2>3, <2>5, <2>12
<1> QED BY <1>1, <1>3, <1>4

\* What is left after each round of the loop.
BudgetRun(f, s, id, t) ==
    /\ f[Len(s.entries)] = Budgeted(s, id, t) /\ f[0] = s
    /\ \A i \in 0 .. Len(s.entries) : f[i] \in Left(s, id, t)
    /\ \A i \in 1 .. Len(s.entries) : f[i] = Relieved(f[i - 1], id, t)

\* Budgeted is the last of the stores that its recursion goes through.
LEMMA BudgetRuns ==
  ASSUME NEW s, NEW id, NEW t \in Owners, s \in Left(s, id, t)
  PROVE  \E f : BudgetRun(f, s, id, t)
<1> DEFINE V == Left(s, id, t)
           n == Len(s.entries)
           step == [p \in V \X (1 .. n) |-> Relieved(p[1], id, t)]
           Is(f) == f = [i \in 0 .. n |-> IF i = 0 THEN s ELSE Relieved(f[i - 1], id, t)]
<1>1. s \in V /\ n \in Nat
  <2>1. s.entries \in Seq(Response)
    BY DEF Left, Stores
  <2> QED BY <2>1
<1>2. \A v \in V : Relieved(v, id, t) \in V
  BY RelievedLeft
<1> HIDE DEF V, n
<1>3. \A v \in V, i \in 1 .. n : step[<<v, i>>] = Relieved(v, id, t)
  OBVIOUS
<1>4. step \in [V \X (1 .. n) -> V]
  <2>1. \A p \in V \X (1 .. n) : Relieved(p[1], id, t) \in V
    BY <1>2
  <2> QED BY <2>1
<1> HIDE DEF step
<1>5. PICK f : f \in [0 .. n -> V] /\ Steps(f, s, step, n)
  BY <1>1, <1>4, Recursion
<1>6. f[0] = s /\ \A i \in 1 .. n : f[i] = step[<<f[i - 1], i>>]
  <2>1. 0 \in 0 .. n /\ \A i \in 1 .. n : i \in 0 .. n /\ i # 0
    BY <1>1
  <2> QED BY <1>5, <2>1 DEF Steps
<1>7. \A i \in 1 .. n : f[i] = Relieved(f[i - 1], id, t)
  <2> SUFFICES ASSUME NEW i \in 1 .. n PROVE f[i] = Relieved(f[i - 1], id, t)
    OBVIOUS
  <2>1. i - 1 \in 0 .. n
    BY <1>1
  <2>2. f[i - 1] \in V
    BY <1>5, <2>1
  <2> QED BY <1>3, <1>6, <2>2
<1>8. Is(f)
  <2>1. \A i \in 0 .. n : i # 0 => i \in 1 .. n
    BY <1>1
  <2> QED BY <1>5, <1>6, <1>7, <2>1
<1>9. ASSUME NEW g, Is(g) PROVE g[n] = f[n]
  <2>1. 0 \in 0 .. n /\ \A i \in 1 .. n : i \in 0 .. n /\ i # 0
    BY <1>1
  <2>2. g[0] = s
    BY <1>9, <2>1
  <2>3. \A i \in 1 .. n : g[i] = Relieved(g[i - 1], id, t)
    BY <1>9, <2>1
  <2>4. \A i \in 1 .. n : g[i - 1] \in V => g[i] = step[<<g[i - 1], i>>]
    BY <1>3, <2>3
  <2> HIDE DEF Is
  <2>5. Follows(g, s, V, step, n)
    BY <2>2, <2>4 DEF Follows
  <2>6. BothRun(f, g, s, V, step, n)
    BY <1>1, <1>4, <1>5, <2>5 DEF BothRun
  <2> QED BY <2>6, OneResult
<1>10. Is(CHOOSE g : Is(g))
  BY <1>8
<1>11. Budgeted(s, id, t) = (CHOOSE g : Is(g))[n]
  BY DEF Budgeted, n
<1> HIDE DEF Is
<1>12. f[n] = Budgeted(s, id, t)
  BY <1>9, <1>10, <1>11
<1>13. \A i \in 0 .. n : f[i] \in V
  BY <1>5
<1> QED BY <1>6, <1>7, <1>12, <1>13 DEF n, V, BudgetRun

\* The loop ends with bytes that fit, and the entry that was written; the clause for
\* a write that cannot be fitted is never reached.
LEMMA BudgetedFits ==
  ASSUME NEW s, NEW id, NEW t \in Owners, s \in Left(s, id, t)
  PROVE  /\ Budgeted(s, id, t) \in Left(s, id, t)
         /\ Budgeted(s, id, t).bytes <= StoreMaxBytes
         /\ Len(Budgeted(s, id, t).entries) <= Len(s.entries)
<1> DEFINE n == Len(s.entries)
<1>1. PICK f : BudgetRun(f, s, id, t)
  BY BudgetRuns
<1>2. /\ n \in Nat /\ f[n] = Budgeted(s, id, t) /\ f[0] = s
      /\ \A i \in 0 .. n : f[i] \in Left(s, id, t)
      /\ \A i \in 1 .. n : f[i] = Relieved(f[i - 1], id, t)
  <2>1. s.entries \in Seq(Response)
    BY DEF Left, Stores
  <2> QED BY <1>1, <2>1 DEF BudgetRun
<1>a. Len(f[0].entries) = n
  BY <1>2
<1> HIDE DEF n
<1>3. \A i \in 0 .. n : Len(f[i].entries) \in Nat /\ f[i].bytes \in Nat
  <2> SUFFICES ASSUME NEW i \in 0 .. n
               PROVE Len(f[i].entries) \in Nat /\ f[i].bytes \in Nat
    OBVIOUS
  <2>1. f[i] \in Stores
    <3>1. f[i] \in Left(s, id, t) BY <1>2
    <3> QED BY <3>1 DEF Left
  <2>2. f[i].entries \in Seq(Response) /\ f[i].bytes \in Nat
    BY <2>1 DEF Stores
  <2> QED BY <2>2
<1>4. StoreMaxBytes \in Nat
  BY StoreAssumption
<1> DEFINE Good(m) == /\ Len(f[m].entries) <= n
                      /\ f[m].bytes <= StoreMaxBytes \/ Len(f[m].entries) + m <= n
           N == {m \in Nat : m <= n => Good(m)}
<1>5. 0 \in N
  BY <1>2, <1>a
<1>6. ASSUME NEW m \in Nat, m \in N PROVE m + 1 \in N
  <2> HIDE DEF Good
  <2> SUFFICES ASSUME m + 1 <= n PROVE Good(m + 1)
    OBVIOUS
  <2> USE DEF Good
  <2>1. PICK k : k = m + 1 /\ k \in 1 .. n /\ k - 1 = m /\ k \in 0 .. n /\ m \in 0 .. n
    BY <1>2
  <2>2. f[k] = Relieved(f[m], id, t) /\ f[m] \in Left(s, id, t)
    BY <1>2, <2>1
  <2>3. Len(f[m].entries) <= n /\ (f[m].bytes <= StoreMaxBytes \/ Len(f[m].entries) + m <= n)
    BY <1>2, <1>6
  <2>4. /\ f[m].bytes <= StoreMaxBytes => f[k] = f[m]
        /\ f[m].bytes > StoreMaxBytes => Len(f[k].entries) + 1 = Len(f[m].entries)
    BY <2>2, RelievedLeft
  <2>5. PICK a \in Nat, b \in Nat, c \in Nat :
           a = Len(f[m].entries) /\ b = Len(f[k].entries) /\ c = f[m].bytes
    BY <1>3, <2>1
  <2>6. CASE c <= StoreMaxBytes
    BY <2>1, <2>3, <2>4, <2>5, <2>6
  <2>7. CASE c > StoreMaxBytes
    <3>1. b + 1 = a /\ a <= n /\ a + m <= n
      BY <1>4, <2>3, <2>4, <2>5, <2>7
    <3>2. b <= n /\ b + k <= n
      BY <1>2, <2>1, <3>1
    <3> QED BY <2>1, <2>5, <3>2
  <2>8. c <= StoreMaxBytes \/ c > StoreMaxBytes
    BY <1>4
  <2> QED BY <2>6, <2>7, <2>8
<1> HIDE DEF N
<1>7. n \in N
  BY <1>2, <1>5, <1>6, NatSetInduction
<1>8. Len(f[n].entries) <= n /\ (f[n].bytes <= StoreMaxBytes \/ Len(f[n].entries) + n <= n)
  <2>1. n <= n
    BY <1>2
  <2> QED BY <1>7, <2>1 DEF N
<1>9. f[n].bytes <= StoreMaxBytes
  <2>1. n \in 0 .. n
    BY <1>2
  <2>2. StoreOK(f[n]) /\ Len(f[n].entries) \in Nat
    BY <1>2, <1>3, <2>1 DEF Left
  <2>3. PICK a \in Nat : a = Len(f[n].entries)
    BY <2>2
  <2>4. a + n <= n => a <= 1
    BY <1>2, <2>3
  <2> QED BY <1>8, <2>2, <2>3, <2>4, OneFits
<1>10. f[n] \in Left(s, id, t)
  BY <1>2
<1> QED BY <1>2, <1>8, <1>9, <1>10 DEF n

-----------------------------------------------------------------------------
\* An entry of a full table makes room.
LEMMA RoomMade ==
  ASSUME NEW s, StoreOK(s), NEW t \in Owners, Len(s.entries) >= StoreMax
  PROVE  CountVictim(s, t) \in Known(s)
<1> DEFINE k == Cardinality(Keepers(s))
           share == IF StoreMax \div k > 1 THEN StoreMax \div k ELSE 1
           T == IF s.counts[t] >= share THEN {t} ELSE Owners
<1>1. s.entries \in Seq(Response) /\ StoreMax \in Nat \ {0} /\ s.counts \in [Owners -> Nat]
  BY StoreAssumption DEF StoreOK, Stores
<1>2. Len(s.entries) > 0
  BY <1>1
<1>3. k \in Nat \ {0}
  <2>1. 1 \in DOMAIN s.entries
    BY <1>1, <1>2
  <2>2. s.entries[1] \in AllOf(s.entries) /\ s.entries[1].tenant \in Owners
    BY <1>1, <2>1, ResponseFields DEF AllOf
  <2>3. s.entries[1].tenant \in Keepers(s)
    BY <2>2, OwnEntry DEF Keepers
  <2> QED BY <2>3, KeepersFinite, FS_EmptySet
<1>4. share \in Nat \ {0}
  <2> HIDE DEF k
  <2>1. StoreMax \div k \in Int
    BY <1>1, <1>3
  <2> QED BY <2>1
<1> HIDE DEF share
<1>5. Candidates(s, T, NoId) # <<>>
  <2>1. CASE s.counts[t] >= share
    <3> DEFINE q == OfTenants(s.entries, {t})
    <3>1. s.counts[t] = Len(q) /\ s.counts[t] \in Nat
      BY <1>1 DEF StoreOK
    <3>2. q = Candidates(s, {t}, NoId)
      <4>1. {e \in Response : e.tenant \in {t}} = {e \in Response : e.tenant \in {t} /\ e.id # NoId}
        BY ResponseFields
      <4> QED BY <4>1 DEF OfTenants, Candidates
    <3> HIDE DEF q
    <3>3. Len(q) # 0
      BY <1>4, <2>1, <3>1
    <3>4. Len(<<>>) = 0
      OBVIOUS
    <3> QED BY <2>1, <3>2, <3>3, <3>4
  <2>2. CASE ~(s.counts[t] >= share)
    BY <1>2, <2>2, SomeMayGo
  <2> QED BY <2>1, <2>2
<1>6. CountVictim(s, t) = OldestId(s, T, NoId)
  BY DEF CountVictim, share
<1> HIDE DEF T
<1> QED BY <1>5, <1>6, OldestIs

\* A put leaves exact ledgers, both limits, and the entry; an entry that went for
\* its bytes was paid for by the writer.
LEMMA StoredOK ==
  ASSUME NEW s, StoreOK(s), Len(s.entries) <= StoreMax, NEW e \in Response, e.id \notin Known(s)
  PROVE  /\ StoreOK(Stored(s, e)) /\ Stored(s, e).bytes <= StoreMaxBytes
         /\ Len(Stored(s, e).entries) <= StoreMax
         /\ Len(s.entries) < StoreMax => Stored(s, e) \in Left(Inserted(s, e), e.id, e.tenant)
<1> DEFINE full == Len(s.entries) >= StoreMax
           v == CountVictim(s, e.tenant)
           room == IF full THEN Dropped(s, v) ELSE s
           x == Inserted(room, e)
<1>1. Len(s.entries) \in Nat /\ StoreMax \in Nat /\ e.tenant \in Owners
  BY StoreAssumption, ResponseFields DEF StoreOK, Stores
<1>2. /\ StoreOK(room) /\ e.id \notin Known(room)
      /\ Len(room.entries) \in Nat /\ Len(room.entries) + 1 <= StoreMax
  <2>1. CASE full
    <3>1. v \in Known(s)
      BY <1>1, <2>1, RoomMade
    <3> HIDE DEF v
    <3>2. /\ StoreOK(Dropped(s, v)) /\ Len(Dropped(s, v).entries) + 1 = Len(s.entries)
          /\ Known(Dropped(s, v)) = Known(s) \ {v}
      BY <3>1, DroppedOK, DroppedKnown
    <3>3. Len(Dropped(s, v).entries) \in Nat
      BY <3>2 DEF StoreOK, Stores
    <3> QED BY <1>1, <2>1, <3>2, <3>3
  <2>2. CASE ~full
    BY <1>1, <2>2
  <2> QED BY <2>1, <2>2
<1> HIDE DEF room
<1>3. StoreOK(x) /\ Len(x.entries) = Len(room.entries) + 1
  BY <1>2, InsertedOK
<1>4. e \in AllOf(x.entries)
  BY <1>2, InsertedOK
<1> HIDE DEF x
<1>5. x \in Left(x, e.id, e.tenant)
  <2>1. x \in Stores
    BY <1>3 DEF StoreOK
  <2>2. Paid(x, x, e.tenant)
    BY DEF Paid
  <2> QED BY <1>3, <1>4, <2>1, <2>2 DEF Left
<1>6. /\ Budgeted(x, e.id, e.tenant) \in Left(x, e.id, e.tenant)
      /\ Budgeted(x, e.id, e.tenant).bytes <= StoreMaxBytes
      /\ Len(Budgeted(x, e.id, e.tenant).entries) <= Len(x.entries)
  BY <1>1, <1>5, BudgetedFits
<1>7. Stored(s, e) = Budgeted(x, e.id, e.tenant)
  BY DEF Stored, x, room
<1> DEFINE b == Budgeted(x, e.id, e.tenant)
<1> HIDE DEF b
<1>8. StoreOK(b) /\ Len(b.entries) \in Nat
  BY <1>6 DEF Left, b, Stores
<1>9. Len(b.entries) <= StoreMax
  BY <1>1, <1>2, <1>3, <1>6, <1>8 DEF b
<1>10. Len(s.entries) < StoreMax => x = Inserted(s, e)
  BY <1>1 DEF x, room
<1> QED BY <1>6, <1>7, <1>8, <1>9, <1>10 DEF b

\* There is an id that is free: there is one more than entries.
LEMMA FreshIsFree ==
  ASSUME StoreInv
  PROVE  FreshId \in Ids /\ FreshId \notin Known(store)
<1> DEFINE F == Ids \ Known(store)
           n == Len(store.entries)
<1>1. /\ store.entries \in Seq(Response) /\ n \in Nat /\ n <= StoreMax
      /\ StoreMax \in Nat
  BY StoreAssumption DEF StoreInv, StoreOK, Stores
<1>2. F # {}
  <2> SUFFICES ASSUME F = {} PROVE FALSE
    OBVIOUS
  <2> DEFINE at == [id \in Ids |-> CHOOSE i \in 1 .. n : store.entries[i].id = id]
  <2>1. ASSUME NEW id \in Ids PROVE at[id] \in 1 .. n /\ store.entries[at[id]].id = id
    <3>1. id \in Known(store)
      OBVIOUS
    <3>2. PICK e \in AllOf(store.entries) : e.id = id
      BY <3>1 DEF Known
    <3>3. \E i \in 1 .. n : store.entries[i].id = id
      BY <1>1, <3>2 DEF AllOf
    <3> QED BY <3>3
  <2>2. at \in [Ids -> 1 .. n]
    <3>1. \A id \in Ids : at[id] \in 1 .. n
      BY <2>1
    <3> QED BY <3>1
  <2> HIDE DEF at, n
  <2>3. IsFiniteSet(Ids) /\ Cardinality(Ids) = StoreMax + 1
    <3>1. 1 \in Int /\ StoreMax + 1 \in Int /\ ~(1 > StoreMax + 1)
      BY <1>1
    <3>2. IsFiniteSet(1 .. StoreMax + 1) /\ Cardinality(1 .. StoreMax + 1) = (StoreMax + 1) - 1 + 1
      BY <3>1, FS_Interval
    <3> QED BY <1>1, <3>2 DEF Ids
  <2>4. IsFiniteSet(1 .. n) /\ Cardinality(1 .. n) <= n /\ Cardinality(1 .. n) \in Nat
    <3>1. 1 \in Int /\ n \in Int
      BY <1>1
    <3>2. IsFiniteSet(1 .. n) /\ Cardinality(1 .. n) = IF 1 > n THEN 0 ELSE n - 1 + 1
      BY <3>1, FS_Interval
    <3> QED BY <1>1, <3>2
  <2>5. Cardinality(1 .. n) < Cardinality(Ids)
    BY <1>1, <2>3, <2>4
  <2> DEFINE places == 1 .. n
  <2> HIDE DEF places
  <2>6. \E a, b \in Ids : a # b /\ at[a] = at[b]
    <3>1. /\ at \in [Ids -> places] /\ IsFiniteSet(Ids) /\ IsFiniteSet(places)
          /\ Cardinality(places) < Cardinality(Ids)
      BY <2>2, <2>3, <2>4, <2>5 DEF places
    <3>2. \E a, b \in Ids : a # b /\ at[a] = at[b]
      BY <3>1, FS_PigeonHole, SMT
    <3> QED BY <3>2
  <2> QED BY <2>1, <2>6
<1>3. F \in SUBSET Nat
  BY <1>1 DEF Ids
<1>4. FreshId = CHOOSE id \in F : \A j \in F : id <= j
  BY DEF FreshId
<1> HIDE DEF F
<1>5. \E x \in F : \A y \in F : x <= y
  BY <1>2, <1>3, LeastOf
<1>6. FreshId \in F
  BY <1>4, <1>5
<1> QED BY <1>6 DEF F

\* A put keeps the invariant.
LEMMA PutKeepsStore ==
  ASSUME StoreInv, NEW t \in Owners, NEW n \in Sizes, Put(t, n)
  PROVE  StoreInv' /\ (Len(Entries) < StoreMax =>
            \E e \in Response : /\ store' \in Left(Inserted(store, e), e.id, e.tenant)
                                /\ e.id \notin Known(store) /\ e.tenant = t)
<1> DEFINE e == [id |-> FreshId, tenant |-> t, bytes |-> n, expired |-> FALSE]
<1>1. e \in Response /\ e.id \notin Known(store) /\ e.id = FreshId /\ e.tenant = t
  BY FreshIsFree DEF Response
<1>2. store' = Stored(store, e)
  BY DEF Put
<1> HIDE DEF e
<1>3. /\ StoreOK(Stored(store, e)) /\ Stored(store, e).bytes <= StoreMaxBytes
      /\ Len(Stored(store, e).entries) <= StoreMax
      /\ Len(store.entries) < StoreMax => Stored(store, e) \in Left(Inserted(store, e), e.id, e.tenant)
  BY <1>1, StoredOK DEF StoreInv
<1> QED BY <1>1, <1>2, <1>3 DEF StoreInv, Entries

-----------------------------------------------------------------------------
\* What a store may come to when entries are dropped, moved or marked.
Shrunk(s) ==
    {x \in Stores : /\ StoreOK(x) /\ Known(x) \subseteq Known(s)
                    /\ x.bytes <= s.bytes /\ Len(x.entries) <= Len(s.entries)}

\* The table of a store is written, and nothing else.
LEMMA TableWritten ==
  ASSUME NEW s \in Stores, NEW c
  PROVE  [s EXCEPT !.entries = c]
           = [entries |-> c, bytes |-> s.bytes, counts |-> s.counts, bytesOf |-> s.bytesOf]
<1>1. s = [entries |-> s.entries, bytes |-> s.bytes, counts |-> s.counts, bytesOf |-> s.bytesOf]
  BY DEF Stores
<1>2. PICK a, b, m, n : a = s.entries /\ b = s.bytes /\ m = s.counts /\ n = s.bytesOf
  OBVIOUS
<1>3. s = [entries |-> a, bytes |-> b, counts |-> m, bytesOf |-> n]
  BY <1>1, <1>2
<1>4. [s EXCEPT !.entries = c] = [entries |-> c, bytes |-> b, counts |-> m, bytesOf |-> n]
  BY <1>3
<1> QED BY <1>2, <1>4

\* An entry is marked as expired.
LEMMA MarkWritten ==
  ASSUME NEW e \in Response
  PROVE  LET m == [e EXCEPT !.expired = TRUE]
         IN  m \in Response /\ m.id = e.id /\ m.tenant = e.tenant /\ m.bytes = e.bytes
BY DEF Response

\* An entry that is read goes to the end: it is dropped and booked again.
LEMMA MovedOK ==
  ASSUME NEW s, StoreOK(s), NEW id \in Known(s)
  PROVE  [s EXCEPT !.entries = Append(AllBut(s, id), EntryOf(s, id))] \in Shrunk(s)
<1> DEFINE e == EntryOf(s, id)
           d == Dropped(s, id)
           i == Inserted(d, e)
           x == [s EXCEPT !.entries = Append(AllBut(s, id), e)]
<1>1. e \in Response /\ e.id = id /\ e.bytes \in Nat /\ e.tenant \in Owners
  BY EntryIs, ResponseFields
<1>2. StoreOK(d) /\ Len(d.entries) + 1 = Len(s.entries) /\ d.bytes + e.bytes = s.bytes
  BY DroppedOK
<1>3. e.id \notin Known(d) /\ Known(d) = Known(s) \ {id}
  BY <1>1, DroppedKnown
<1>4. \A t \in Owners :
         /\ d.counts[t] \in Nat /\ s.counts[t] \in Nat /\ d.bytesOf[t] \in Nat /\ s.bytesOf[t] \in Nat
         /\ d.counts[t] = IF e.tenant = t THEN s.counts[t] - 1 ELSE s.counts[t]
         /\ d.bytesOf[t] = IF e.tenant = t THEN s.bytesOf[t] - e.bytes ELSE s.bytesOf[t]
  BY SharesFall
<1>5. d.entries = AllBut(s, id)
  BY DEF Dropped
<1> HIDE DEF e, d
<1>6. /\ StoreOK(i) /\ Len(i.entries) = Len(d.entries) + 1
      /\ AllOf(i.entries) = AllOf(d.entries) \cup {e}
  BY <1>1, <1>2, <1>3, InsertedOK
<1>7. s \in Stores /\ d \in Stores
  BY <1>2 DEF StoreOK
<1>8. [d.counts EXCEPT ![e.tenant] = @ + 1] = s.counts
  <2>1. d.counts \in [Owners -> Nat] /\ s.counts \in [Owners -> Nat]
    BY <1>7 DEF Stores
  <2>2. \A t \in Owners : [d.counts EXCEPT ![e.tenant] = @ + 1][t] = s.counts[t]
    BY <1>4, <2>1
  <2> QED BY <2>1, <2>2
<1>9. [d.bytesOf EXCEPT ![e.tenant] = @ + e.bytes] = s.bytesOf
  <2>1. d.bytesOf \in [Owners -> Nat] /\ s.bytesOf \in [Owners -> Nat]
    BY <1>7 DEF Stores
  <2>2. \A t \in Owners : [d.bytesOf EXCEPT ![e.tenant] = @ + e.bytes][t] = s.bytesOf[t]
    <3> SUFFICES ASSUME NEW t \in Owners
                 PROVE  [d.bytesOf EXCEPT ![e.tenant] = @ + e.bytes][t] = s.bytesOf[t]
      OBVIOUS
    <3>1. CASE e.tenant = t
      BY <1>1, <1>4, <2>1, <3>1
    <3>2. CASE e.tenant # t
      BY <1>1, <1>4, <2>1, <3>2
    <3> QED BY <3>1, <3>2
  <2> QED BY <2>1, <2>2
<1>10. i = x
  <2>1. i = [entries |-> Append(AllBut(s, id), e), bytes |-> s.bytes,
             counts |-> s.counts, bytesOf |-> s.bytesOf]
    BY <1>2, <1>5, <1>8, <1>9 DEF Inserted
  <2>2. x = [entries |-> Append(AllBut(s, id), e), bytes |-> s.bytes,
             counts |-> s.counts, bytesOf |-> s.bytesOf]
    BY <1>7, TableWritten
  <2> QED BY <2>1, <2>2
<1>11. x.bytes = s.bytes
  BY <1>7 DEF Stores
<1> HIDE DEF i, x
<1>12. Known(x) \subseteq Known(s)
  <2>1. Known(x) = {y.id : y \in AllOf(d.entries) \cup {e}} /\ Known(d) = {y.id : y \in AllOf(d.entries)}
    BY <1>6, <1>10 DEF Known
  <2>2. Known(x) = Known(d) \cup {id}
    BY <1>1, <2>1
  <2> QED BY <1>3, <2>2
<1>13. x.bytes <= s.bytes /\ Len(x.entries) <= Len(s.entries)
  <2>1. s.bytes \in Nat /\ Len(s.entries) \in Nat /\ Len(x.entries) = Len(s.entries)
    BY <1>2, <1>6, <1>7, <1>10 DEF Stores
  <2> QED BY <1>11, <2>1
<1>14. x \in Shrunk(s)
  BY <1>6, <1>10, <1>12, <1>13 DEF Shrunk, StoreOK
<1> QED BY <1>14 DEF x, e

-----------------------------------------------------------------------------
\* An entry that is dropped, or is not there.
LEMMA DropShrinks ==
  ASSUME NEW s, StoreOK(s), NEW x \in Shrunk(s), NEW id
  PROVE  Dropped(x, id) \in Shrunk(s)
<1> DEFINE d == Dropped(x, id)
<1>1. CASE id \notin Known(x)
  BY <1>1 DEF Dropped, Shrunk
<1>2. CASE id \in Known(x)
  <2>1. /\ StoreOK(x) /\ Known(x) \subseteq Known(s)
        /\ x.bytes <= s.bytes /\ Len(x.entries) <= Len(s.entries)
    BY DEF Shrunk
  <2>2. /\ StoreOK(d) /\ Len(d.entries) + 1 = Len(x.entries) /\ d.bytes <= x.bytes
        /\ Known(d) \subseteq Known(s)
    BY <1>2, <2>1, DroppedOK, DroppedKnown
  <2> HIDE DEF d
  <2>3. /\ d \in Stores /\ d.bytes \in Nat /\ x.bytes \in Nat /\ s.bytes \in Nat
        /\ Len(d.entries) \in Nat /\ Len(x.entries) \in Nat /\ Len(s.entries) \in Nat
    BY <2>1, <2>2 DEF StoreOK, Stores
  <2>4. d.bytes <= s.bytes /\ Len(d.entries) <= Len(s.entries)
    BY <2>1, <2>2, <2>3
  <2>5. d \in Shrunk(s)
    BY <2>2, <2>3, <2>4 DEF Shrunk
  <2> QED BY <2>5 DEF d
<1> QED BY <1>1, <1>2

\* A sweep drops entries, and leaves ledgers that are exact.
LEMMA SweptShrinks ==
  ASSUME NEW s, StoreOK(s)
  PROVE  Swept(s) \in Shrunk(s)
<1> DEFINE V == Shrunk(s)
           n == Len(s.entries)
           one(x, i) == IF s.entries[i].expired THEN Dropped(x, s.entries[i].id) ELSE x
           step == [p \in V \X (1 .. n) |-> one(p[1], p[2])]
           Is(f) == f = [i \in 0 .. n |-> IF i = 0 THEN s
                                          ELSE IF s.entries[i].expired
                                               THEN Dropped(f[i - 1], s.entries[i].id) ELSE f[i - 1]]
<1>1. s \in V /\ n \in Nat
  BY DEF StoreOK, Stores, Shrunk
<1>2. \A v \in V, i \in 1 .. n : one(v, i) \in V
  BY DropShrinks
<1> HIDE DEF V, n, one
<1>3. \A v \in V, i \in 1 .. n : step[<<v, i>>] = one(v, i)
  OBVIOUS
<1>4. step \in [V \X (1 .. n) -> V]
  <2>1. \A p \in V \X (1 .. n) : one(p[1], p[2]) \in V
    BY <1>2
  <2> QED BY <2>1
<1> HIDE DEF step
<1>5. PICK f : f \in [0 .. n -> V] /\ Steps(f, s, step, n)
  BY <1>1, <1>4, Recursion
<1>6. f[0] = s /\ \A i \in 1 .. n : f[i] = step[<<f[i - 1], i>>]
  <2>1. 0 \in 0 .. n /\ \A i \in 1 .. n : i \in 0 .. n /\ i # 0
    BY <1>1
  <2> QED BY <1>5, <2>1 DEF Steps
<1>7. \A i \in 1 .. n : f[i] = one(f[i - 1], i)
  <2> SUFFICES ASSUME NEW i \in 1 .. n PROVE f[i] = one(f[i - 1], i)
    OBVIOUS
  <2>1. i - 1 \in 0 .. n
    BY <1>1
  <2>2. f[i - 1] \in V
    BY <1>5, <2>1
  <2> QED BY <1>3, <1>6, <2>2
<1>8. Is(f)
  <2>1. \A i \in 0 .. n : i # 0 => i \in 1 .. n
    BY <1>1
  <2> QED BY <1>5, <1>6, <1>7, <2>1 DEF one
<1>9. ASSUME NEW g, Is(g) PROVE g[n] = f[n]
  <2>1. 0 \in 0 .. n /\ \A i \in 1 .. n : i \in 0 .. n /\ i # 0
    BY <1>1
  <2>2. g[0] = s
    BY <1>9, <2>1
  <2>3. \A i \in 1 .. n : g[i] = one(g[i - 1], i)
    BY <1>9, <2>1 DEF one
  <2>4. \A i \in 1 .. n : g[i - 1] \in V => g[i] = step[<<g[i - 1], i>>]
    BY <1>3, <2>3
  <2> HIDE DEF Is
  <2>5. Follows(g, s, V, step, n)
    BY <2>2, <2>4 DEF Follows
  <2>6. BothRun(f, g, s, V, step, n)
    BY <1>1, <1>4, <1>5, <2>5 DEF BothRun
  <2> QED BY <2>6, OneResult
<1>10. Is(CHOOSE g : Is(g))
  BY <1>8
<1>11. Swept(s) = (CHOOSE g : Is(g))[n]
  BY DEF Swept, n
<1> HIDE DEF Is
<1>12. f[n] = Swept(s)
  BY <1>9, <1>10, <1>11
<1>13. f[n] \in V
  BY <1>1, <1>5
<1> QED BY <1>12, <1>13 DEF V

\* What is within a store that keeps the invariant keeps it.
LEMMA ShrunkKeeps ==
  ASSUME StoreInv, store' \in Shrunk(store)
  PROVE  StoreInv'
<1>1. /\ StoreOK(store') /\ store'.bytes <= store.bytes /\ Len(store'.entries) <= Len(store.entries)
      /\ store.bytes <= StoreMaxBytes /\ Len(store.entries) <= StoreMax
  BY DEF StoreInv, Shrunk
<1>2. /\ store.bytes \in Nat /\ store'.bytes \in Nat /\ StoreMax \in Nat /\ StoreMaxBytes \in Nat
      /\ Len(store.entries) \in Nat /\ Len(store'.entries) \in Nat
  BY <1>1, StoreAssumption DEF StoreInv, StoreOK, Stores
<1>3. store'.bytes <= StoreMaxBytes /\ Len(store'.entries) <= StoreMax
  BY <1>1, <1>2
<1> QED BY <1>1, <1>3 DEF StoreInv

\* An entry expires where it is.
LEMMA ExpiryOK ==
  ASSUME NEW s, StoreOK(s), NEW i \in DOMAIN s.entries
  PROVE  [s EXCEPT !.entries[i].expired = TRUE] \in Shrunk(s)
<1> DEFINE x == [s EXCEPT !.entries[i].expired = TRUE]
           q == s.entries
           w == [q EXCEPT ![i].expired = TRUE]
<1>1. q \in Seq(Response) /\ s \in Stores /\ Apart(q, IdOf) /\ i \in 1 .. Len(q)
  BY DEF StoreOK, Stores
<1>2. x.entries = w /\ x.bytes = s.bytes /\ x.counts = s.counts /\ x.bytesOf = s.bytesOf
  BY <1>1 DEF Stores
<1>3. PICK m : m = [q[i] EXCEPT !.expired = TRUE]
  OBVIOUS
<1>4. m \in Response /\ m.id = q[i].id /\ m.tenant = q[i].tenant /\ m.bytes = q[i].bytes
  <2>1. q[i] \in Response
    BY <1>1
  <2> QED BY <1>3, <2>1, MarkWritten
<1>5. /\ w \in Seq(Response) /\ Len(w) = Len(q) /\ w[i] = m
      /\ \A j \in 1 .. Len(q) : j # i => w[j] = q[j]
  <2>1. w = [q EXCEPT ![i] = m]
    BY <1>3
  <2> HIDE DEF q, w
  <2>2. [q EXCEPT ![i] = m] \in Seq(Response)
    BY <1>1, <1>4
  <2> QED BY <1>1, <1>4, <2>1, <2>2
<1> HIDE DEF q, w
<1>6. \A j \in 1 .. Len(q) : /\ w[j] \in Response /\ q[j] \in Response
                             /\ w[j].id = q[j].id /\ w[j].tenant = q[j].tenant /\ w[j].bytes = q[j].bytes
  BY <1>1, <1>4, <1>5
<1>7. Apart(w, IdOf)
  <2>1. \A j \in 1 .. Len(q) : IdOf[w[j]] = IdOf[q[j]]
    BY <1>6, ResponseFields
  <2> QED BY <1>1, <1>5, <2>1 DEF Apart
<1>8. BytesIn(w) = BytesIn(q)
  <2>1. \A j \in 1 .. Len(q) : Weight[q[j]] = Weight[w[j]]
    BY <1>6, ResponseFields
  <2> QED BY <1>1, <1>5, <2>1, WeightType, TotalSame DEF BytesIn, Weight
<1>9. ASSUME NEW t \in Owners
      PROVE  /\ Len(OfTenants(w, {t})) = Len(OfTenants(q, {t}))
             /\ BytesIn(OfTenants(w, {t})) = BytesIn(OfTenants(q, {t}))
  <2> DEFINE T == {e \in Response : e.tenant \in {t}}
  <2>1. \A j \in 1 .. Len(q) : q[j] \in T <=> w[j] \in T
    BY <1>6
  <2> HIDE DEF T
  <2>2. Len(OnlyOf(w, T)) = Len(OnlyOf(q, T))
    BY <1>1, <1>5, <2>1, OnlyOfSame
  <2> DEFINE u == [e \in Response |-> IF e \in T THEN e.bytes ELSE 0]
  <2>3. u \in [Response -> Nat] /\ \A e \in Response : u[e] = IF e \in T THEN Weight[e] ELSE 0
    BY ResponseFields
  <2>4. \A j \in 1 .. Len(q) : u[q[j]] = u[w[j]]
    BY <1>6, <2>1
  <2> HIDE DEF u
  <2>5. Total(q, u) = Total(w, u)
    BY <1>1, <1>5, <2>3, <2>4, TotalSame
  <2>6. Total(OnlyOf(q, T), Weight) = Total(q, u) /\ Total(OnlyOf(w, T), Weight) = Total(w, u)
    <3>1. q \in Seq(Response) /\ w \in Seq(Response)
      BY <1>1, <1>5
    <3>2. Weight \in [Response -> Nat]
      BY WeightType
    <3>3. ASSUME NEW l \in Seq(Response) PROVE Total(OnlyOf(l, T), Weight) = Total(l, u)
      BY ONLY <2>3, <3>2, TotalOfKept
    <3> QED BY <3>1, <3>3
  <2> QED BY <2>2, <2>5, <2>6 DEF OfTenants, BytesIn, Weight, T
<1>10. x \in Stores
  <2>1. x = [entries |-> w, bytes |-> s.bytes, counts |-> s.counts, bytesOf |-> s.bytesOf]
    <3>1. x = [s EXCEPT !.entries = w]
      BY DEF q, w
    <3> HIDE DEF x
    <3> QED BY <1>1, <3>1, TableWritten
  <2> QED BY <1>1, <1>5, <2>1 DEF Stores
<1> HIDE DEF x
<1>11. StoreOK(x)
  <2>1. /\ s.bytes = BytesIn(q)
        /\ \A t \in Owners : s.bytesOf[t] = BytesIn(OfTenants(q, {t})) /\ s.counts[t] = Len(OfTenants(q, {t}))
    BY DEF StoreOK, q
  <2> QED BY <1>2, <1>7, <1>8, <1>9, <1>10, <2>1 DEF StoreOK
<1>12. Known(x) \subseteq Known(s)
  <2> SUFFICES ASSUME NEW y \in AllOf(w) PROVE \E z \in AllOf(q) : z.id = y.id
    BY <1>2 DEF Known, q
  <2>1. PICK j \in 1 .. Len(q) : y = w[j]
    BY <1>5 DEF AllOf
  <2>2. q[j] \in AllOf(q)
    BY <1>1 DEF AllOf
  <2> QED BY <1>6, <2>1, <2>2
<1>13. x.bytes <= s.bytes /\ Len(x.entries) <= Len(s.entries)
  <2>1. s.bytes \in Nat /\ Len(q) \in Nat
    BY <1>1 DEF Stores
  <2>2. Len(x.entries) = Len(q) /\ x.bytes = s.bytes
    BY <1>2, <1>5
  <2>3. s.bytes <= s.bytes /\ Len(q) <= Len(q)
    BY <2>1
  <2> QED BY <2>2, <2>3 DEF q
<1>14. x \in Shrunk(s)
  BY <1>10, <1>11, <1>12, <1>13 DEF Shrunk
<1> QED BY <1>14 DEF x

\* Every other step leaves a store that is within the one before.
LEMMA OthersShrink ==
  ASSUME StoreInv,
         \/ \E t \in Owners, id \in Ids : Get(t, id) \/ Delete(t, id)
         \/ \E i \in DOMAIN Entries : Expires(i)
         \/ StoreSweep
         \/ UNCHANGED store
  PROVE  store' \in Shrunk(store)
<1>1. StoreOK(store)
  BY DEF StoreInv
<1>2. store \in Shrunk(store)
  <2>1. /\ store.bytes \in Nat /\ Len(store.entries) \in Nat
    BY <1>1 DEF StoreOK, Stores
  <2>2. store.bytes <= store.bytes /\ Len(store.entries) <= Len(store.entries)
    BY <2>1
  <2> QED BY <1>1, <2>2 DEF Shrunk, StoreOK
<1>3. ASSUME NEW t \in Owners, NEW id \in Ids, Get(t, id) PROVE store' \in Shrunk(store)
  BY <1>1, <1>2, <1>3, MovedOK, DropShrinks DEF Get
<1>4. ASSUME NEW t \in Owners, NEW id \in Ids, Delete(t, id) PROVE store' \in Shrunk(store)
  BY <1>1, <1>2, <1>4, DropShrinks DEF Delete
<1>5. ASSUME NEW i \in DOMAIN Entries, Expires(i) PROVE store' \in Shrunk(store)
  BY <1>1, <1>5, ExpiryOK DEF Expires, Entries
<1>6. CASE StoreSweep
  BY <1>1, <1>6, SweptShrinks DEF StoreSweep
<1>7. CASE UNCHANGED store
  BY <1>2, <1>7
<1> QED BY <1>3, <1>4, <1>5, <1>6, <1>7

\* An empty store keeps the invariant.
LEMMA StoreInitInv == StoreInit => StoreInv
<1> SUFFICES ASSUME StoreInit PROVE StoreInv
  OBVIOUS
<1>1. store = [entries |-> <<>>, bytes |-> 0,
               counts |-> [t \in Owners |-> 0], bytesOf |-> [t \in Owners |-> 0]]
  BY DEF StoreInit
<1>2. <<>> \in Seq(Response) /\ Len(<<>>) = 0 /\ Apart(<<>>, IdOf)
  BY DEF Apart
<1>3. BytesIn(<<>>) = 0 /\ \A t \in Owners : OfTenants(<<>>, {t}) = <<>>
  BY BytesOfFew, OnlyOfEmpty DEF OfTenants
<1>4. StoreMaxBytes \in Nat /\ StoreMax \in Nat /\ 0 <= StoreMaxBytes /\ 0 <= StoreMax
  BY StoreAssumption
<1>5. store \in Stores
  BY <1>1, <1>2 DEF Stores
<1>6. StoreOK(store)
  BY <1>1, <1>2, <1>3, <1>5 DEF StoreOK
<1> QED BY <1>1, <1>2, <1>4, <1>6 DEF StoreInv

\* Every step keeps it.
LEMMA StoreStepInv == StoreInv /\ [StoreNext]_store => StoreInv'
<1> SUFFICES ASSUME StoreInv, [StoreNext]_store PROVE StoreInv'
  OBVIOUS
<1>1. ASSUME NEW t \in Owners, NEW n \in Sizes, Put(t, n) PROVE StoreInv'
  BY <1>1, PutKeepsStore
<1>2. CASE \/ \E t \in Owners, id \in Ids : Get(t, id) \/ Delete(t, id)
           \/ \E i \in DOMAIN Entries : Expires(i)
           \/ StoreSweep
           \/ UNCHANGED store
  BY <1>2, OthersShrink, ShrunkKeeps
<1> QED BY <1>1, <1>2 DEF StoreNext

\* The ledgers of the response store say what its table says, and both limits hold,
\* for any number of tenants, any limits and any sizes: no clamp ever hides a drift.
THEOREM LedgerStaysExact == StoreSpec => []LedgerExact
<1>1. StoreInv => LedgerExact
  BY DEF StoreInv, StoreOK, LedgerExact, Entries
<1> QED BY <1>1, StoreInitInv, StoreStepInv, PTL DEF StoreSpec

\* A put of a store that had room for an entry.
LEMMA PutPays ==
  ASSUME StoreInv, NEW e \in Response, e.id \notin Known(store),
         store' \in Left(Inserted(store, e), e.id, e.tenant),
         NEW t \in Owners, NEW id \in Ids, id \notin Known(store), id \in Known(store'),
         EntryOf(store', id).tenant = t, Lost(Owners \ {t}) # {}
  PROVE  ~OverShare(store', t) \/ store'.counts[t] = 1
<1>1. StoreOK(store) /\ StoreOK(store')
  BY DEF StoreInv, Left
<1> DEFINE x == Inserted(store, e)
<1>2. AllOf(x.entries) = AllOf(store.entries) \cup {e}
  BY <1>1, InsertedOK
<1>3. AllOf(store'.entries) \subseteq AllOf(x.entries) /\ Paid(x, store', e.tenant)
  BY DEF Left
<1> HIDE DEF x
<1>4. e.tenant = t
  <2>1. EntryOf(store', id) \in AllOf(store'.entries) /\ EntryOf(store', id).id = id
    BY <1>1, EntryIs
  <2>2. EntryOf(store', id) \notin AllOf(store.entries)
    BY <2>1 DEF Known
  <2> QED BY <1>2, <1>3, <2>1, <2>2
<1>5. PICK y : y \in AllOf(store.entries) /\ y \notin AllOf(store'.entries) /\ y.tenant # t
  <2>1. PICK v \in Known(store) : EntryOf(store, v).tenant \in Owners \ {t} /\ v \notin Known(store')
    BY DEF Lost
  <2>2. EntryOf(store, v) \in AllOf(store.entries) /\ EntryOf(store, v).id = v
    BY <1>1, <2>1, EntryIs
  <2>3. EntryOf(store, v) \notin AllOf(store'.entries)
    BY <2>1, <2>2 DEF Known
  <2> QED BY <2>1, <2>2, <2>3
<1>6. y \in AllOf(x.entries)
  BY <1>2, <1>5
<1> QED BY <1>3, <1>4, <1>5, <1>6 DEF Paid

\* A tenant that writes over its share of the bytes pays for it: an entry of another
\* goes only when the writer is within its share, or left with what it wrote.
THEOREM WriterAlwaysPays == StoreSpec => WriterPays
<1> DEFINE Pays == \A t \in Owners, id \in Ids :
          ( /\ Len(Entries) < StoreMax
            /\ id \notin Known(store) /\ id \in Known(store')
            /\ EntryOf(store', id).tenant = t /\ Lost(Owners \ {t}) # {} )
          => ~OverShare(store', t) \/ store'.counts[t] = 1
<1>1. StoreInv /\ [StoreNext]_store => Pays
  <2> SUFFICES ASSUME StoreInv, [StoreNext]_store, NEW t \in Owners, NEW id \in Ids,
                      Len(Entries) < StoreMax, id \notin Known(store), id \in Known(store'),
                      EntryOf(store', id).tenant = t, Lost(Owners \ {t}) # {}
               PROVE  ~OverShare(store', t) \/ store'.counts[t] = 1
    OBVIOUS
  <2>1. ASSUME NEW p \in Owners, NEW n \in Sizes, Put(p, n)
        PROVE  ~OverShare(store', t) \/ store'.counts[t] = 1
    <3>1. PICK e \in Response : /\ store' \in Left(Inserted(store, e), e.id, e.tenant)
                                /\ e.id \notin Known(store) /\ e.tenant = p
      BY <2>1, PutKeepsStore
    <3> QED BY <3>1, PutPays
  <2>2. CASE \/ \E p \in Owners, q \in Ids : Get(p, q) \/ Delete(p, q)
             \/ \E i \in DOMAIN Entries : Expires(i)
             \/ StoreSweep
             \/ UNCHANGED store
    <3>1. store' \in Shrunk(store)
      BY <2>2, OthersShrink
    <3>2. Known(store') \subseteq Known(store)
      BY <3>1 DEF Shrunk
    <3> QED BY <3>2
  <2> QED BY <2>1, <2>2 DEF StoreNext
<1> HIDE DEF Pays
<1>2. StoreSpec => [][Pays]_store
  BY <1>1, StoreInitInv, StoreStepInv, PTL DEF StoreSpec
<1> QED BY <1>2 DEF WriterPays, Pays

-----------------------------------------------------------------------------
\* Affinity.

Asking == [pc : {"idle", "pin", "queue", "held"}, caller : Callers \cup {NoAccount},
           tried : SUBSET (Accounts \X (0 .. MaxKey)),
           acct : Accounts \cup {NoAccount}, key : 0 .. MaxKey]

AskOK(x) ==
    /\ x \in Asking
    /\ x.pc # "idle" => x.caller \in Callers
    /\ x.pc = "held" => x.acct \in Accounts

StickyInv ==
    /\ binds \in Seq(Binding)
    /\ keyNo \in [Accounts -> 0 .. MaxKey]
    /\ DOMAIN ask = Askers /\ \A r \in Askers : AskOK(ask[r])

\* What is wanted of a list and what is not make the list up.
LEMMA OnlyOfParts ==
  ASSUME NEW S, NEW s \in Seq(S), NEW T, NEW U,
         \A e \in S : e \in T <=> e \notin U
  PROVE  Len(OnlyOf(s, T)) + Len(OnlyOf(s, U)) = Len(s)
<1> DEFINE Good == {x \in Seq(S) : Len(OnlyOf(x, T)) + Len(OnlyOf(x, U)) = Len(x)}
<1>1. <<>> \in Good
  BY OnlyOfEmpty
<1>2. ASSUME NEW x \in Good, NEW e \in S PROVE Append(x, e) \in Good
  <2>1. OnlyOf(x, T) \in Seq(S) /\ OnlyOf(x, U) \in Seq(S)
    BY OnlyOfIn
  <2>2. CASE e \in T
    <3>1. OnlyOf(Append(x, e), T) = Append(OnlyOf(x, T), e) /\ OnlyOf(Append(x, e), U) = OnlyOf(x, U)
      BY <2>2, OnlyOfAppend
    <3> QED BY <2>1, <3>1
  <2>3. CASE e \notin T
    <3>1. OnlyOf(Append(x, e), T) = OnlyOf(x, T) /\ OnlyOf(Append(x, e), U) = Append(OnlyOf(x, U), e)
      BY <2>3, OnlyOfAppend
    <3> QED BY <2>1, <3>1
  <2> QED BY <2>2, <2>3
<1>3. Good \in SUBSET Seq(S)
  OBVIOUS
<1> HIDE DEF Good
<1>4. Seq(S) \subseteq Good
  BY <1>1, <1>2, <1>3, ListInduction
<1> QED BY <1>4 DEF Good

LEMMA DropTyped ==
  ASSUME NEW s \in Seq(Binding), NEW c
  PROVE  Drop(s, c) \in Seq(Binding)
BY OnlyOfIn DEF Drop

\* A caller that goes takes nothing of another tenant.
LEMMA DropSpares ==
  ASSUME NEW s \in Seq(Binding), NEW c, NEW t, t # TenantOf[c]
  PROVE  BoundOf(Drop(s, c), t) = BoundOf(s, t)
<1> DEFINE A == {b \in Binding : b.caller # c}
           T == {b \in Binding : TenantOf[b.caller] \in {t}}
<1>1. A \cap T = T
  OBVIOUS
<1>2. OnlyOf(OnlyOf(s, A), T) = OnlyOf(s, A \cap T)
  BY OnlyOfTwice
<1> QED BY <1>1, <1>2 DEF BoundOf, BoundBy, Drop

LEMMA TouchTyped ==
  ASSUME binds \in Seq(Binding), NEW c
  PROVE  Touch(c) \in Seq(Binding)
<1>1. Drop(binds, c) \in Seq(Binding)
  BY DropTyped
<1>2. OnlyOf(binds, {b \in Binding : b.caller = c}) \in Seq(Binding)
  BY OnlyOfIn
<1> QED BY <1>1, <1>2 DEF Touch

LEMMA TouchSpares ==
  ASSUME binds \in Seq(Binding), NEW c, NEW t, t # TenantOf[c]
  PROVE  BoundOf(Touch(c), t) = BoundOf(binds, t)
<1> DEFINE C == {b \in Binding : b.caller = c}
           T == {b \in Binding : TenantOf[b.caller] \in {t}}
           x == Drop(binds, c)
           y == OnlyOf(binds, C)
<1>1. x \in Seq(Binding) /\ y \in Seq(Binding)
  BY DropTyped, OnlyOfIn
<1>2. C \cap T = {}
  OBVIOUS
<1>3. OnlyOf(y, T) = OnlyOf(binds, {})
  <2>1. OnlyOf(OnlyOf(binds, C), T) = OnlyOf(binds, C \cap T)
    BY OnlyOfTwice
  <2> QED BY <2>1, <1>2
<1>4. OnlyOf(binds, {}) = <<>>
  BY OnlyOfNone
<1>5. OnlyOf(x \o y, T) = OnlyOf(x, T) \o OnlyOf(y, T)
  <2> HIDE DEF x, y, T
  <2> QED BY <1>1, OnlyOfConcat
<1>6. OnlyOf(x, T) \in Seq(Binding)
  <2> HIDE DEF x, T
  <2> QED BY <1>1, OnlyOfIn
<1>7. OnlyOf(x, T) \o OnlyOf(y, T) = OnlyOf(x, T)
  <2> HIDE DEF x, y, T
  <2> QED BY <1>3, <1>4, <1>6
<1>8. BoundOf(Touch(c), t) = Len(OnlyOf(x, T))
  <2>1. Touch(c) = x \o y
    BY DEF Touch
  <2> QED BY <2>1, <1>5, <1>7 DEF BoundOf, BoundBy
<1>9. BoundOf(x, t) = BoundOf(binds, t)
  BY DropSpares
<1> QED BY <1>8, <1>9 DEF BoundOf, BoundBy

LEMMA BoundCounts ==
  ASSUME NEW s \in Seq(Binding), NEW t
  PROVE  BoundOf(s, t) \in Nat
<1> DEFINE T == {b \in Binding : TenantOf[b.caller] \in {t}}
<1>1. OnlyOf(s, T) \in Seq(Binding)
  BY OnlyOfIn
<1>2. Len(OnlyOf(s, T)) \in Nat
  <2> HIDE DEF T
  <2> QED BY <1>1
<1> QED BY <1>2 DEF BoundOf, BoundBy

\* The oldest of some tenants is one of theirs.
LEMMA OldestBound ==
  ASSUME binds \in Seq(Binding), NEW T, NEW i \in DOMAIN binds, TenantOf[binds[i].caller] \in T
  PROVE  TenantOf[Oldest(T)] \in T
<1> DEFINE W == {b \in Binding : TenantOf[b.caller] \in T}
           r == OnlyOf(binds, W)
<1>1. binds[i] \in W /\ i \in 1 .. Len(binds)
  OBVIOUS
<1>2. r \in Seq(Binding)
  BY OnlyOfIn
<1>3. \E j \in 1 .. Len(r) : r[j] = binds[i]
  <2> HIDE DEF W
  <2> QED BY <1>1, OnlyOfEntries
<1>4. 1 \in 1 .. Len(r)
  <2> HIDE DEF r
  <2> QED BY <1>2, <1>3
<1>5. r[1] \in W
  <2> HIDE DEF W
  <2> QED BY <1>4, OnlyOfEntries
<1>6. Oldest(T) = r[1].caller
  BY DEF Oldest, BoundBy
<1> QED BY <1>5, <1>6

\* Who holds something of the table.
LEMMA HoldingIs ==
  ASSUME binds \in Seq(Binding), NEW t
  PROVE  t \in Holding <=> BoundOf(binds, t) > 0
<1> DEFINE W == {b \in Binding : TenantOf[b.caller] \in {t}}
           r == OnlyOf(binds, W)
<1>1. r \in Seq(Binding) /\ BoundOf(binds, t) = Len(r)
  BY OnlyOfIn DEF BoundOf, BoundBy
<1>2. ASSUME t \in Holding PROVE Len(r) > 0
  <2>1. PICK i \in DOMAIN binds : TenantOf[binds[i].caller] = t
    BY <1>2 DEF Holding
  <2>2. binds[i] \in W /\ i \in 1 .. Len(binds)
    BY <2>1
  <2>3. \E j \in 1 .. Len(r) : r[j] = binds[i]
    <3> HIDE DEF W
    <3> QED BY <2>2, OnlyOfEntries
  <2> HIDE DEF r
  <2> QED BY <2>3, <1>1
<1>3. ASSUME Len(r) > 0 PROVE t \in Holding
  <2>1. 1 \in 1 .. Len(r)
    <3> HIDE DEF r
    <3> QED BY <1>1, <1>3
  <2>2. r[1] \in W /\ \E k \in 1 .. Len(binds) : r[1] = binds[k]
    <3> HIDE DEF W
    <3> QED BY <2>1, OnlyOfEntries
  <2>3. PICK k \in 1 .. Len(binds) : r[1] = binds[k]
    BY <2>2
  <2>4. TenantOf[binds[k].caller] = t
    <3> HIDE DEF r
    <3> QED BY <2>2, <2>3
  <2> QED BY <2>4 DEF Holding
<1> QED BY <1>1, <1>2, <1>3

LEMMA TwoOf ==
  ASSUME NEW a, NEW b, a # b
  PROVE  Cardinality({a, b}) = 2
<1>1. IsFiniteSet({a}) /\ Cardinality({a}) = 1
  BY FS_Singleton
<1>2. Cardinality({a} \cup {b}) = Cardinality({a}) + 1
  BY <1>1, FS_AddElement
<1>3. {a, b} = {a} \cup {b}
  OBVIOUS
<1> QED BY <1>1, <1>2, <1>3

\* Of two tenants, the one within its half gives nothing for the other.
LEMMA VictimIsOwn ==
  ASSUME StickyInv, NEW c \in Callers, NEW t, t # TenantOf[c],
         {TenantOf[d] : d \in Callers} = {t, TenantOf[c]},
         BoundOf(binds, t) <= MaxBindings \div 2, Len(binds) >= MaxBindings
  PROVE  TenantOf[Victim(c)] # t
<1> DEFINE u == TenantOf[c]
           mine == BoundOf(binds, u)
           theirs == BoundOf(binds, t)
           n == Len(binds)
<1>1. binds \in Seq(Binding) /\ n \in Nat /\ MaxBindings \in Nat \ {0}
  BY StickyAssumption DEF StickyInv
<1>2. mine \in Nat /\ theirs \in Nat
  BY <1>1, BoundCounts
<1>3. \A i \in DOMAIN binds : TenantOf[binds[i].caller] \in {t, u}
  <2> SUFFICES ASSUME NEW i \in DOMAIN binds PROVE TenantOf[binds[i].caller] \in {t, u}
    OBVIOUS
  <2>1. binds[i] \in Binding
    BY <1>1
  <2>2. binds[i].caller \in Callers
    BY <2>1 DEF Binding
  <2> QED BY <2>2
<1>4. theirs + mine = n
  <2> DEFINE T == {b \in Binding : TenantOf[b.caller] \in {t}}
             U == {b \in Binding : TenantOf[b.caller] \in {u}}
  <2>1. \A e \in Binding : e \in T <=> e \notin U
    <3> SUFFICES ASSUME NEW e \in Binding PROVE e \in T <=> e \notin U
      OBVIOUS
    <3>1. e.caller \in Callers
      BY DEF Binding
    <3>2. TenantOf[e.caller] \in {t, u}
      BY <3>1
    <3> QED BY <3>2
  <2>2. Len(OnlyOf(binds, T)) + Len(OnlyOf(binds, U)) = Len(binds)
    <3> HIDE DEF T, U
    <3> QED BY <2>1, <1>1, OnlyOfParts
  <2> QED BY <2>2 DEF BoundOf, BoundBy
<1>5. Holding \subseteq {t, u} /\ (t \in Holding <=> theirs > 0) /\ (u \in Holding <=> mine > 0)
  BY <1>1, <1>3, HoldingIs DEF Holding
<1>6. \E i \in DOMAIN binds : TRUE
  <2>1. 1 \in DOMAIN binds
    BY <1>1
  <2> QED BY <2>1
<1>7. CASE mine >= Share
  <2>1. Share \in Nat /\ Share >= 1
    <3>1. PICK k : k = MaxBindings \div Cardinality(Holding)
      OBVIOUS
    <3>2. Share = IF k > 1 THEN k ELSE 1
      BY <3>1 DEF Share
    <3>3. Cardinality(Holding) \in Nat \ {0}
      <4>1. Holding = {t} \/ Holding = {u} \/ Holding = {t, u}
        BY <1>2, <1>4, <1>5, <1>6, <1>1
      <4>2. Cardinality({t}) = 1 /\ Cardinality({u}) = 1 /\ Cardinality({t, u}) = 2
        BY FS_Singleton, TwoOf
      <4>3. CASE Holding = {t}
        BY <4>2, <4>3
      <4>4. CASE Holding = {u}
        BY <4>2, <4>4
      <4>5. CASE Holding = {t, u}
        BY <4>2, <4>5
      <4> QED BY <4>1, <4>3, <4>4, <4>5
    <3>4. k \in Nat
      BY <3>1, <3>3, <1>1
    <3> QED BY <3>2, <3>4
  <2>2. u \in Holding
    <3>1. mine > 0
      <4> HIDE DEF mine
      <4> QED BY <1>2, <1>7, <2>1
    <3> QED BY <3>1, <1>5
  <2>3. PICK i \in DOMAIN binds : TenantOf[binds[i].caller] = u
    BY <2>2 DEF Holding
  <2>4. TenantOf[Oldest({u})] \in {u}
    BY <2>3, <1>1, OldestBound
  <2>5. Victim(c) = Oldest({u})
    BY <1>7 DEF Victim
  <2> QED BY <2>4, <2>5
<1>8. CASE ~(mine >= Share)
  <2>1. Victim(c) = Oldest(Holding)
    BY <1>8 DEF Victim
  <2>2. t \notin Holding
    <3> SUFFICES ASSUME t \in Holding PROVE FALSE
      OBVIOUS
    <3>1. theirs > 0 /\ theirs <= MaxBindings \div 2 /\ theirs + mine >= MaxBindings
      BY <1>4, <1>5
    <3>2. mine > 0
      BY <3>1, <1>1, <1>2
    <3>3. Holding = {t, u}
      BY <3>2, <1>5
    <3>4. Cardinality(Holding) = 2
      BY <3>3, TwoOf
    <3>5. Share = IF MaxBindings \div 2 > 1 THEN MaxBindings \div 2 ELSE 1
      BY <3>4 DEF Share
    <3> QED BY <3>1, <3>2, <3>5, <1>8, <1>1, <1>2
  <2>3. PICK i \in DOMAIN binds : TRUE
    BY <1>6
  <2>4. TenantOf[binds[i].caller] \in Holding
    BY DEF Holding
  <2>5. TenantOf[Oldest(Holding)] \in Holding
    BY <2>4, <1>1, OldestBound
  <2> QED BY <2>1, <2>2, <2>5
<1> QED BY <1>7, <1>8

-----------------------------------------------------------------------------
\* The table after a binding.
LEMMA BindTyped ==
  ASSUME StickyInv, NEW c \in Callers, NEW a \in Accounts, NEW k \in 0 .. MaxKey, Bind(c, a, k)
  PROVE  binds' \in Seq(Binding)
<1> DEFINE full == Len(binds) >= MaxBindings /\ Of(c) = {}
           room == IF full THEN Drop(binds, Victim(c)) ELSE binds
           e == [caller |-> c, acct |-> a, key |-> k]
<1>1. room \in Seq(Binding)
  BY DropTyped DEF StickyInv
<1>2. Drop(room, c) \in Seq(Binding) /\ e \in Binding
  <2> HIDE DEF room
  <2> QED BY <1>1, DropTyped DEF Binding
<1>3. binds' = Append(Drop(room, c), e)
  BY DEF Bind
<1> HIDE DEF room, e
<1> QED BY <1>2, <1>3

LEMMA BindSpares ==
  ASSUME StickyInv, NEW c \in Callers, NEW a \in Accounts, NEW k \in 0 .. MaxKey, Bind(c, a, k),
         NEW t, t # TenantOf[c], {TenantOf[d] : d \in Callers} = {t, TenantOf[c]},
         BoundOf(binds, t) <= MaxBindings \div 2
  PROVE  BoundOf(binds', t) = BoundOf(binds, t)
<1> DEFINE full == Len(binds) >= MaxBindings /\ Of(c) = {}
           room == IF full THEN Drop(binds, Victim(c)) ELSE binds
           e == [caller |-> c, acct |-> a, key |-> k]
           T == {b \in Binding : TenantOf[b.caller] \in {t}}
<1>1. room \in Seq(Binding) /\ BoundOf(room, t) = BoundOf(binds, t)
  <2>1. CASE full
    <3>1. TenantOf[Victim(c)] # t
      BY <2>1, VictimIsOwn
    <3> QED BY <2>1, <3>1, DropTyped, DropSpares DEF StickyInv
  <2>2. CASE ~full
    BY <2>2 DEF StickyInv
  <2> QED BY <2>1, <2>2
<1>2. binds' = Append(Drop(room, c), e)
  BY DEF Bind
<1>3. Drop(room, c) \in Seq(Binding) /\ BoundOf(Drop(room, c), t) = BoundOf(room, t)
  <2> HIDE DEF room
  <2> QED BY <1>1, DropTyped, DropSpares
<1>4. e \in Binding /\ e \notin T
  BY DEF Binding
<1>5. OnlyOf(binds', T) = OnlyOf(Drop(room, c), T)
  <2> HIDE DEF room, e, T
  <2> QED BY <1>2, <1>3, <1>4, OnlyOfAppend
<1>6. BoundOf(binds', t) = BoundOf(Drop(room, c), t)
  BY <1>5 DEF BoundOf, BoundBy
<1> HIDE DEF room
<1> QED BY <1>1, <1>3, <1>6

\* What a pick leaves of the table, and whom it picks.
LEMMA PickIs ==
  ASSUME StickyInv, NEW c \in Callers, NEW tried, NEW x \in Pick(c, tried)
  PROVE  /\ x.binds \in {binds, Touch(c), Drop(binds, c)}
         /\ x.acct \in Free(tried) \cup {NoAccount}
         /\ x.acct # NoAccount /\ Bound(c) # NoAccount /\ x.acct # Bound(c)
              => Bound(c) \notin Free(tried)
<1> DEFINE pin == Bound(c)
<1>1. \A s : \A y \in AnyOf(tried, s) : y.binds = s /\ y.acct \in Free(tried) \cup {NoAccount}
  BY DEF AnyOf
<1>2. CASE pin = NoAccount
  <2>1. pin \notin Accounts /\ pin \notin Free(tried)
    BY <1>2, StickyAssumption DEF Free
  <2>2. x \in AnyOf(tried, binds)
    BY <1>2, <2>1 DEF Pick
  <2> QED BY <1>1, <1>2, <2>2
<1>3. CASE pin # NoAccount /\ pin \in Free(tried)
  <2>1. x = [acct |-> pin, binds |-> Touch(c)]
    BY <1>3 DEF Pick
  <2> QED BY <1>3, <2>1
<1>4. CASE pin # NoAccount /\ pin \notin Free(tried)
  <2>1. x \in {[acct |-> NoAccount, binds |-> Touch(c)]} \cup AnyOf(tried, Drop(binds, c))
    BY <1>4 DEF Pick
  <2> QED BY <1>1, <1>4, <2>1
<1> QED BY <1>2, <1>3, <1>4

LEMMA QuietOK == AskOK(Quiet) /\ Quiet.pc = "idle" /\ 0 \in 0 .. MaxKey
<1>1. 0 \in 0 .. MaxKey
  BY StickyAssumption
<1> QED BY <1>1 DEF AskOK, Asking, Quiet

LEMMA AskedIs ==
  ASSUME NEW p, NEW c
  PROVE  [Quiet EXCEPT !.pc = p, !.caller = c]
            = [pc |-> p, caller |-> c, tried |-> {}, acct |-> NoAccount, key |-> 0]
<1>1. PICK q : q = [Quiet EXCEPT !.pc = p, !.caller = c]
  OBVIOUS
<1>2. PICK w : w = [pc |-> p, caller |-> c, tried |-> {}, acct |-> NoAccount, key |-> 0]
  OBVIOUS
<1>3. DOMAIN q = {"pc", "caller", "tried", "acct", "key"}
  BY <1>1 DEF Quiet
<1>4. q.pc = p /\ q.caller = c /\ q.tried = {} /\ q.acct = NoAccount /\ q.key = 0
  BY <1>1 DEF Quiet
<1>5. q = [f \in DOMAIN q |-> q[f]]
  BY <1>1
<1>6. q = w
  BY <1>2, <1>3, <1>4, <1>5
<1> QED BY <1>1, <1>2, <1>6

LEMMA AcquireIs ==
  ASSUME StickyInv, NEW r \in Askers, NEW c \in Callers,
         NEW tried \in SUBSET (Accounts \X (0 .. MaxKey)),
         NEW none \in {"idle", "queue"}, Acquire(r, c, tried, none)
  PROVE  /\ binds' \in {binds, Touch(c), Drop(binds, c)}
         /\ \E new : /\ ask' = [ask EXCEPT ![r] = new] /\ AskOK(new)
                     /\ new.pc = "held" => /\ new.caller = c /\ new.tried = tried
                                           /\ new.acct # Bound(c) /\ Bound(c) # NoAccount
                                                => Bound(c) \notin Free(tried)
         /\ UNCHANGED <<standing, keyNo, noFallback>>
<1>1. PICK x \in Pick(c, tried) :
        /\ binds' = x.binds
        /\ Becomes(r, IF x.acct # NoAccount
                      THEN [pc |-> "held", caller |-> c, tried |-> tried,
                            acct |-> x.acct, key |-> keyNo[x.acct]]
                      ELSE IF none = "idle" \/ noFallback THEN Quiet
                      ELSE [Quiet EXCEPT !.pc = none, !.caller = c, !.tried = tried])
        /\ Around
  BY DEF Acquire
<1>2. /\ x.binds \in {binds, Touch(c), Drop(binds, c)}
      /\ x.acct \in Free(tried) \cup {NoAccount}
      /\ x.acct # NoAccount /\ Bound(c) # NoAccount /\ x.acct # Bound(c)
           => Bound(c) \notin Free(tried)
  BY PickIs
<1>3. PICK new : new = IF x.acct # NoAccount
                       THEN [pc |-> "held", caller |-> c, tried |-> tried,
                             acct |-> x.acct, key |-> keyNo[x.acct]]
                       ELSE IF none = "idle" \/ noFallback THEN Quiet
                       ELSE [Quiet EXCEPT !.pc = none, !.caller = c, !.tried = tried]
  OBVIOUS
<1>4. ask' = [ask EXCEPT ![r] = new]
  BY <1>1, <1>3 DEF Becomes
<1>5. CASE x.acct # NoAccount
  <2>1. x.acct \in Accounts
    BY <1>2, <1>5 DEF Free
  <2>2. keyNo[x.acct] \in 0 .. MaxKey
    BY <2>1 DEF StickyInv
  <2>3. new = [pc |-> "held", caller |-> c, tried |-> tried, acct |-> x.acct,
               key |-> keyNo[x.acct]]
    BY <1>3, <1>5
  <2>4. AskOK(new)
    BY <2>1, <2>2, <2>3 DEF AskOK, Asking
  <2>5. new.caller = c /\ new.tried = tried /\ new.acct = x.acct
    BY <2>3
  <2>6. new.acct # Bound(c) /\ Bound(c) # NoAccount => Bound(c) \notin Free(tried)
    BY <1>2, <1>5, <2>5
  <2>7. binds' \in {binds, Touch(c), Drop(binds, c)} /\ UNCHANGED <<standing, keyNo, noFallback>>
    BY <1>1, <1>2 DEF Around
  <2> HIDE DEF AskOK
  <2> QED BY <1>4, <2>4, <2>5, <2>6, <2>7
<1>6. CASE x.acct = NoAccount
  <2>1. new \in {Quiet, [Quiet EXCEPT !.pc = none, !.caller = c, !.tried = tried]}
    BY <1>3, <1>6
  <2>2. AskOK(new) /\ new.pc # "held"
    <3>1. new \in {Quiet, [pc |-> none, caller |-> c, tried |-> tried,
                           acct |-> NoAccount, key |-> 0]}
      BY <2>1 DEF Quiet
    <3> QED BY <3>1, QuietOK DEF AskOK, Asking, Quiet
  <2> QED BY <1>1, <1>2, <1>4, <2>2 DEF Around
<1> QED BY <1>5, <1>6

\* What a step of a request does to the requests, and to a tenant's bindings.
Kept(r, new) ==
    /\ ask' = [ask EXCEPT ![r] = new] /\ AskOK(new)
    /\ binds' \in Seq(Binding) /\ UNCHANGED <<standing, keyNo, noFallback>>
    /\ new.pc = "held" /\ Bound(new.caller) # NoAccount /\ new.acct # Bound(new.caller)
         => Bound(new.caller) \notin Free(new.tried)
    /\ ask[r].pc = "held" /\ new.pc = "idle" =>
         \A t : /\ t # TenantOf[ask[r].caller]
                /\ {TenantOf[c] : c \in Callers} = {t, TenantOf[ask[r].caller]}
                /\ BoundOf(binds, t) <= MaxBindings \div 2
                => BoundOf(binds', t) = BoundOf(binds, t)

LEMMA AcquireKeeps ==
  ASSUME StickyInv, NEW r \in Askers, NEW c \in Callers,
         NEW tried \in SUBSET (Accounts \X (0 .. MaxKey)),
         NEW none \in {"idle", "queue"}, Acquire(r, c, tried, none),
         ask[r].pc = "held" => ask[r].caller = c
  PROVE  \E new : Kept(r, new)
<1>1. binds \in Seq(Binding)
  BY DEF StickyInv
<1>2. binds' \in {binds, Touch(c), Drop(binds, c)} /\ UNCHANGED <<standing, keyNo, noFallback>>
  BY AcquireIs
<1>3. PICK new : /\ ask' = [ask EXCEPT ![r] = new] /\ AskOK(new)
                 /\ new.pc = "held" => /\ new.caller = c /\ new.tried = tried
                                       /\ new.acct # Bound(c) /\ Bound(c) # NoAccount
                                            => Bound(c) \notin Free(tried)
  BY AcquireIs
<1>4. binds' \in Seq(Binding)
  BY <1>1, <1>2, DropTyped, TouchTyped
<1>5. \A t : t # TenantOf[c] => BoundOf(binds', t) = BoundOf(binds, t)
  <2> SUFFICES ASSUME NEW t, t # TenantOf[c] PROVE BoundOf(binds', t) = BoundOf(binds, t)
    OBVIOUS
  <2>1. BoundOf(Drop(binds, c), t) = BoundOf(binds, t) /\ BoundOf(Touch(c), t) = BoundOf(binds, t)
    BY <1>1, DropSpares, TouchSpares
  <2> QED BY <1>2, <2>1
<1>6. Kept(r, new)
  BY <1>2, <1>3, <1>4, <1>5 DEF Kept
<1> QED BY <1>6

LEMMA TurnKeeps ==
  ASSUME StickyInv, NEW r \in Askers, Turns(r)
  PROVE  \E new : Kept(r, new)
<1> DEFINE x == ask[r]
<1>1. AskOK(x) /\ binds \in Seq(Binding)
  BY DEF StickyInv
<1>2. ASSUME NEW c \in Callers, Arrive(r, c) PROVE \E new : Kept(r, new)
  BY <1>2, AcquireKeeps DEF Arrive
<1>3. ASSUME NEW c \in Callers, ArriveWaiting(r, c) PROVE \E new : Kept(r, new)
  <2> DEFINE new == [Quiet EXCEPT !.pc = "pin", !.caller = c]
  <2>1. AskOK(new) /\ new.pc = "pin"
    <3>1. new = [pc |-> "pin", caller |-> c, tried |-> {}, acct |-> NoAccount, key |-> 0]
      BY AskedIs
    <3> QED BY <3>1, QuietOK DEF AskOK, Asking
  <2>2. ask' = [ask EXCEPT ![r] = new] /\ binds' = binds /\ UNCHANGED <<standing, keyNo, noFallback>>
    BY <1>3 DEF ArriveWaiting, Becomes, Around
  <2> HIDE DEF new
  <2>3. Kept(r, new)
    BY <1>1, <2>1, <2>2 DEF Kept
  <2> QED BY <2>3
<1>4. ASSUME PollPin(r) PROVE \E new : Kept(r, new)
  <2> DEFINE c == x.caller
             new == [x EXCEPT !.pc = "held", !.acct = Bound(c), !.key = keyNo[Bound(c)]]
  <2>1. x.pc = "pin" /\ Bound(c) \in Free({}) /\ binds' = Touch(c)
        /\ ask' = [ask EXCEPT ![r] = new] /\ UNCHANGED <<standing, keyNo, noFallback>>
    BY <1>4 DEF PollPin, Becomes, Around
  <2>2. Bound(c) \in Accounts /\ keyNo[Bound(c)] \in 0 .. MaxKey
    BY <2>1 DEF Free, StickyInv
  <2>3. AskOK(new) /\ new.caller = c /\ new.acct = Bound(c)
    BY <1>1, <2>1, <2>2 DEF AskOK, Asking
  <2>4. binds' \in Seq(Binding)
    BY <1>1, <2>1, TouchTyped
  <2>5. Kept(r, new)
    <3> HIDE DEF new
    <3> QED BY <2>1, <2>3, <2>4 DEF Kept
  <2> QED BY <2>5
<1>5. ASSUME PinTimeout(r) PROVE \E new : Kept(r, new)
  <2>1. x.pc = "pin" /\ x.caller \in Callers /\ Acquire(r, x.caller, {}, "queue")
    BY <1>1, <1>5 DEF PinTimeout, AskOK
  <2> QED BY <2>1, AcquireKeeps
<1>6. ASSUME Again(r) PROVE \E new : Kept(r, new)
  <2>1. x.pc = "queue" /\ x.caller \in Callers /\ Acquire(r, x.caller, x.tried, "queue")
        /\ x.tried \in SUBSET (Accounts \X (0 .. MaxKey))
    BY <1>1, <1>6 DEF Again, AskOK, Asking
  <2> QED BY <2>1, AcquireKeeps
<1>7. ASSUME GiveUpWaiting(r) PROVE \E new : Kept(r, new)
  <2>1. AskOK(Quiet) /\ Quiet.pc = "idle"
    BY QuietOK
  <2>2. /\ ask' = [ask EXCEPT ![r] = Quiet] /\ binds' = binds
        /\ UNCHANGED <<standing, keyNo, noFallback>> /\ ask[r].pc # "held"
    BY <1>7 DEF GiveUpWaiting, Becomes, Around
  <2>3. Kept(r, Quiet)
    BY <1>1, <2>1, <2>2 DEF Kept
  <2> QED BY <2>3
<1>8. ASSUME Serve(r) PROVE \E new : Kept(r, new)
  <2>1. PICK k \in {x.key, keyNo[x.acct]} : Bind(x.caller, x.acct, k)
    BY <1>8 DEF Serve
  <2>2. x.caller \in Callers /\ x.acct \in Accounts /\ x.pc = "held"
    BY <1>1, <1>8 DEF Serve, AskOK
  <2>3. k \in 0 .. MaxKey
    BY <1>1, <2>1, <2>2 DEF AskOK, Asking, StickyInv
  <2>4. ask' = [ask EXCEPT ![r] = Quiet] /\ UNCHANGED <<standing, keyNo, noFallback>>
    BY <1>8 DEF Serve, Becomes, Around
  <2>5. AskOK(Quiet) /\ Quiet.pc = "idle"
    BY QuietOK
  <2>6. binds' \in Seq(Binding)
    BY <2>1, <2>2, <2>3, BindTyped
  <2>7. \A t : /\ t # TenantOf[x.caller]
               /\ {TenantOf[c] : c \in Callers} = {t, TenantOf[x.caller]}
               /\ BoundOf(binds, t) <= MaxBindings \div 2
               => BoundOf(binds', t) = BoundOf(binds, t)
    BY <2>1, <2>2, <2>3, BindSpares
  <2>8. Kept(r, Quiet)
    BY <2>4, <2>5, <2>6, <2>7 DEF Kept
  <2> QED BY <2>8
<1>9. ASSUME Hop(r) PROVE \E new : Kept(r, new)
  <2> DEFINE tried == x.tried \cup {<<x.acct, x.key>>}
  <2>1. x.pc = "held" /\ x.caller \in Callers /\ Acquire(r, x.caller, tried, "idle")
    BY <1>1, <1>9 DEF Hop, AskOK
  <2>2. tried \in SUBSET (Accounts \X (0 .. MaxKey))
    BY <1>1, <2>1 DEF AskOK, Asking
  <2> HIDE DEF tried
  <2> QED BY <2>1, <2>2, AcquireKeeps
<1>10. ASSUME Fail(r) PROVE \E new : Kept(r, new)
  <2>1. AskOK(Quiet) /\ Quiet.pc = "idle"
    BY QuietOK
  <2>2. /\ ask' = [ask EXCEPT ![r] = Quiet] /\ binds' = binds
        /\ UNCHANGED <<standing, keyNo, noFallback>>
    BY <1>10 DEF Fail, Becomes, Around
  <2>3. Kept(r, Quiet)
    BY <1>1, <2>1, <2>2 DEF Kept
  <2> QED BY <2>3
<1> QED BY <1>2, <1>3, <1>4, <1>5, <1>6, <1>7, <1>8, <1>9, <1>10 DEF Turns

\* The invariant is kept, and a step moves at most one request.
LEMMA StickyStep ==
  ASSUME StickyInv, [StickyNext]_stickyVars
  PROVE  /\ StickyInv'
         /\ ask' = ask \/ \E r \in Askers : \E new : Kept(r, new)
<1>1. ASSUME NEW r \in Askers, Turns(r) PROVE StickyInv' /\ \E new : Kept(r, new)
  <2>1. PICK new : Kept(r, new)
    BY <1>1, TurnKeeps
  <2>2. ask' = [ask EXCEPT ![r] = new] /\ AskOK(new) /\ binds' \in Seq(Binding) /\ keyNo' = keyNo
    BY <2>1 DEF Kept
  <2>3. DOMAIN ask = Askers /\ \A q \in Askers : AskOK(ask[q])
    BY DEF StickyInv
  <2>4. DOMAIN ask' = Askers /\ \A q \in Askers : ask'[q] \in {new, ask[q]}
    <3> HIDE DEF Kept
    <3> QED BY <2>2, <2>3
  <2>5. \A q \in Askers : AskOK(ask'[q])
    BY <2>2, <2>3, <2>4
  <2>6. AskOK(new)' <=> AskOK(new)
    BY DEF AskOK, Asking
  <2>7. \A q \in Askers : AskOK(ask[q])'
    BY <2>5 DEF AskOK, Asking
  <2> QED BY <2>1, <2>2, <2>4, <2>7 DEF StickyInv
<1>2. ASSUME NEW a \in Accounts, ReLogin(a) PROVE StickyInv' /\ ask' = ask
  <2>1. keyNo' \in [Accounts -> 0 .. MaxKey]
    BY <1>2, StickyAssumption DEF ReLogin, StickyInv
  <2> QED BY <1>2, <2>1 DEF ReLogin, StickyInv, AskOK, Asking
<1>3. ASSUME NEW a \in Accounts, NEW s \in Standings, SetAccount(a, s)
      PROVE  StickyInv' /\ ask' = ask
  BY <1>3 DEF SetAccount, StickyInv, AskOK, Asking
<1>4. ASSUME NEW c \in Callers, ExpireBinding(c) PROVE StickyInv' /\ ask' = ask
  <2>1. binds' \in Seq(Binding)
    BY <1>4, DropTyped DEF ExpireBinding, StickyInv
  <2> QED BY <1>4, <2>1 DEF ExpireBinding, StickyInv, AskOK, Asking
<1>5. CASE UNCHANGED stickyVars
  BY <1>5 DEF stickyVars, StickyInv, AskOK, Asking
<1> QED BY <1>1, <1>2, <1>3, <1>4, <1>5 DEF StickyNext

LEMMA StickyInitInv == StickyInit => StickyInv
<1> SUFFICES ASSUME StickyInit PROVE StickyInv
  OBVIOUS
<1>1. binds \in Seq(Binding) /\ keyNo \in [Accounts -> 0 .. MaxKey]
  BY StickyAssumption DEF StickyInit
<1>2. DOMAIN ask = Askers /\ \A r \in Askers : ask[r] = Quiet
  BY DEF StickyInit
<1> QED BY <1>1, <1>2, QuietOK DEF StickyInv

Rotation ==
    \A r \in Askers :
      LET c == ask'[r].caller IN
      (ask'[r].pc = "held" /\ ask'[r] # ask[r] /\ Bound(c) # NoAccount
          /\ ask'[r].acct # Bound(c))
      => Bound(c) \notin Free(ask'[r].tried)

Protection ==
    \A r \in Askers, t \in {TenantOf[c] : c \in Callers} :
      /\ ask[r].pc = "held" /\ ask'[r].pc = "idle" /\ t # TenantOf[ask[r].caller]
      /\ {TenantOf[c] : c \in Callers} = {t, TenantOf[ask[r].caller]}
      /\ BoundOf(binds, t) <= MaxBindings \div 2
      => BoundOf(binds', t) = BoundOf(binds, t)

LEMMA StickyKeeps ==
  ASSUME StickyInv, [StickyNext]_stickyVars
  PROVE  Rotation /\ Protection
<1>1. CASE ask' = ask
  BY <1>1 DEF Rotation, Protection
<1>2. ASSUME NEW r \in Askers, NEW new, Kept(r, new) PROVE Rotation /\ Protection
  <2>1. DOMAIN ask = Askers
    BY DEF StickyInv
  <2>2. ask'[r] = new /\ \A q \in Askers : q # r => ask'[q] = ask[q]
    BY <1>2, <2>1 DEF Kept
  <2>3. Rotation
    BY <1>2, <2>2 DEF Kept, Rotation
  <2>4. Protection
    BY <1>2, <2>2 DEF Kept, Protection
  <2> QED BY <2>3, <2>4
<1> QED BY <1>1, <1>2, StickyStep

\* A caller is moved only while its own account cannot serve it, and of two
\* tenants neither takes what the other holds within its half.
THEOREM AffinityHolds == StickySpec => AffinityKept
<1>1. StickyInit => StickyInv
  BY StickyInitInv
<1>2. StickyInv /\ [StickyNext]_stickyVars => StickyInv'
  BY StickyStep
<1>3. StickyInv /\ [StickyNext]_stickyVars => Rotation /\ Protection
  BY StickyKeeps
<1>4. StickySpec => [][Rotation]_stickyVars /\ [][Protection]_stickyVars
  BY <1>1, <1>2, <1>3, PTL DEF StickySpec
<1>5. AffinityKept <=> [][Rotation]_stickyVars /\ [][Protection]_stickyVars
  BY DEF AffinityKept, NoNeedlessRotation, ShareProtected, Rotation, Protection
<1> QED BY <1>4, <1>5

-----------------------------------------------------------------------------
(* The update of the program.                                              *)

Leads(p) == p = NoPoint \/ p.commit < p.after

\* The points on the disk lead back from a later commit; and while HEAD is where the
\* update m took it, one of them is m, and the pending one is no other that leads here:
\* to promote it buries nothing.
PointsSafe(d, h, m, confirmed) ==
    /\ Leads(d.final) /\ Leads(d.pending)
    /\ m # NoPoint /\ h = m.after /\ ~confirmed =>
          /\ m \in {d.final, d.pending}
          /\ d.pending # NoPoint /\ d.pending.after = h => d.pending = m

\* HEAD only falls below the last update, by rollbacks: whoever raises it again is an
\* update of its own, or the operator.
NeverAbove == moved # NoPoint => head <= moved.after

\* The lock holder knows where HEAD is until Git runs, and which way it is to go.
TaskAimed ==
    /\ task.step \in {"reading", "prepared"} => head = task.from
    /\ task.step = "reading" => task.op = "rollback"
    /\ task.step \in {"prepared", "mutated"} => task.op \in {"update", "rollback"}
    /\ task.step # "idle" /\ task.op = "rollback" => task.to < task.from
    /\ task.step # "idle" /\ task.op = "update" => task.from <= task.to

\* An update that moved HEAD is the last one.
MoveIsTasks ==
    task.step = "mutated" /\ task.op = "update" =>
       /\ head \in {task.from, task.to}
       /\ head # task.from => moved = Point(task.from, head)

\* From its start until Git has run, the pending point is the update's.
PendingIsTasks ==
    task.op = "update" /\ task.step \in {"prepared", "mutated"} /\ task.from # task.to /\ ~swept
      => files.pending = Point(task.from, task.to)

TaskOK == TaskAimed /\ MoveIsTasks /\ PendingIsTasks

UndoInv == UpdateTypeOK /\ PointsSafe(files, head, moved, swept) /\ NeverAbove /\ TaskOK

\* The shapes of the values, which every step below needs.
USE DEF Commits, Unknown, NoPoint, Point, Points, Journals, NoJournal, Files, Tasks, Unsettled,
        NoTask

LEMMA UndoInit == UpdateInit => UndoInv
  <1> SUFFICES ASSUME UpdateInit PROVE UndoInv
    OBVIOUS
  <1> USE DEF UpdateInit
  <1>1. UpdateTypeOK
    <2>1. files \in Files /\ task \in Tasks /\ moved \in Points
      OBVIOUS
    <2>2. head \in Nat /\ latest \in Nat /\ edited \in BOOLEAN /\ swept \in BOOLEAN
      OBVIOUS
    <2> QED BY <2>1, <2>2 DEF UpdateTypeOK
  <1>2. PointsSafe(files, head, moved, swept)
    BY DEF PointsSafe, Leads
  <1>3. NeverAbove /\ TaskOK
    BY DEF NeverAbove, TaskOK, TaskAimed, MoveIsTasks, PendingIsTasks
  <1> QED BY <1>1, <1>2, <1>3 DEF UndoInv

\* What the files may be, as sets of results.
LEMMA MarkedFiles ==
    ASSUME NEW d \in Files, NEW at \in {"none", "failed", "confirmed"} \cup Unsettled,
           NEW e \in Marked(d, at)
    PROVE  e \in Files /\ e.final = d.final /\ e.pending = d.pending
  BY DEF Marked, Journalled

LEMMA JournalledFiles ==
    ASSUME NEW d \in Files, NEW j \in Journals, NEW e \in Journalled(d, j)
    PROVE  e \in Files /\ e.final = d.final /\ e.pending = d.pending
  BY DEF Journalled

LEMMA PromotedFiles ==
    ASSUME NEW d \in Files, NEW e \in Promoted(d)
    PROVE  /\ e \in Files
           /\ \/ e.final = d.final /\ e.pending = d.pending
              \/ e.final = d.pending /\ e.pending = NoPoint
  <1>1. [d EXCEPT !.final = d.pending, !.pending = NoPoint] \in Files
    OBVIOUS
  <1> QED BY <1>1 DEF Promoted

LEMMA DiscardedFiles ==
    ASSUME NEW d \in Files
    PROVE  /\ Discarded(d) \in Files
           /\ Discarded(d).final = d.final /\ Discarded(d).pending = NoPoint
  BY DEF Discarded

\* To promote a point that HEAD has reached, or to discard one it has not, is safe.
LEMMA RecoveredFiles ==
    ASSUME NEW d \in Files, NEW e \in PendingReconciled(d), moved \in Points,
           PointsSafe(d, head, moved, swept)
    PROVE  e \in Files /\ PointsSafe(e, head, moved, swept)
             /\ (~PendingHolds(d) => e.pending = NoPoint)
  <1>1. CASE PendingHolds(d)
    <2>1. e \in Promoted(d)
      BY <1>1 DEF PendingReconciled
    <2> QED BY <1>1, <2>1, PromotedFiles DEF PendingHolds, PointsSafe, Leads
  <1>2. CASE ~PendingHolds(d)
    <2>1. e = Discarded(d)
      BY <1>2 DEF PendingReconciled
    <2> QED BY <1>2, <2>1, DiscardedFiles DEF PendingHolds, PointsSafe, Leads
  <1> QED BY <1>1, <1>2

LEMMA ReconciledFiles ==
    ASSUME NEW d \in Files, NEW e \in Reconciled(d)
    PROVE  /\ e \in Files
           /\ \/ e.final = d.final /\ e.pending = d.pending
              \/ e.final = NoPoint /\ e.pending = NoPoint /\ ConfirmsRollback(d, e)
  <1>1. CASE ~Settles(d)
    BY <1>1 DEF Reconciled
  <1>2. CASE Settles(d)
    <2> DEFINE c == [d EXCEPT !.journal.state = "confirmed"]
    <2>1. c \in Files /\ c.final = d.final /\ c.pending = d.pending
            /\ c.journal.op = d.journal.op /\ c.journal.state = "confirmed"
      OBVIOUS
    <2>2. d.journal.state # "confirmed"
      BY <1>2 DEF Settles
    <2>3. CASE e \in {d, c}
      BY <2>1, <2>3
    <2>4. CASE d.journal.op = "rollback" /\ e = [c EXCEPT !.final = NoPoint, !.pending = NoPoint]
      <3>1. e \in Files /\ e.final = NoPoint /\ e.pending = NoPoint /\ e.journal = c.journal
        BY <2>1, <2>4
      <3> QED BY <2>1, <2>2, <2>4, <3>1 DEF ConfirmsRollback
    <2> QED BY <1>2, <2>3, <2>4 DEF Reconciled
  <1> QED BY <1>1, <1>2

\* A mutation that ends without touching the checkout.
LEMMA TaskEnds ==
    ASSUME UndoInv, NEW d \in Files, Declined(d), PointsSafe(d, head, moved, swept)
    PROVE  UndoInv'
  <1>1. UpdateTypeOK'
    BY DEF Declined, UndoInv, UpdateTypeOK
  <1> QED BY <1>1 DEF Declined, UndoInv, NeverAbove, TaskOK, TaskAimed, MoveIsTasks, PendingIsTasks

LEMMA StartKeepsUndo == UndoInv /\ UpdateStarts => UndoInv'
  <1> SUFFICES ASSUME UndoInv, UpdateStarts PROVE UndoInv'
    OBVIOUS
  <1> USE DEF UndoInv, UpdateTypeOK
  <1>1. PICK d \in PendingReconciled(files) :
          \/ Declined(d)
          \/ /\ ~PendingHolds(d) /\ (head < latest \/ edited)
             /\ LET next == [d EXCEPT !.pending = IF head < latest THEN Point(head, latest) ELSE @]
                IN  \/ Declined(next)
                    \/ /\ files' = next
                       /\ task' = [op |-> "update", step |-> "prepared", from |-> head,
                                   to |-> IF head < latest THEN latest ELSE head]
                       /\ swept' = FALSE /\ moved' = IF swept THEN NoPoint ELSE moved
                       /\ UNCHANGED <<head, edited, latest>>
    BY DEF UpdateStarts
  <1>2. d \in Files /\ PointsSafe(d, head, moved, swept)
    BY RecoveredFiles
  <1> DEFINE next == [d EXCEPT !.pending = IF head < latest THEN Point(head, latest) ELSE @]
  <1>3. CASE Declined(d)
    BY <1>2, <1>3, TaskEnds
  <1>4. CASE ~Declined(d)
    <2>1. next \in Files /\ next.final = d.final
            /\ next.pending = IF head < latest THEN Point(head, latest) ELSE d.pending
      BY <1>2
    <2>2. PointsSafe(next, head, moved, swept)
      BY <1>1, <1>2, <1>4, <2>1 DEF PointsSafe, Leads, PendingHolds
    <2> HIDE DEF next
    <2>3. CASE Declined(next)
      BY <2>1, <2>2, <2>3, TaskEnds
    <2>4. CASE ~Declined(next)
      <3>1. /\ files' = next
            /\ task' = [op |-> "update", step |-> "prepared", from |-> head,
                        to |-> IF head < latest THEN latest ELSE head]
            /\ swept' = FALSE /\ moved' = IF swept THEN NoPoint ELSE moved
            /\ UNCHANGED <<head, edited, latest>>
        BY <1>1, <1>4, <2>4 DEF next
      <3>2. UpdateTypeOK'
        BY <2>1, <3>1
      <3>3. PointsSafe(next, head, moved', FALSE)
        BY <2>2, <3>1 DEF PointsSafe
      <3>4. TaskOK' /\ NeverAbove'
        BY <2>1, <3>1 DEF TaskOK, TaskAimed, MoveIsTasks, PendingIsTasks, NeverAbove
      <3> QED BY <3>1, <3>2, <3>3, <3>4
    <2> QED BY <2>3, <2>4
  <1> QED BY <1>3, <1>4

LEMMA RollbackReadKeepsUndo == UndoInv /\ RollbackReads => UndoInv'
  <1> SUFFICES ASSUME UndoInv, RollbackReads PROVE UndoInv'
    OBVIOUS
  <1> USE DEF UndoInv, UpdateTypeOK
  <1>0. PICK d \in Reconciled(files) : \E e \in PendingReconciled(d) :
          LET point == IF PendingHolds(d) THEN d.pending ELSE d.final
          IN  /\ files' = e /\ swept' = (swept \/ ConfirmsRollback(files, d))
              /\ \/ task' = NoTask
                 \/ /\ point # NoPoint /\ point.after = head
                    /\ task' = [op |-> "rollback", step |-> "reading",
                                from |-> head, to |-> point.commit]
              /\ UNCHANGED <<head, edited, latest, moved>>
    BY DEF RollbackReads
  <1>1. PICK e \in PendingReconciled(d) :
          LET point == IF PendingHolds(d) THEN d.pending ELSE d.final
          IN  /\ files' = e /\ swept' = (swept \/ ConfirmsRollback(files, d))
              /\ \/ task' = NoTask
                 \/ /\ point # NoPoint /\ point.after = head
                    /\ task' = [op |-> "rollback", step |-> "reading",
                                from |-> head, to |-> point.commit]
              /\ UNCHANGED <<head, edited, latest, moved>>
    BY <1>0
  <1>2. d \in Files /\ PointsSafe(d, head, moved, swept')
    BY <1>1, ReconciledFiles DEF PointsSafe, Leads
  <1>3. e \in Files /\ PointsSafe(e, head, moved, swept')
    <2>1. CASE swept' = swept
      BY <1>2, <2>1, RecoveredFiles
    <2>2. CASE swept' # swept
      <3>1. e \in Files /\ Leads(e.final) /\ Leads(e.pending)
        <4>1. CASE PendingHolds(d)
          BY <1>2, <4>1, PromotedFiles DEF PendingReconciled, PointsSafe, Leads
        <4>2. CASE ~PendingHolds(d)
          BY <1>2, <4>2, DiscardedFiles DEF PendingReconciled, PointsSafe, Leads
        <4> QED BY <4>1, <4>2
      <3>2. swept' = TRUE
        BY <1>1, <2>2
      <3> QED BY <3>1, <3>2 DEF PointsSafe
    <2> QED BY <2>1, <2>2
  <1>4. UpdateTypeOK'
    <2>1. task' \in Tasks
      BY <1>1, <1>2
    <2>2. swept' \in BOOLEAN
      BY <1>1
    <2> QED BY <1>1, <1>3, <2>1, <2>2
  <1>5. TaskOK'
    BY <1>1, <1>2 DEF TaskOK, TaskAimed, MoveIsTasks, PendingIsTasks, PointsSafe, Leads, PendingHolds
  <1>6. NeverAbove'
    BY <1>1 DEF NeverAbove
  <1> QED BY <1>1, <1>3, <1>4, <1>5, <1>6

LEMMA RollbackStartKeepsUndo == UndoInv /\ RollbackStarts => UndoInv'
  <1> SUFFICES ASSUME UndoInv, RollbackStarts PROVE UndoInv'
    OBVIOUS
  <1> USE DEF UndoInv, UpdateTypeOK
  <1> DEFINE intent == [op |-> "rollback", state |-> "pending-restart", expected |-> task.to]
             d      == [files EXCEPT !.journal = intent]
  <1>1. d \in Files /\ d.final = files.final /\ d.pending = files.pending
    OBVIOUS
  <1>2. PointsSafe(d, head, moved, swept)
    BY <1>1 DEF PointsSafe
  <1> HIDE DEF d
  <1>3. CASE Declined(files) \/ Declined(d)
    BY <1>1, <1>2, <1>3, TaskEnds
  <1>4. CASE ~(Declined(files) \/ Declined(d))
    <2>1. /\ task.step = "reading"
          /\ files' = d /\ task' = [task EXCEPT !.step = "prepared"]
          /\ UNCHANGED <<head, edited, latest, moved, swept>>
      BY <1>4 DEF RollbackStarts, d
    <2>2. UpdateTypeOK'
      BY <1>1, <2>1
    <2>3. TaskOK' /\ NeverAbove'
      BY <1>1, <2>1 DEF TaskOK, TaskAimed, MoveIsTasks, PendingIsTasks, NeverAbove
    <2> QED BY <1>2, <2>1, <2>2, <2>3
  <1> QED BY <1>3, <1>4

LEMMA StashKeepsUndo == UndoInv /\ StashFails => UndoInv'
  <1> SUFFICES ASSUME UndoInv, StashFails PROVE UndoInv'
    OBVIOUS
  <1> USE DEF UndoInv, UpdateTypeOK
  <1>1. CASE task.op = "rollback"
    <2>1. PICK d \in Marked(files, "failed") : Declined(d)
      BY <1>1 DEF StashFails
    <2>2. d \in Files /\ d.final = files.final /\ d.pending = files.pending
      BY MarkedFiles
    <2>3. PointsSafe(d, head, moved, swept)
      BY <2>2 DEF PointsSafe
    <2> QED BY <2>1, <2>2, <2>3, TaskEnds
  <1>2. CASE task.op # "rollback" /\ task.from = task.to
    BY <1>2, TaskEnds DEF StashFails
  <1>3. CASE task.op # "rollback" /\ task.from # task.to
    <2>1. Declined(Discarded(files)) /\ task.step = "prepared" /\ task.op = "update"
      BY <1>3 DEF StashFails, TaskOK, TaskAimed
    <2>2. ~swept => files.pending.after = task.to /\ head = task.from
      BY <1>3, <2>1 DEF TaskOK, TaskAimed, PendingIsTasks
    <2>3. PointsSafe(Discarded(files), head, moved, swept)
      BY <1>3, <2>2, DiscardedFiles DEF PointsSafe, Leads
    <2> QED BY <2>1, <2>3, DiscardedFiles, TaskEnds
  <1> QED BY <1>1, <1>2, <1>3

LEMMA GitKeepsUndo == UndoInv /\ GitRuns => UndoInv'
  <1> SUFFICES ASSUME UndoInv, GitRuns PROVE UndoInv'
    OBVIOUS
  <1> USE DEF UndoInv, UpdateTypeOK
  <1>1. /\ task.step = "prepared" /\ head = task.from
        /\ head' \in {task.from, task.to} /\ edited' \in BOOLEAN
        /\ moved' = IF task.op = "update" /\ head' # head THEN Point(head, head') ELSE moved
        /\ task' = [task EXCEPT !.step = "mutated"]
        /\ UNCHANGED <<latest, files, swept>>
    BY DEF GitRuns, TaskOK, TaskAimed
  <1>2. UpdateTypeOK'
    BY <1>1
  <1>3. TaskOK'
    BY <1>1 DEF TaskOK, TaskAimed, MoveIsTasks, PendingIsTasks
  <1>4. CASE head' = head
    BY <1>1, <1>2, <1>3, <1>4 DEF NeverAbove, PointsSafe
  <1>5. CASE head' # head /\ task.op = "update"
    <2>1. moved' = Point(task.from, task.to) /\ head' = task.to /\ task.from < task.to
      BY <1>1, <1>5 DEF TaskOK, TaskAimed
    <2>2. ~swept => files.pending = moved'
      BY <1>1, <1>5, <2>1 DEF TaskOK, PendingIsTasks
    <2>3. PointsSafe(files', head', moved', swept')
      BY <1>1, <2>1, <2>2 DEF PointsSafe
    <2> QED BY <1>2, <1>3, <2>1, <2>3 DEF NeverAbove
  <1>6. CASE head' # head /\ task.op # "update"
    <2>1. /\ head' < head /\ moved' = moved
          /\ head' \in Nat /\ head \in Nat /\ moved.after \in Nat
      BY <1>1, <1>6 DEF TaskOK, TaskAimed
    <2>2. NeverAbove' /\ (moved # NoPoint => head' # moved.after)
      BY <2>1 DEF NeverAbove
    <2>3. PointsSafe(files', head', moved', swept')
      BY <1>1, <2>1, <2>2 DEF PointsSafe
    <2> QED BY <1>2, <1>3, <2>2, <2>3
  <1> QED BY <1>4, <1>5, <1>6

LEMMA GitFailureKeepsUndo == UndoInv /\ GitFailed => UndoInv'
  <1> SUFFICES ASSUME UndoInv, GitFailed PROVE UndoInv'
    OBVIOUS
  <1> USE DEF UndoInv, UpdateTypeOK
  <1>1. CASE Declined(files)
    BY <1>1, TaskEnds
  <1>2. ASSUME NEW d \in Marked(files, "failed"), Declined(d)
        PROVE  UndoInv'
    <2>1. d \in Files /\ d.final = files.final /\ d.pending = files.pending
      BY MarkedFiles
    <2>2. PointsSafe(d, head, moved, swept)
      BY <2>1 DEF PointsSafe
    <2> QED BY <1>2, <2>1, <2>2, TaskEnds
  <1> DEFINE honest == [files EXCEPT !.pending = Point(task.from, head)]
  <1>3. ASSUME NEW d \in Promoted(honest), Declined(d), head # task.from,
               task.op = "update", task.step = "mutated"
        PROVE  UndoInv'
    <2>1. honest \in Files /\ honest.final = files.final
            /\ honest.pending = Point(task.from, head)
      OBVIOUS
    <2>2. moved = Point(task.from, head) /\ task.from < head
      BY <1>3 DEF TaskOK, MoveIsTasks, TaskAimed
    <2> HIDE DEF honest
    <2>3. d \in Files
      BY <2>1, PromotedFiles
    <2>4. PointsSafe(d, head, moved, swept)
      BY <2>1, <2>2, PromotedFiles DEF PointsSafe, Leads
    <2> QED BY <1>3, <2>3, <2>4, TaskEnds
  <1>4. CASE Declined(Discarded(files)) /\ head = task.from /\ task.from # task.to
             /\ task.op = "update" /\ task.step = "mutated"
    <2>1. ~swept => files.pending.after = task.to
      BY <1>4 DEF TaskOK, PendingIsTasks
    <2>2. PointsSafe(Discarded(files), head, moved, swept)
      BY <1>4, <2>1, DiscardedFiles DEF PointsSafe, Leads
    <2> QED BY <1>4, <2>2, DiscardedFiles, TaskEnds
  <1> QED BY <1>1, <1>2, <1>3, <1>4 DEF GitFailed

LEMMA GitSuccessKeepsUndo == UndoInv /\ GitReached => UndoInv'
  <1> SUFFICES ASSUME UndoInv, GitReached PROVE UndoInv'
    OBVIOUS
  <1> USE DEF UndoInv, UpdateTypeOK
  <1> DEFINE Ds == IF task.op = "update" /\ task.from # task.to /\ files.pending # NoPoint
                   THEN Promoted(files) ELSE {files}
             j == [op |-> "update", state |-> "pending-restart", expected |-> head]
  <1>0. PICK d \in Ds : \E e \in IF task.op = "update" THEN Journalled(d, j) ELSE {d} :
          files' \in Marked(e, "pending-restart")
    BY DEF GitReached
  <1>1. PICK e \in IF task.op = "update" THEN Journalled(d, j) ELSE {d} :
          files' \in Marked(e, "pending-restart")
    BY <1>0
  <1>2. /\ task.step = "mutated" /\ head = task.to
        /\ task' = [task EXCEPT !.step = "restarting"]
        /\ UNCHANGED <<head, edited, latest, moved, swept>>
    BY DEF GitReached
  <1>3. d \in Files /\ PointsSafe(d, head, moved, swept)
    <2>1. CASE task.op = "update" /\ task.from # task.to /\ files.pending # NoPoint
      <3>1. d \in Promoted(files)
        BY <2>1, <1>1
      <3>2. moved = Point(task.from, task.to)
        BY <1>2, <2>1 DEF TaskOK, MoveIsTasks
      <3>3. ~swept => files.pending = moved
        BY <1>2, <2>1, <3>2 DEF TaskOK, PendingIsTasks
      <3> QED BY <3>1, <3>3, PromotedFiles DEF PointsSafe, Leads
    <2>2. CASE ~(task.op = "update" /\ task.from # task.to /\ files.pending # NoPoint)
      BY <2>2, <1>1
    <2> QED BY <2>1, <2>2
  <1>4. e \in Files /\ e.final = d.final /\ e.pending = d.pending
    <2>1. j \in Journals
      OBVIOUS
    <2> QED BY <1>1, <1>3, <2>1, JournalledFiles
  <1>5. files' \in Files /\ files'.final = d.final /\ files'.pending = d.pending
    BY <1>1, <1>4, MarkedFiles
  <1>6. PointsSafe(files', head, moved, swept)
    BY <1>3, <1>5 DEF PointsSafe
  <1>7. UpdateTypeOK'
    BY <1>2, <1>5
  <1>8. TaskOK' /\ NeverAbove'
    BY <1>2 DEF TaskOK, TaskAimed, MoveIsTasks, PendingIsTasks, NeverAbove
  <1> QED BY <1>2, <1>6, <1>7, <1>8

\* A check settles the journal beside whatever mutation runs.
LEMMA CheckKeepsUndo == UndoInv /\ Check => UndoInv'
  <1> SUFFICES ASSUME UndoInv, Check PROVE UndoInv'
    OBVIOUS
  <1> USE DEF UndoInv, UpdateTypeOK
  <1>1. /\ files' \in Reconciled(files)
        /\ swept' = (swept \/ ConfirmsRollback(files, files'))
        /\ UNCHANGED <<head, edited, latest, task, moved>>
    BY DEF Check
  <1>2. /\ files' \in Files
        /\ \/ files'.final = files.final /\ files'.pending = files.pending
           \/ files'.final = NoPoint /\ files'.pending = NoPoint /\ swept'
    BY <1>1, ReconciledFiles
  <1>3. swept' \in BOOLEAN /\ (swept => swept')
    BY <1>1
  <1>4. PointsSafe(files', head, moved, swept')
    BY <1>2, <1>3 DEF PointsSafe, Leads
  <1>5. TaskOK' /\ NeverAbove'
    BY <1>1, <1>2, <1>3 DEF TaskOK, TaskAimed, MoveIsTasks, PendingIsTasks, NeverAbove
  <1> QED BY <1>1, <1>2, <1>3, <1>4, <1>5

LEMMA OthersKeepUndo ==
    UndoInv /\ (Restart \/ RestartFails \/ Killed \/ Publish \/ Operator) => UndoInv'
  <1> USE DEF UndoInv, UpdateTypeOK
  <1>1. ASSUME UndoInv, Restart \/ Killed PROVE UndoInv'
    BY <1>1 DEF Restart, Killed, StartsAgain, PointsSafe, NeverAbove, TaskOK, TaskAimed,
                MoveIsTasks, PendingIsTasks
  <1>2. ASSUME UndoInv, RestartFails PROVE UndoInv'
    <2>1. PICK d \in Marked(files, "restart-failed") : Declined(d)
      BY <1>2 DEF RestartFails
    <2>2. d \in Files /\ d.final = files.final /\ d.pending = files.pending
      BY <1>2, MarkedFiles
    <2>3. PointsSafe(d, head, moved, swept)
      BY <1>2, <2>2 DEF PointsSafe
    <2> QED BY <1>2, <2>1, <2>2, <2>3, TaskEnds
  <1>3. ASSUME UndoInv, Publish PROVE UndoInv'
    BY <1>3 DEF Publish, PointsSafe, NeverAbove, TaskOK, TaskAimed, MoveIsTasks, PendingIsTasks
  <1>4. ASSUME UndoInv, Operator PROVE UndoInv'
    <2>1. /\ task = NoTask /\ head' \in Nat /\ edited' \in BOOLEAN
          /\ moved' = IF head' # head THEN NoPoint ELSE moved
          /\ UNCHANGED <<latest, files, task, swept>>
      BY <1>4 DEF Operator
    <2>2. PointsSafe(files', head', moved', swept') /\ NeverAbove'
      BY <1>4, <2>1 DEF PointsSafe, NeverAbove
    <2> QED BY <1>4, <2>1, <2>2 DEF TaskOK, TaskAimed, MoveIsTasks, PendingIsTasks
  <1> QED BY <1>1, <1>2, <1>3, <1>4

\* An update that moved HEAD can be undone, whichever write failed and wherever the
\* process was killed, however many releases there are (src/dashboard/api.js).
THEOREM UndoSurvives == UpdateSpec => []UndoKept
  <1>1. UndoInv /\ [UpdateNext]_updateVars => UndoInv'
    <2>1. UndoInv /\ UNCHANGED updateVars => UndoInv'
      BY DEF UndoInv, updateVars, UpdateTypeOK, PointsSafe, NeverAbove, TaskOK, TaskAimed,
             MoveIsTasks, PendingIsTasks
    <2> QED BY <2>1, StartKeepsUndo, RollbackReadKeepsUndo, RollbackStartKeepsUndo,
               StashKeepsUndo, GitKeepsUndo, GitFailureKeepsUndo, GitSuccessKeepsUndo,
               CheckKeepsUndo, OthersKeepUndo DEF UpdateNext
  <1>2. UndoInv => UndoKept
    BY DEF UndoInv, PointsSafe, UndoKept
  <1> QED BY <1>1, <1>2, UndoInit, PTL DEF UpdateSpec

-----------------------------------------------------------------------------
SinceFresh == \A r \in Requests :
                 req[r].row \in pool => since[req[r].row] <= req[r].age

IInv == PoolTypeOK /\ SlotsExact /\ SinceFresh

USE PoolAssumption

-----------------------------------------------------------------------------
\* The holders of an account are a finite set (the requests of Node's event
\* loop), so counting them is meaningful.
LEMMA HoldersFinite ==
    ASSUME NEW a PROVE IsFiniteSet(Holders(a)) /\ Cardinality(Holders(a)) \in Nat
<1>1. Holders(a) \subseteq Requests BY DEF Holders
<1>2. QED BY <1>1, FS_Subset, FS_CardinalityType

\* Handing an account to an idle request (Place) adds that request to the
\* holders of the account and to no others.
LEMMA PlaceHolders ==
    ASSUME NEW r \in Requests, NEW a \in Rows, PoolTypeOK, Place(r, a)
    PROVE  /\ Cardinality(Holders(a)') = Cardinality(Holders(a)) + 1
           /\ \A b \in Rows \ {a} : Holders(b)' = Holders(b)
<1>1. req[r].row = NoRow /\ NoRow # a BY DEF Place, Live
<1>2. req' = [req EXCEPT ![r] = [row |-> a, key |-> key[a], age |-> 0, reserved |-> TRUE]]
  BY DEF Place
<1>3. /\ req'[r].row = a
      /\ \A s \in Requests \ {r} : req'[s] = req[s]
  BY <1>2 DEF PoolTypeOK
<1>4. Holders(a)' = Holders(a) \cup {r} BY <1>1, <1>3 DEF Holders
<1>5. r \notin Holders(a) BY <1>1 DEF Holders
<1>6. \A b \in Rows \ {a} : Holders(b)' = Holders(b)
  BY <1>1, <1>3 DEF Holders
<1>7. QED BY <1>4, <1>5, <1>6, HoldersFinite, FS_AddElement

\* The end of a request (End) takes it out of the holders of its account and
\* of no others.
LEMMA EndHolders ==
    ASSUME NEW r \in Requests, NEW refund \in BOOLEAN, PoolTypeOK, End(r, refund),
           NEW a, a = req[r].row
    PROVE  /\ a \in Rows
           /\ Cardinality(Holders(a)') = Cardinality(Holders(a)) - 1
           /\ Cardinality(Holders(a)) > 0
           /\ \A b \in Rows \ {a} : Holders(b)' = Holders(b)
<1>1. a \in Rows /\ a # NoRow BY DEF End, Live, PoolTypeOK, Held
<1>2. req' = [req EXCEPT ![r] = Idle] BY DEF End
<1>3. req'[r].row = NoRow /\ \A s \in Requests \ {r} : req'[s] = req[s]
  BY <1>2 DEF PoolTypeOK, Idle
<1>4. Holders(a)' = Holders(a) \ {r} BY <1>1, <1>3 DEF Holders
<1>5. r \in Holders(a) BY DEF Holders
<1>6. \A b \in Rows \ {a} : Holders(b)' = Holders(b)
  BY <1>1, <1>3 DEF Holders
<1>7. Cardinality(Holders(a) \ {r}) = Cardinality(Holders(a)) - 1
  <2> DEFINE H == Holders(a)
  <2>1. IsFiniteSet(H) /\ r \in H BY <1>5, HoldersFinite
  <2> HIDE DEF H
  <2>2. Cardinality(H \ {r}) = Cardinality(H) - 1 BY <2>1, FS_RemoveElement
  <2>3. QED BY <2>2 DEF H
<1>8. Cardinality(Holders(a)) # 0 BY <1>5, HoldersFinite, FS_EmptySet
<1>9. QED BY <1>1, <1>4, <1>6, <1>7, <1>8, HoldersFinite

\* A step that leaves every request's account alone leaves the holders alone.
LEMMA SameHolders ==
    ASSUME \A r \in Requests : req'[r].row = req[r].row
    PROVE  \A b : Holders(b)' = Holders(b)
BY DEF Holders

-----------------------------------------------------------------------------
\* Type correctness of the ledger, however requests release: no counter
\* exceeds its bound, and the rows outside the pool keep no slots.
LEMMA PlaceTypes ==
    ASSUME NEW r \in Requests, NEW a \in pool, PoolTypeOK, Place(r, a)
    PROVE  PoolTypeOK'
<1>1. a \in Rows BY DEF PoolTypeOK
<1>2. [row |-> a, key |-> key[a], age |-> 0, reserved |-> TRUE] \in Held
  <2>1. key[a] \in Keys /\ 0 \in 0 .. Deadline BY <1>1 DEF PoolTypeOK
  <2>2. QED BY <1>1, <2>1 DEF Held
<1>3. req' \in [Requests -> Held] BY <1>2 DEF Place, PoolTypeOK
<1>4. inflight' \in [Rows -> 0 .. MaxInflight]
  <2>1. inflight[a] + 1 \in 0 .. MaxInflight BY <1>1 DEF Place, PoolTypeOK
  <2>2. QED BY <1>1, <2>1 DEF Place, PoolTypeOK
<1>5. since' \in [Rows -> 0 .. Stale + 1]
  <2>1. 0 \in 0 .. Stale + 1 OBVIOUS
  <2>2. QED BY <2>1 DEF Place, PoolTypeOK
<1>6. \A b \in Rows \ pool : inflight'[b] = 0 BY <1>1 DEF Place, PoolTypeOK
<1>7. QED BY <1>3, <1>4, <1>5, <1>6 DEF Place, PoolTypeOK

LEMMA EndTypes ==
    ASSUME NEW r \in Requests, NEW refund \in BOOLEAN, PoolTypeOK, End(r, refund)
    PROVE  PoolTypeOK'
<1>1. Idle \in Held
  <2>1. 0 \in 0 .. Deadline OBVIOUS
  <2>2. QED BY <2>1 DEF Idle, Held
<1>2. req' \in [Requests -> Held] BY <1>1 DEF End, PoolTypeOK
<1>3. \A b \in Rows : /\ inflight[b] \in 0 .. MaxInflight
                      /\ inflight[b] > 0 => inflight[b] - 1 \in 0 .. MaxInflight
  BY DEF PoolTypeOK
<1>4. inflight' \in [Rows -> 0 .. MaxInflight] BY <1>3 DEF End
<1>5. since' \in [Rows -> 0 .. Stale + 1]
  <2>1. 0 \in 0 .. Stale + 1 OBVIOUS
  <2>2. QED BY <2>1 DEF End, PoolTypeOK
<1>6. \A b \in Rows \ pool : inflight'[b] = 0 BY DEF End, PoolTypeOK
<1>7. spent' \in [Rows -> Nat]
  <2> DEFINE a == req[r].row
             paid == a \in pool /\ req[r].reserved /\ ~(refund /\ Refunds(r))
  <2>1. a \in Rows BY DEF End, Live, PoolTypeOK, Held
  <2>2. spent[a] \in Nat BY <2>1 DEF PoolTypeOK
  <2>3. spent[a] + (IF paid THEN 1 ELSE 0) \in Nat BY <2>2
  <2>4. spent' = [spent EXCEPT ![a] = @ + (IF paid THEN 1 ELSE 0)] BY DEF End
  <2>5. QED BY <2>3, <2>4 DEF PoolTypeOK
<1>8. pool' = pool /\ key' = key /\ state' = state BY DEF End
<1>9. QED BY <1>2, <1>4, <1>5, <1>6, <1>7, <1>8 DEF PoolTypeOK

\* Whatever is selected, ended, re-keyed or swept, the ledger is well typed: no
\* counter falls below zero.
THEOREM PoolTypes == Spec => []PoolTypeOK
<1>1. Init => PoolTypeOK
  <2>1. 0 \in 0 .. Stale + 1 /\ 0 \in 0 .. Deadline /\ 0 \in 0 .. MaxInflight OBVIOUS
  <2>2. Idle \in Held BY <2>1 DEF Idle, Held
  <2>3. QED BY <2>1, <2>2 DEF Init, PoolTypeOK, States
<1>2. PoolTypeOK /\ [Next]_vars => PoolTypeOK'
  <2> SUFFICES ASSUME PoolTypeOK, [Next]_vars PROVE PoolTypeOK' OBVIOUS
  <2>1. ASSUME NEW r \in Requests, Select(r) \/ SelectDegraded(r) \/ AcquireByKey(r)
        PROVE PoolTypeOK'
    <3>1. PICK a \in pool : Place(r, a)
      BY <2>1 DEF Select, Admitted, SelectDegraded, AcquireByKey
    <3>2. QED BY <3>1, PlaceTypes
  <2>2. ASSUME NEW r \in Requests, NEW refund \in BOOLEAN, End(r, refund)
        PROVE PoolTypeOK'
    BY <2>2, EndTypes
  <2>3. CASE Cleanup
    <3>1. 0 \in 0 .. Stale + 1 /\ 0 \in 0 .. MaxInflight OBVIOUS
    <3>2. inflight' \in [Rows -> 0 .. MaxInflight] /\ \A b \in Rows \ pool : inflight'[b] = 0
      BY <2>3, <3>1 DEF Cleanup, PoolTypeOK
    <3>3. since' \in [Rows -> 0 .. Stale + 1] BY <2>3, <3>1 DEF Cleanup, PoolTypeOK
    <3>4. QED BY <2>3, <3>2, <3>3 DEF Cleanup, PoolTypeOK
  <2>4. CASE Tick
    <3>1. since' \in [Rows -> 0 .. Stale + 1] BY <2>4 DEF Tick, PoolTypeOK
    <3>2. \A r \in Requests : req'[r] \in Held
      <4> TAKE r \in Requests
      <4>1. req[r] \in Held BY DEF PoolTypeOK
      <4>2. CASE Live(r)
        <5>1. req[r].age + 1 \in 0 .. Deadline BY <2>4, <4>1, <4>2 DEF Tick, Held
        <5>2. req'[r] = [req[r] EXCEPT !.age = @ + 1] BY <2>4, <4>2 DEF Tick
        <5>3. QED BY <4>1, <5>1, <5>2 DEF Held
      <4>3. CASE ~Live(r) BY <2>4, <4>1, <4>3 DEF Tick
      <4>4. QED BY <4>2, <4>3
    <3>3. req' \in [Requests -> Held] BY <2>4, <3>2 DEF Tick
    <3>4. QED BY <2>4, <3>1, <3>3 DEF Tick, PoolTypeOK
  <2>5. ASSUME NEW a \in Rows, Expire(a) PROVE PoolTypeOK'
    <3>1. CASE spent[a] > 0 /\ spent' = [spent EXCEPT ![a] = @ - 1] /\ req' = req
      BY <2>5, <3>1 DEF Expire, PoolTypeOK
    <3>2. ASSUME NEW r \in Holders(a), req' = [req EXCEPT ![r].reserved = FALSE], spent' = spent
          PROVE PoolTypeOK'
      <4>1. r \in Requests /\ req[r] \in Held BY DEF Holders, PoolTypeOK
      <4>2. [req[r] EXCEPT !.reserved = FALSE] \in Held BY <4>1 DEF Held
      <4>3. req' \in [Requests -> Held] BY <3>2, <4>1, <4>2 DEF PoolTypeOK
      <4>4. QED BY <2>5, <3>2, <4>3 DEF Expire, PoolTypeOK
    <3>3. QED BY <2>5, <3>1, <3>2 DEF Expire
  <2>6. ASSUME NEW a \in Rows, Remove(a) PROVE PoolTypeOK'
    <3>1. 0 \in 0 .. Stale + 1 /\ 0 \in 0 .. MaxInflight /\ 0 \in Nat /\ "open" \in States
      BY DEF States
    <3>2. \A r \in Requests : req'[r] \in Held
      <4> TAKE r \in Requests
      <4>1. req[r] \in Held BY DEF PoolTypeOK
      <4>2. [req[r] EXCEPT !.reserved = FALSE] \in Held BY <4>1 DEF Held
      <4>3. QED BY <2>6, <4>1, <4>2 DEF Remove
    <3>3. req' \in [Requests -> Held] BY <2>6, <3>2 DEF Remove
    <3>4. pool' \in SUBSET Rows /\ state' \in [Rows -> States]
      BY <2>6, <3>1 DEF Remove, PoolTypeOK
    <3>5. inflight' \in [Rows -> 0 .. MaxInflight] /\ \A b \in Rows \ pool' : inflight'[b] = 0
      BY <2>6, <3>1 DEF Remove, PoolTypeOK
    <3>6. since' \in [Rows -> 0 .. Stale + 1] /\ spent' \in [Rows -> Nat]
      BY <2>6, <3>1 DEF Remove, PoolTypeOK
    <3>7. QED BY <2>6, <3>3, <3>4, <3>5, <3>6 DEF Remove, PoolTypeOK
  <2>7. ASSUME NEW a \in Rows, NEW s \in States, SetState(a, s) PROVE PoolTypeOK'
    BY <2>7 DEF SetState, PoolTypeOK
  <2>8. ASSUME NEW a \in Rows, NEW k \in Keys, Rekey(a, k) PROVE PoolTypeOK'
    BY <2>8 DEF Rekey, PoolTypeOK
  <2>9. ASSUME NEW a \in Rows, NEW k \in Keys, Add(a, k) PROVE PoolTypeOK'
    BY <2>9 DEF Add, PoolTypeOK
  <2>10. CASE UNCHANGED vars BY <2>10 DEF vars, PoolTypeOK
  <2>11. QED BY <2>1, <2>2, <2>3, <2>4, <2>5, <2>6, <2>7, <2>8, <2>9, <2>10 DEF Next
<1>3. QED BY <1>1, <1>2, PTL DEF Spec

-----------------------------------------------------------------------------
\* What the sweep finds when every counter is exact: nothing.  A live holder
\* keeps the counter's age within its own, and a counter above zero has one.
LEMMA NothingStale ==
    ASSUME IInv, NEW a \in pool, inflight[a] > 0 PROVE since[a] <= Stale
<1>1. a \in Rows /\ inflight[a] = Cardinality(Holders(a)) BY DEF IInv, SlotsExact, PoolTypeOK
<1>2. PICK r \in Requests : req[r].row = a
  <2>1. Holders(a) # {} BY <1>1, FS_EmptySet
  <2>2. QED BY <2>1 DEF Holders
<1>3. since[a] <= req[r].age BY <1>2 DEF IInv, SinceFresh
<1>4. req[r].age \in 0 .. Deadline BY DEF IInv, PoolTypeOK, Held
<1>5. since[a] \in Nat BY <1>1 DEF IInv, PoolTypeOK
<1>6. QED BY <1>3, <1>4, <1>5

\* The in-flight counters equal the number of requests that hold the account,
\* when every request releases by id: no path leaks or doubles a slot, and the
\* stale-counter sweep never touches an account in use.
THEOREM SlotsStayExact == ASSUME ByKey = {} PROVE Spec => []SlotsExact
<1>1. Init => IInv
  <2> SUFFICES ASSUME Init PROVE SlotsExact /\ SinceFresh
    <3>1. Init => PoolTypeOK
      <4>1. 0 \in 0 .. Stale + 1 /\ 0 \in 0 .. Deadline /\ 0 \in 0 .. MaxInflight OBVIOUS
      <4>2. Idle \in Held BY <4>1 DEF Idle, Held
      <4>3. QED BY <4>1, <4>2 DEF Init, PoolTypeOK, States
    <3>2. QED BY <3>1 DEF IInv
  <2>1. \A a \in pool : Holders(a) = {} BY DEF Init, Holders, Idle
  <2>2. \A a \in pool : inflight[a] = 0 BY DEF Init
  <2>3. SlotsExact BY <2>1, <2>2, FS_EmptySet DEF SlotsExact
  <2>4. SinceFresh BY DEF Init, SinceFresh, Idle
  <2>5. QED BY <2>3, <2>4
<1>2. IInv /\ PoolTypeOK' /\ [Next]_vars => IInv'
  <2> SUFFICES ASSUME IInv, PoolTypeOK', [Next]_vars PROVE SlotsExact' /\ SinceFresh'
    BY DEF IInv
  <2> USE DEF IInv
  <2>1. ASSUME NEW r \in Requests, Select(r) \/ SelectDegraded(r) \/ AcquireByKey(r)
        PROVE SlotsExact' /\ SinceFresh'
    <3>1. PICK a \in pool : Place(r, a)
      BY <2>1 DEF Select, Admitted, SelectDegraded, AcquireByKey
    <3>2. a \in Rows BY DEF PoolTypeOK
    <3>3. Cardinality(Holders(a)') = Cardinality(Holders(a)) + 1
          /\ \A b \in Rows \ {a} : Holders(b)' = Holders(b)
      BY <3>1, <3>2, PlaceHolders
    <3>4. inflight'[a] = inflight[a] + 1 /\ \A b \in Rows \ {a} : inflight'[b] = inflight[b]
      BY <3>1, <3>2 DEF Place, PoolTypeOK
    <3>5. pool' = pool BY <3>1 DEF Place
    <3>6. SlotsExact'
      <4> SUFFICES ASSUME NEW b \in pool PROVE inflight'[b] = Cardinality(Holders(b)')
        BY <3>5 DEF SlotsExact
      <4>1. CASE b = a BY <3>3, <3>4, <4>1 DEF SlotsExact
      <4>2. CASE b # a
        <5>1. b \in Rows BY DEF PoolTypeOK
        <5>2. QED BY <3>3, <3>4, <4>2, <5>1 DEF SlotsExact
      <4>3. QED BY <4>1, <4>2
    <3>7. SinceFresh'
      <4>1. since' = [since EXCEPT ![a] = 0] /\ req' = [req EXCEPT ![r] =
               [row |-> a, key |-> key[a], age |-> 0, reserved |-> TRUE]]
        BY <3>1 DEF Place
      <4>2. \A s \in Requests : req'[s].row \in pool => since'[req'[s].row] <= req'[s].age
        <5> SUFFICES ASSUME NEW s \in Requests, req'[s].row \in pool
                     PROVE since'[req'[s].row] <= req'[s].age
          OBVIOUS
        <5>1. CASE s = r BY <3>2, <4>1, <5>1 DEF PoolTypeOK
        <5>2. CASE s # r
          <6>1. req'[s] = req[s] /\ req[s].row \in Rows BY <4>1, <5>2 DEF PoolTypeOK
          <6>2. req[s].age \in Nat BY DEF PoolTypeOK, Held
          <6>3. since'[req[s].row] = 0 \/ since'[req[s].row] = since[req[s].row]
            BY <4>1, <6>1 DEF PoolTypeOK
          <6>4. since[req[s].row] <= req[s].age BY <6>1 DEF SinceFresh
          <6>5. QED BY <6>1, <6>2, <6>3, <6>4
        <5>3. QED BY <5>1, <5>2
      <4>3. QED BY <4>2, <3>5 DEF SinceFresh
    <3>8. QED BY <3>6, <3>7
  <2>2. ASSUME NEW r \in Requests, NEW refund \in BOOLEAN, End(r, refund)
        PROVE SlotsExact' /\ SinceFresh'
    <3>1. PICK a : a = req[r].row OBVIOUS
    <3>2. /\ a \in Rows
          /\ Cardinality(Holders(a)') = Cardinality(Holders(a)) - 1
          /\ Cardinality(Holders(a)) > 0
          /\ \A b \in Rows \ {a} : Holders(b)' = Holders(b)
      BY <2>2, <3>1, EndHolders
    <3>3. pool' = pool /\ Released(r) = {a} \cap pool BY <2>2, <3>1 DEF End, Released
    <3>4. \A b \in Rows : inflight'[b] = IF b \in Released(r) /\ inflight[b] > 0
                                         THEN inflight[b] - 1 ELSE inflight[b]
      BY <2>2 DEF End
    <3>5. SlotsExact'
      <4> SUFFICES ASSUME NEW b \in pool PROVE inflight'[b] = Cardinality(Holders(b)')
        BY <3>3 DEF SlotsExact
      <4>1. b \in Rows /\ inflight[b] = Cardinality(Holders(b)) BY DEF PoolTypeOK, SlotsExact
      <4>2. CASE b = a BY <3>2, <3>3, <3>4, <4>1, <4>2
      <4>3. CASE b # a BY <3>2, <3>3, <3>4, <4>1, <4>3
      <4>4. QED BY <4>2, <4>3
    <3>6. \A b \in Rows : since'[b] = 0 \/ since'[b] = since[b] BY <2>2 DEF End
    <3>7. req' = [req EXCEPT ![r] = Idle] BY <2>2 DEF End
    <3>8. \A s \in Requests : req'[s].row \in pool => since'[req'[s].row] <= req'[s].age
      <4> SUFFICES ASSUME NEW s \in Requests, req'[s].row \in pool
                   PROVE since'[req'[s].row] <= req'[s].age
        OBVIOUS
      <4>1. s # r
        <5>1. ASSUME s = r PROVE FALSE
          <6>1. req'[s].row = NoRow BY <3>7, <5>1 DEF PoolTypeOK, Idle
          <6>2. NoRow \in Rows BY <6>1 DEF PoolTypeOK
          <6>3. QED BY <6>2
        <5>2. QED BY <5>1
      <4>2. req'[s] = req[s] /\ req[s].row \in Rows BY <3>7, <4>1 DEF PoolTypeOK
      <4>3. req[s].age \in Nat BY DEF PoolTypeOK, Held
      <4>4. QED BY <3>6, <4>2, <4>3 DEF SinceFresh
    <3>9. QED BY <3>3, <3>5, <3>8 DEF SinceFresh
  <2>3. CASE Cleanup
    <3>1. PICK a \in pool : inflight[a] > 0 /\ since[a] > Stale BY <2>3 DEF Cleanup
    <3>2. since[a] \in Nat BY DEF PoolTypeOK
    <3>3. QED BY <3>1, <3>2, NothingStale
  <2>4. CASE Tick
    <3>1. \A r \in Requests : req'[r].row = req[r].row
      <4> TAKE r \in Requests
      <4>1. req[r] \in Held BY DEF PoolTypeOK
      <4>2. QED BY <2>4, <4>1 DEF Tick, Held
    <3>2. SlotsExact' BY <2>4, <3>1, SameHolders DEF Tick, SlotsExact
    <3>3. \A r \in Requests : req'[r].row \in pool => since'[req'[r].row] <= req'[r].age
      <4> SUFFICES ASSUME NEW r \in Requests, req[r].row \in pool
                   PROVE since'[req[r].row] <= req'[r].age
        BY <3>1
      <4>1. req[r] \in Held /\ req[r].row \in Rows BY DEF PoolTypeOK
      <4>2. Live(r) BY <4>1 DEF Live
      <4>3. req'[r].age = req[r].age + 1 BY <2>4, <4>1, <4>2 DEF Tick, Held
      <4>4. since'[req[r].row] \in {since[req[r].row], since[req[r].row] + 1}
        BY <2>4, <4>1 DEF Tick
      <4>5. since[req[r].row] \in Nat /\ req[r].age \in Nat BY <4>1 DEF PoolTypeOK, Held
      <4>6. since[req[r].row] <= req[r].age BY DEF SinceFresh
      <4>7. QED BY <4>3, <4>4, <4>5, <4>6
    <3>4. QED BY <2>4, <3>2, <3>3 DEF Tick, SinceFresh
  <2>5. ASSUME NEW a \in Rows, Expire(a) PROVE SlotsExact' /\ SinceFresh'
    <3>1. \A r \in Requests : req'[r].row = req[r].row /\ req'[r].age = req[r].age
      <4> TAKE r \in Requests
      <4>1. \A s \in Requests : req[s] \in Held BY DEF PoolTypeOK
      <4>2. QED BY <2>5, <4>1 DEF Expire, Holders, Held, PoolTypeOK
    <3>2. SlotsExact' BY <2>5, <3>1, SameHolders DEF Expire, SlotsExact
    <3>3. QED BY <2>5, <3>1, <3>2 DEF Expire, SinceFresh
  <2>6. ASSUME NEW a \in Rows, Remove(a) PROVE SlotsExact' /\ SinceFresh'
    <3>1. \A r \in Requests : req'[r].row = req[r].row /\ req'[r].age = req[r].age
      <4> TAKE r \in Requests
      <4>1. req[r] \in Held BY DEF PoolTypeOK
      <4>2. QED BY <2>6, <4>1 DEF Remove, Held
    <3>2. \A b \in pool' : b \in pool /\ b # a BY <2>6 DEF Remove
    <3>3. \A b \in pool' : inflight'[b] = inflight[b] /\ since'[b] = since[b]
      BY <2>6, <3>2 DEF Remove, PoolTypeOK
    <3>4. SlotsExact' BY <3>1, <3>2, <3>3, SameHolders DEF SlotsExact
    <3>5. QED BY <3>1, <3>2, <3>3, <3>4 DEF SinceFresh
  <2>7. ASSUME NEW a \in Rows, NEW s \in States, SetState(a, s)
        PROVE SlotsExact' /\ SinceFresh'
    BY <2>7, SameHolders DEF SetState, SlotsExact, SinceFresh
  <2>8. ASSUME NEW a \in Rows, NEW k \in Keys, Rekey(a, k) PROVE SlotsExact' /\ SinceFresh'
    BY <2>8, SameHolders DEF Rekey, SlotsExact, SinceFresh
  <2>9. ASSUME NEW a \in Rows, NEW k \in Keys, Add(a, k) PROVE SlotsExact' /\ SinceFresh'
    <3>1. Holders(a) = {} /\ inflight[a] = 0 BY <2>9 DEF Add, PoolTypeOK
    <3>2. \A b : Holders(b)' = Holders(b) BY <2>9, SameHolders DEF Add
    <3>3. SlotsExact' BY <2>9, <3>1, <3>2, FS_EmptySet DEF Add, SlotsExact
    <3>4. SinceFresh'
      <4>1. \A r \in Requests : req[r].row # a BY <3>1 DEF Holders
      <4>2. QED BY <2>9, <4>1 DEF Add, SinceFresh
    <3>5. QED BY <3>3, <3>4
  <2>10. CASE UNCHANGED vars
    BY <2>10, SameHolders DEF vars, SlotsExact, SinceFresh
  <2>11. QED BY <2>1, <2>2, <2>3, <2>4, <2>5, <2>6, <2>7, <2>8, <2>9, <2>10 DEF Next
<1>3. IInv => SlotsExact BY DEF IInv
<1>4. QED BY <1>1, <1>2, <1>3, PoolTypes, PTL DEF Spec

\* With a cap set, degraded serving and pinned acquisition off, and releases
\* by id, no account ever serves more requests at once than the cap allows.
THEOREM CapHolds ==
    ASSUME ByKey = {}, ~Degraded, ~Pinned PROVE Spec => []LiveWithinCap
<1> DEFINE Within == Cap > 0 => \A a \in pool : inflight[a] <= Cap
<1>1. Init => Within BY DEF Init
<1>2. Within /\ PoolTypeOK /\ [Next]_vars => Within'
  <2> SUFFICES ASSUME Within, PoolTypeOK, [Next]_vars, Cap > 0, NEW b \in pool'
               PROVE inflight'[b] <= Cap
    OBVIOUS
  <2>1. ASSUME NEW r \in Requests, Select(r) \/ SelectDegraded(r) \/ AcquireByKey(r)
        PROVE inflight'[b] <= Cap
    <3>1. PICK a \in pool : Admitted(a) /\ Place(r, a)
      BY <2>1 DEF Select, Admitted, SelectDegraded, AcquireByKey
    <3>2. a \in Rows /\ inflight[a] \in Nat /\ b \in Rows /\ inflight[b] \in Nat
          /\ b \in pool
      BY <3>1 DEF Place, PoolTypeOK
    <3>3. inflight[a] < Cap BY <3>1, <3>2 DEF Admitted, Capped
    <3>4. inflight'[b] = IF b = a THEN inflight[a] + 1 ELSE inflight[b]
      BY <3>1, <3>2 DEF Place, PoolTypeOK
    <3>5. QED BY <3>2, <3>3, <3>4
  <2>2. ASSUME NEW r \in Requests, NEW refund \in BOOLEAN, End(r, refund)
        PROVE inflight'[b] <= Cap
    <3>1. b \in pool /\ b \in Rows /\ inflight[b] \in Nat BY <2>2 DEF End, PoolTypeOK
    <3>2. inflight'[b] \in {inflight[b] - 1, inflight[b]} BY <2>2, <3>1 DEF End
    <3>3. QED BY <3>1, <3>2
  <2>3. CASE Cleanup
    <3>1. b \in Rows /\ b \in pool BY <2>3 DEF Cleanup, PoolTypeOK
    <3>2. inflight'[b] \in {0, inflight[b]} BY <2>3, <3>1 DEF Cleanup
    <3>3. QED BY <3>1, <3>2
  <2>4. CASE Tick BY <2>4 DEF Tick
  <2>5. ASSUME NEW a \in Rows, Expire(a) PROVE inflight'[b] <= Cap BY <2>5 DEF Expire
  <2>6. ASSUME NEW a \in Rows, Remove(a) PROVE inflight'[b] <= Cap
    BY <2>6 DEF Remove, PoolTypeOK
  <2>7. ASSUME NEW a \in Rows, NEW s \in States, SetState(a, s) PROVE inflight'[b] <= Cap
    BY <2>7 DEF SetState
  <2>8. ASSUME NEW a \in Rows, NEW k \in Keys, Rekey(a, k) PROVE inflight'[b] <= Cap
    BY <2>8 DEF Rekey
  <2>9. ASSUME NEW a \in Rows, NEW k \in Keys, Add(a, k) PROVE inflight'[b] <= Cap
    BY <2>9 DEF Add, PoolTypeOK
  <2>10. CASE UNCHANGED vars BY <2>10 DEF vars
  <2>11. QED BY <2>1, <2>2, <2>3, <2>4, <2>5, <2>6, <2>7, <2>8, <2>9, <2>10 DEF Next
<1>3. Within /\ SlotsExact => LiveWithinCap BY DEF LiveWithinCap, SlotsExact
<1>4. QED BY <1>1, <1>2, <1>3, PoolTypes, SlotsStayExact, PTL DEF Spec

-----------------------------------------------------------------------------
\* Clock, timer and deadlines are numbers, in memory and in the file.
ClockOK ==
    /\ now \in Nat /\ until \in Nat /\ made \in Nat /\ refusedAt \in Nat
    /\ flushIn \in 0 .. FlushEvery /\ failed \in BOOLEAN
    /\ stored.until \in Nat /\ stored.made \in Nat

\* What a refusal made is still marked as its own, which is why no snapshot
\* may take it back; a dry snapshot that lengthens it makes it its own.
MarkedOK == made > now => until >= made /\ source = "live402"

\* The same of the file, for the process that will read it.
FileOK == stored.made > now => stored.until >= stored.made /\ stored.source = "live402"

\* A refusal that is not in the file, and that no save has failed to write, is
\* marked, and younger than the interval by the time that its flush still needs.
PendingOK == stored.made = made \/ failed \/ (unsaved /\ now + flushIn <= refusedAt + FlushEvery)

QuotaInv == ClockOK /\ MarkedOK /\ FileOK /\ PendingOK

\* A save of something well marked leaves a well-marked file.
LEMMA SavesMarked ==
    ASSUME ClockOK, FileOK, now' = now, until' \in Nat, made' \in Nat, MarkedOK', SaveQuota
    PROVE  /\ stored'.until \in Nat /\ stored'.made \in Nat /\ failed' \in BOOLEAN
           /\ FileOK' /\ PendingOK'
<1> DEFINE w == Written'
<1>1. w.until = until' /\ w.made = made'
      /\ w.source = IF until' > now' THEN source' ELSE "none"
  BY DEF Written
<1>2. w.made > now' => w.until >= w.made /\ w.source = "live402"
  <2>1. now' \in Nat BY DEF ClockOK
  <2> HIDE DEF w
  <2> QED BY <1>1, <2>1 DEF MarkedOK
<1>3. CASE stored' = w /\ unsaved' = FALSE /\ failed' = FALSE
  <2> HIDE DEF w
  <2> QED BY <1>1, <1>2, <1>3 DEF FileOK, PendingOK
<1>4. CASE stored' \in {stored, w} /\ unsaved' = TRUE /\ failed' = TRUE
  <2> HIDE DEF w
  <2> QED BY <1>1, <1>2, <1>4 DEF ClockOK, FileOK, PendingOK
<1> QED BY <1>3, <1>4 DEF SaveQuota

LEMMA QuotaInductive ==
    ASSUME QuotaInv, [QuotaNext]_quotaVars
    PROVE  QuotaInv'
<1> USE QuotaAssumption DEF QuotaInv
<1>1. ASSUME NEW n \in Lengths, DrySnapshot(n) PROVE QuotaInv'
  <2>1. n \in Nat \ {0} OBVIOUS
  <2>2. /\ now' = now /\ flushIn' = flushIn /\ refusedAt' = refusedAt
        /\ until' \in Nat /\ made' \in Nat /\ MarkedOK'
    BY <1>1, <2>1 DEF DrySnapshot, Later, ClockOK, MarkedOK
  <2>3. SaveQuota BY <1>1 DEF DrySnapshot
  <2> QED BY <2>2, <2>3, SavesMarked DEF ClockOK
<1>2. ASSUME NEW n \in Lengths, Refused(n) PROVE QuotaInv'
  <2>1. n \in Nat \ {0} OBVIOUS
  <2>2. ClockOK' /\ MarkedOK' /\ FileOK'
    BY <1>2, <2>1 DEF Refused, Later, ClockOK, MarkedOK, FileOK
  <2>3. PendingOK'
    BY <1>2, <2>1 DEF Refused, Later, ClockOK, PendingOK
  <2> QED BY <2>2, <2>3
<1>3. CASE Recovered
  <2>1. /\ now' = now /\ flushIn' = flushIn /\ refusedAt' = refusedAt
        /\ until' \in Nat /\ made' \in Nat /\ MarkedOK'
    BY <1>3 DEF Recovered, ClockOK, MarkedOK
  <2>2. SaveQuota BY <1>3 DEF Recovered
  <2> QED BY <2>1, <2>2, SavesMarked DEF ClockOK
<1>4. CASE SavedByOthers
  <2>1. /\ now' = now /\ flushIn' = flushIn /\ refusedAt' = refusedAt
        /\ until' \in Nat /\ made' \in Nat /\ MarkedOK'
    BY <1>4 DEF SavedByOthers, ClockOK, MarkedOK
  <2>2. SaveQuota BY <1>4 DEF SavedByOthers
  <2> QED BY <2>1, <2>2, SavesMarked DEF ClockOK
<1>5. CASE QuotaFlush
  <2>1. /\ now' = now /\ flushIn' \in 0 .. FlushEvery /\ refusedAt' = refusedAt
        /\ until' \in Nat /\ made' \in Nat /\ MarkedOK'
    BY <1>5 DEF QuotaFlush, ClockOK, MarkedOK
  <2>2. CASE SaveQuota BY <2>1, <2>2, SavesMarked DEF ClockOK
  <2>3. CASE ~unsaved /\ UNCHANGED <<stored, unsaved, failed, made>>
    BY <2>1, <2>3 DEF ClockOK, FileOK, PendingOK
  <2> QED BY <1>5, <2>2, <2>3 DEF QuotaFlush
\* Had the flush failed to write the refusal, or not been due yet, it would be
\* one of those that a restart may lose.
<1>6. CASE Restarted
  <2>1. made' = stored.made
    <3>1. CASE MayBeLost BY <1>6, <3>1 DEF Restarted
    <3>2. CASE ~MayBeLost
      <4>1. stored.made = made BY <3>2 DEF MayBeLost, PendingOK, ClockOK
      <4> QED BY <1>6, <3>2, <4>1 DEF Restarted
    <3> QED BY <3>1, <3>2
  <2>2. /\ until' = stored.until /\ flushIn' = FlushEvery /\ failed' = FALSE
        /\ source' = IF stored.until > now THEN stored.source ELSE "none"
        /\ now' = now /\ stored' = stored /\ refusedAt' = refusedAt
    BY <1>6 DEF Restarted
  <2>3. ClockOK'
    <3>1. FlushEvery \in 0 .. FlushEvery OBVIOUS
    <3>2. stored.until \in Nat /\ stored.made \in Nat BY DEF ClockOK
    <3>3. /\ now' \in Nat /\ until' \in Nat /\ made' \in Nat /\ refusedAt' \in Nat
          /\ flushIn' \in 0 .. FlushEvery /\ failed' \in BOOLEAN
      BY <2>1, <2>2, <3>1, <3>2 DEF ClockOK
    <3>4. stored'.until \in Nat /\ stored'.made \in Nat BY <2>2, <3>2
    <3> QED BY <3>3, <3>4 DEF ClockOK
  <2>4. MarkedOK' BY <2>1, <2>2 DEF ClockOK, MarkedOK, FileOK
  <2>5. FileOK' BY <2>2 DEF FileOK
  <2>6. PendingOK' BY <2>1, <2>2 DEF PendingOK
  <2> QED BY <2>3, <2>4, <2>5, <2>6
<1>7. CASE QuotaTick
  BY <1>7 DEF QuotaTick, ClockOK, MarkedOK, FileOK, PendingOK
<1>8. CASE UNCHANGED quotaVars
  <2>1. ClockOK' BY <1>8 DEF quotaVars, ClockOK
  <2>2. MarkedOK' /\ FileOK' /\ PendingOK'
    BY <1>8 DEF quotaVars, MarkedOK, FileOK, PendingOK
  <2> QED BY <2>1, <2>2
<1> QED BY <1>1, <1>2, <1>3, <1>4, <1>5, <1>6, <1>7, <1>8 DEF QuotaNext

\* A deadline that a refusal made stands to its end, through restarts that come
\* later than its flush (RefusalHolds; auth.js, the provenance of quotaResetAt
\* and the interval of the flush).
THEOREM RefusalStands == QuotaSpec => []RefusalHolds
<1>1. QuotaInit => QuotaInv
  <2> SUFFICES ASSUME QuotaInit PROVE QuotaInv
    OBVIOUS
  <2>1. stored.until = 0 /\ stored.made = 0 BY DEF QuotaInit, Written
  <2>2. FlushEvery \in 0 .. FlushEvery BY QuotaAssumption
  <2>3. ClockOK
    <3>1. now \in Nat /\ until \in Nat /\ made \in Nat /\ refusedAt \in Nat
      BY DEF QuotaInit
    <3>2. flushIn \in 0 .. FlushEvery /\ failed \in BOOLEAN
      BY <2>2 DEF QuotaInit
    <3>3. stored.until \in Nat /\ stored.made \in Nat BY <2>1
    <3> QED BY <3>1, <3>2, <3>3 DEF ClockOK
  <2>4. MarkedOK /\ FileOK /\ PendingOK
    BY <2>1 DEF QuotaInit, MarkedOK, FileOK, PendingOK
  <2> QED BY <2>3, <2>4 DEF QuotaInv
<1>2. QuotaInv /\ [QuotaNext]_quotaVars => QuotaInv'
  BY QuotaInductive
<1>3. QuotaInv => RefusalHolds
  BY DEF QuotaInv, MarkedOK, RefusalHolds
<1> QED BY <1>1, <1>2, <1>3, PTL DEF QuotaSpec
=============================================================================
