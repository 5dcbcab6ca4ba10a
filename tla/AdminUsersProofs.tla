-------------------------- MODULE AdminUsersProofs --------------------------
(***************************************************************************)
(* Proofs about AdminUsers, for any accounts, writers, readers and keys:   *)
(* accounts and requests keep their types, and orderly administration      *)
(* never loses the last active administrator.                              *)
(***************************************************************************)
EXTENDS AdminUsers, SequenceTheorems, TLAPS

\* A change of an account gives an account.
LEMMA ChangedIsAccount ==
  ASSUME NEW op \in Changes, NEW account \in Account
  PROVE  Changed(op, account) \in Account
BY DEF Changes, Account, Changed

\* What a save may leave behind is a set of keys, as the type of "left" asks.
LEMMA SweepIsKeys == \A op : Sweep(op) \in SUBSET Keys
BY DEF Sweep

\* A save changes one account, and only those it was asked for.
LEMMA SaveChangesOne ==
  ASSUME AccountsOK, NEW w \in Writers, change[w].pc = "save",
         users' = [users EXCEPT ![change[w].user] = Changed(change[w].op, @)]
  PROVE  /\ users' \in [Users -> Account]
         /\ \A u \in Users : u # change[w].user => users'[u] = users[u]
<1>1. change[w].op \in Changes /\ change[w].user \in Users
  BY DEF AccountsOK
<1>2. users[change[w].user] \in Account
  BY <1>1 DEF AccountsOK
<1>3. Changed(change[w].op, users[change[w].user]) \in Account
  BY <1>1, <1>2, ChangedIsAccount
<1>4. QED
  BY <1>1, <1>3 DEF AccountsOK

\* Accounts, tokens and requests keep their types (admin.service.ts).
THEOREM AccountsCorrect == Spec => []AccountsOK
<1>1. Init => AccountsOK
  <2> SUFFICES ASSUME Init PROVE AccountsOK
    OBVIOUS
  <2>1. users \in [Users -> Account]
    BY DEF Init, Account
  <2>2. QED
    BY <2>1 DEF Init, AccountsOK, IdleChange
<1>2. AccountsOK /\ [Next]_vars => AccountsOK'
  <2> SUFFICES ASSUME AccountsOK, [Next]_vars PROVE AccountsOK'
    OBVIOUS
  <2>1. ASSUME NEW u \in Users, IssueToken(u) \/ TokenExpires(u) PROVE AccountsOK'
    BY <2>1 DEF AccountsOK, IssueToken, TokenExpires
  <2>2. ASSUME NEW w \in Writers, NEW op \in Changes, NEW u \in Users,
               NEW caller \in Users, Call(w, op, u, caller)
        PROVE  AccountsOK'
    BY <2>2, NoneAssumption DEF AccountsOK, Call, Changes
  <2>3. ASSUME NEW w \in Writers, Find(w) PROVE AccountsOK'
    BY <2>3 DEF AccountsOK, Find, IdleChange
  <2>4. ASSUME NEW w \in Writers, Save(w) PROVE AccountsOK'
    <3>1. users' \in [Users -> Account]
      BY <2>4, SaveChangesOne DEF Save
    <3>2. QED
      BY <2>4, <3>1, SweepIsKeys DEF AccountsOK, Save, IdleChange
  <2>5. ASSUME NEW w \in Writers, SweepKey(w) PROVE AccountsOK'
    BY <2>5 DEF AccountsOK, SweepKey
  <2>6. ASSUME NEW w \in Writers, Answer(w) \/ Fail(w) PROVE AccountsOK'
    BY <2>6 DEF AccountsOK, Answer, Fail, IdleChange
  <2>7. ASSUME NEW w \in Writers, SaveUnacknowledged(w) PROVE AccountsOK'
    <3>1. users' \in [Users -> Account]
      BY <2>7, SaveChangesOne DEF SaveUnacknowledged
    <3>2. QED
      BY <2>7, <3>1 DEF AccountsOK, SaveUnacknowledged, IdleChange
  <2>8. ASSUME NEW S \in SUBSET Users, markInactiveUsers(S) PROVE AccountsOK'
    BY <2>8 DEF AccountsOK, markInactiveUsers, Account
  <2>9. CASE Restart
    BY <2>9 DEF AccountsOK, Restart, IdleChange
  <2>10. CASE UNCHANGED <<users, adminTokens, change>>
    BY <2>10 DEF AccountsOK
  <2>11. ASSUME NEW r \in Readers,
                \/ \E k \in Keys : Miss(r, k)
                \/ Read(r) \/ CountAdmins(r) \/ Store(r) \/ FillFails(r)
         PROVE  UNCHANGED <<users, adminTokens, change>>
    BY <2>11 DEF Miss, Read, CountAdmins, Store, FillFails
  <2>12. ASSUME NEW k \in Keys, EntryExpires(k)
         PROVE  UNCHANGED <<users, adminTokens, change>>
    BY <2>12 DEF EntryExpires
  <2>13. CASE UNCHANGED vars
    BY <2>10, <2>13 DEF vars
  <2>14. QED
    BY <2>1, <2>2, <2>3, <2>4, <2>5, <2>6, <2>7, <2>8, <2>9, <2>10, <2>11, <2>12,
       <2>13 DEF Next
<1>3. QED
  BY <1>1, <1>2, PTL DEF Spec

\* A step that keeps every active administrator active, begins no request and
\* disturbs none keeps the orderly invariant.
LEMMA AdminsKept ==
  ASSUME AnAdminRemains, OrderlyChange, disorder' = disorder,
         \A u \in Users : Active(u) => Active(u)',
         \A w \in Writers :
            \/ change'[w].pc = "idle"
            \/ change'[w].pc = change[w].pc /\ change'[w].user = change[w].user
            \/ change'[w].pc = "save" /\ change[w].pc = "find"
                /\ change'[w].user = change[w].user
  PROVE  AnAdminRemains' /\ OrderlyChange'
BY DEF AnAdminRemains, OrderlyChange

\* Saving leaves alone the other administrator the request was checked to have.
LEMMA SaveLeavesAnAdmin ==
  ASSUME AdminIInv, NEW w \in Writers, change[w].pc = "save", ~disorder,
         users' = [users EXCEPT ![change[w].user] = Changed(change[w].op, @)]
  PROVE  \E u \in Users : Active(u)'
<1>1. PICK u \in Users : Active(u) /\ u # change[w].user
  BY DEF AdminIInv, OrderlyChange
<1>2. users'[u] = users[u]
  BY <1>1, SaveChangesOne DEF AdminIInv
<1>3. QED
  BY <1>1, <1>2 DEF Active

\* After the save, the request under way is the only one, and past its check.
LEMMA SaveStaysOrderly ==
  ASSUME AdminIInv, NEW w \in Writers, change[w].pc = "save", disorder' = disorder,
         users' = [users EXCEPT ![change[w].user] = Changed(change[w].op, @)],
         \A v \in Writers \ {w} : change'[v] = change[v],
         change'[w].pc \in {"idle", "sweep"}
  PROVE  AnAdminRemains' /\ OrderlyChange'
<1>1. ~disorder => \E u \in Users : Active(u)'
  BY SaveLeavesAnAdmin
<1>2. ASSUME ~disorder, NEW v \in Writers, v # w PROVE change'[v].pc = "idle"
  BY <1>2 DEF AdminIInv, OrderlyChange
<1>3. QED
  BY <1>1, <1>2 DEF AnAdminRemains, OrderlyChange

\* The inductive invariant: requests in order leave another admin in place.
THEOREM InductiveInvariant == Spec => []AdminIInv
<1>1. Init => AdminIInv
  <2>1. Init => AccountsOK
    BY DEF Init, AccountsOK, IdleChange, Account
  <2>2. Init => AnAdminRemains
    BY AdminsAssumption DEF Init, AnAdminRemains, Active
  <2>3. Init => OrderlyChange
    BY DEF Init, OrderlyChange, IdleChange
  <2>4. QED
    BY <2>1, <2>2, <2>3 DEF AdminIInv
<1>2. AdminIInv /\ AccountsOK' /\ [Next]_vars => AdminIInv'
  <2> SUFFICES ASSUME AdminIInv, AccountsOK', [Next]_vars
               PROVE  AnAdminRemains' /\ OrderlyChange'
    BY DEF AdminIInv
  <2> USE DEF AdminIInv
  <2>1. ASSUME NEW w \in Writers, NEW op \in Changes, NEW u \in Users,
               NEW caller \in Users, Call(w, op, u, caller)
        PROVE  AnAdminRemains' /\ OrderlyChange'
    <3>1. \A v \in Users : Active(v)' <=> Active(v)
      BY <2>1 DEF Call, Active
    <3>2. ASSUME ~disorder'
          PROVE  /\ Active(caller) /\ caller # u /\ ~disorder
                 /\ \A v \in Writers : change[v].pc = "idle"
      BY <2>1, <3>2 DEF Call, Busy
    <3>3. /\ change'[w].user = u
          /\ \A v \in Writers : v # w => change'[v] = change[v]
      BY <2>1 DEF Call, AccountsOK
    <3>4. AnAdminRemains'
      BY <3>1, <3>2 DEF AnAdminRemains
    <3>5. OrderlyChange'
      BY <3>1, <3>2, <3>3 DEF OrderlyChange
    <3>6. QED
      BY <3>4, <3>5
  <2>2. ASSUME NEW w \in Writers, Save(w)
        PROVE  AnAdminRemains' /\ OrderlyChange'
    <3>1. /\ \A v \in Writers \ {w} : change'[v] = change[v]
          /\ change'[w].pc \in {"idle", "sweep"}
      BY <2>2 DEF Save, AccountsOK, IdleChange
    <3>2. QED
      BY <2>2, <3>1, SaveStaysOrderly DEF Save
  <2>3. ASSUME NEW w \in Writers, SaveUnacknowledged(w)
        PROVE  AnAdminRemains' /\ OrderlyChange'
    <3>1. /\ \A v \in Writers \ {w} : change'[v] = change[v]
          /\ change'[w].pc \in {"idle", "sweep"}
      BY <2>3 DEF SaveUnacknowledged, AccountsOK, IdleChange
    <3>2. QED
      BY <2>3, <3>1, SaveStaysOrderly DEF SaveUnacknowledged
  <2>4. ASSUME NEW S \in SUBSET Users, markInactiveUsers(S)
        PROVE  AnAdminRemains' /\ OrderlyChange'
    <3>1. \A u \in Users : Active(u) => Active(u)'
      BY <2>4 DEF markInactiveUsers, Active, AccountsOK, Account
    <3>2. QED
      BY <2>4, <3>1, AdminsKept DEF markInactiveUsers
  <2>5. ASSUME NEW w \in Writers, Find(w) \/ SweepKey(w) \/ Answer(w) \/ Fail(w)
        PROVE  AnAdminRemains' /\ OrderlyChange'
    <3>1. \A u \in Users : Active(u) => Active(u)'
      BY <2>5 DEF Find, SweepKey, Answer, Fail, Active
    <3>2. disorder' = disorder
      BY <2>5 DEF Find, SweepKey, Answer, Fail
    <3>3. \A v \in Writers :
            \/ change'[v].pc = "idle"
            \/ change'[v].pc = change[v].pc /\ change'[v].user = change[v].user
            \/ change'[v].pc = "save" /\ change[v].pc = "find"
                /\ change'[v].user = change[v].user
      BY <2>5 DEF Find, SweepKey, Answer, Fail, AccountsOK, IdleChange
    <3>4. QED
      BY <3>1, <3>2, <3>3, AdminsKept
  <2>6. CASE Restart
    <3>1. \A u \in Users : Active(u) => Active(u)'
      BY <2>6 DEF Restart, Active
    <3>2. \A w \in Writers : change'[w].pc = "idle"
      BY <2>6 DEF Restart, IdleChange
    <3>3. QED
      BY <2>6, <3>1, <3>2, AdminsKept DEF Restart
  <2>7. CASE UNCHANGED <<users, change, disorder>>
    BY <2>7 DEF AnAdminRemains, OrderlyChange, Active
  <2>8. ASSUME NEW u \in Users, IssueToken(u) \/ TokenExpires(u)
        PROVE  UNCHANGED <<users, change, disorder>>
    BY <2>8 DEF IssueToken, TokenExpires
  <2>9. ASSUME NEW r \in Readers,
               \/ \E k \in Keys : Miss(r, k)
               \/ Read(r) \/ CountAdmins(r) \/ Store(r) \/ FillFails(r)
        PROVE  UNCHANGED <<users, change, disorder>>
    BY <2>9 DEF Miss, Read, CountAdmins, Store, FillFails
  <2>10. ASSUME NEW k \in Keys, EntryExpires(k)
         PROVE  UNCHANGED <<users, change, disorder>>
    BY <2>10 DEF EntryExpires
  <2>11. CASE UNCHANGED vars
    BY <2>7, <2>11 DEF vars
  <2>12. QED
    BY <2>1, <2>2, <2>3, <2>4, <2>5, <2>6, <2>7, <2>8, <2>9, <2>10, <2>11 DEF Next
<1>3. QED
  BY <1>1, <1>2, AccountsCorrect, PTL DEF Spec

\* Whatever administrators do in orderly fashion, through failures, restarts and the
\* nightly job, an active administrator remains (admin.controller.ts:50-89).
THEOREM AdminsRemain == Spec => []AnAdminRemains
<1>1. AdminIInv => AnAdminRemains
  BY DEF AdminIInv
<1>2. QED
  BY <1>1, InductiveInvariant, PTL

-----------------------------------------------------------------------------
(* The cache.  What a reader holds shows the accounts as they are unless   *)
(* they changed since it began to read.                                    *)
FillsKnown ==
    /\ fill = [r \in Readers |-> [pc |-> fill[r].pc, key |-> fill[r].key,
                                  read |-> fill[r].read, overtaken |-> fill[r].overtaken]]
    /\ \A r \in Readers :
        /\ fill[r].pc \in {"idle", "miss", "count", "set"}
        /\ fill[r].key \in IF fill[r].pc = "idle" THEN {None} ELSE Keys

FillsCurrent == \A r \in Readers : ~fill[r].overtaken =>
    /\ fill[r].pc = "set" => fill[r].read = View(fill[r].key, users)
    /\ fill[r].pc = "count" =>
            fill[r].key = "details" /\ fill[r].read = <<Counted("user", users)>>

EntriesKnown == cache = [k \in Keys |-> cache[k]] /\ unswept \subseteq Keys

CacheIInv == AccountsOK /\ FillsKnown /\ FillsCurrent /\ EntriesKnown /\ CachedListsCurrent

\* What a reader does to its record.
LEMMA FillMissed ==
  ASSUME NEW k, NEW g, g = [IdleFill EXCEPT !.pc = "miss", !.key = k]
  PROVE  /\ g = [pc |-> g.pc, key |-> g.key, read |-> g.read, overtaken |-> g.overtaken]
         /\ g.pc = "miss" /\ g.key = k
<1>1. IdleFill = [pc |-> IdleFill.pc, key |-> IdleFill.key, read |-> IdleFill.read,
                  overtaken |-> IdleFill.overtaken]
  BY DEF IdleFill
<1>2. QED
  BY <1>1

\* A fill whose read is answered is a record like the one it was.
LEMMA FillCounted ==
  ASSUME NEW f, f = [pc |-> f.pc, key |-> f.key, read |-> f.read, overtaken |-> f.overtaken],
         NEW read, NEW g, g = [f EXCEPT !.pc = "set", !.read = read]
  PROVE  /\ g = [pc |-> g.pc, key |-> g.key, read |-> g.read, overtaken |-> g.overtaken]
         /\ g.pc = "set" /\ g.key = f.key /\ g.read = read
         /\ g.overtaken <=> f.overtaken
OBVIOUS

\* A write overtakes every fill that is under way.
LEMMA FillOvertaken ==
  ASSUME NEW g, NEW pc, NEW key, NEW read,
         g = [pc |-> pc, key |-> key, read |-> read, overtaken |-> pc # "idle"]
  PROVE  ~g.overtaken => g.pc = "idle"
OBVIOUS

\* A list depends on the accounts alone.
LEMMA ViewSame ==
  ASSUME users' = users, NEW k
  PROVE  View(k, users)' = View(k, users)
BY DEF View, Counted, Listed

\* While the accounts stay, an entry stays current or excused if it is not replaced.
LEMMA EntriesKept ==
  ASSUME CachedListsCurrent, users' = users,
         \A k \in Keys : cache'[k] # None =>
            /\ cache'[k] = cache[k]
            /\ k \in unswept => k \in unswept'
            /\ \A w \in Writers : k \in change[w].left =>
                    k \in unswept' \/ k \in change'[w].left
  PROVE  CachedListsCurrent'
BY ViewSame DEF CachedListsCurrent

\* When the accounts change, every entry is to be swept or known to be spared.
LEMMA EntriesExcused ==
  ASSUME \A k \in Keys : cache'[k] # None =>
            k \in unswept' \/ \E w \in Writers : k \in change'[w].left
  PROVE  CachedListsCurrent'
BY DEF CachedListsCurrent

\* What leaves the users and the fills alone keeps what the fills know.
LEMMA FillsSame ==
  ASSUME FillsKnown, FillsCurrent, users' = users, fill' = fill
  PROVE  FillsKnown' /\ FillsCurrent'
<1>1. /\ FillsKnown'
      /\ \A k : View(k, users)' = View(k, users)
      /\ Counted("user", users)' = Counted("user", users)
  BY ViewSame DEF FillsKnown, Counted
<1>2. QED
  BY <1>1 DEF FillsCurrent

\* One reader moves on, and knows what it has read.
LEMMA OneFillMoves ==
  ASSUME FillsKnown, FillsCurrent, users' = users, NEW r \in Readers, NEW new,
         fill' = [fill EXCEPT ![r] = new],
         new = [pc |-> new.pc, key |-> new.key, read |-> new.read, overtaken |-> new.overtaken],
         new.pc \in {"idle", "miss", "count", "set"},
         new.key \in IF new.pc = "idle" THEN {None} ELSE Keys,
         ~new.overtaken =>
            /\ new.pc = "set" => new.read = View(new.key, users)
            /\ new.pc = "count" =>
                    new.key = "details" /\ new.read = <<Counted("user", users)>>
  PROVE  FillsKnown' /\ FillsCurrent'
<1>1. fill'[r] = new /\ \A q \in Readers \ {r} : fill'[q] = fill[q]
  BY DEF FillsKnown
<1>2. FillsKnown'
  BY <1>1 DEF FillsKnown
<1>3. /\ \A k : View(k, users)' = View(k, users)
      /\ Counted("user", users)' = Counted("user", users)
  BY ViewSame DEF Counted
<1>4. QED
  BY <1>1, <1>2, <1>3 DEF FillsCurrent

\* When the accounts change, no reader is taken to know them.
LEMMA FillsOvertaken ==
  ASSUME FillsKnown, fill' = Overtaken
  PROVE  FillsKnown' /\ FillsCurrent'
<1>1. \A r \in Readers :
        /\ fill'[r] = [pc |-> fill[r].pc, key |-> fill[r].key, read |-> fill[r].read,
                       overtaken |-> fill[r].pc # "idle"]
  BY DEF Overtaken, FillsKnown
<1>2. FillsKnown'
  BY <1>1 DEF FillsKnown, Overtaken
<1>3. ASSUME NEW r \in Readers PROVE ~fill'[r].overtaken => fill'[r].pc = "idle"
  BY <1>1, FillOvertaken
<1>4. QED
  BY <1>2, <1>3 DEF FillsCurrent

\* The two counts of the details, one after the other.
LEMMA TwoCounts == ASSUME NEW m, NEW n PROVE Append(<<m>>, n) = <<m, n>>
<1> DEFINE a == Append(<<m>>, n)
           b == <<m, n>>
           S == {m, n}
<1>1. <<m>> \in Seq(S) /\ b \in Seq(S)
  OBVIOUS
<1>2. a \in Seq(S) /\ Len(a) = 2 /\ a[1] = m /\ a[2] = n
  BY <1>1
<1>3. Len(b) = 2 /\ b[1] = m /\ b[2] = n
  OBVIOUS
<1>4. \A i \in 1..2 : i = 1 \/ i = 2
  OBVIOUS
<1> HIDE DEF a, b, S
<1>5. a = b
  BY <1>1, <1>2, <1>3, <1>4, SeqEqual
<1>6. QED
  BY <1>5 DEF a, b

\* An empty cache is current.
LEMMA CacheInit == Init => CacheIInv
<1> SUFFICES ASSUME Init PROVE CacheIInv
  OBVIOUS
<1>1. AccountsOK
  BY DEF Init, AccountsOK, IdleChange, Account
<1>2. FillsKnown /\ FillsCurrent
  BY DEF Init, FillsKnown, FillsCurrent, IdleFill
<1>3. EntriesKnown /\ CachedListsCurrent
  BY DEF Init, EntriesKnown, CachedListsCurrent
<1>4. QED
  BY <1>1, <1>2, <1>3 DEF CacheIInv

\* Every step keeps the cache's entries and the fills under way current.
LEMMA CacheStep == CacheIInv /\ AccountsOK' /\ [Next]_vars => CacheIInv'
<1> SUFFICES ASSUME CacheIInv, AccountsOK', [Next]_vars
             PROVE  FillsKnown' /\ FillsCurrent' /\ EntriesKnown' /\ CachedListsCurrent'
  BY DEF CacheIInv
<1> USE DEF CacheIInv
<1>1. ASSUME UNCHANGED <<users, fill, cache, unswept, change>>
      PROVE  FillsKnown' /\ FillsCurrent' /\ EntriesKnown' /\ CachedListsCurrent'
  BY <1>1, FillsSame, EntriesKept DEF EntriesKnown
<1>2. ASSUME NEW u \in Users, IssueToken(u) \/ TokenExpires(u)
      PROVE  FillsKnown' /\ FillsCurrent' /\ EntriesKnown' /\ CachedListsCurrent'
  BY <1>1, <1>2 DEF IssueToken, TokenExpires
<1>3. ASSUME NEW w \in Writers, NEW op \in Changes, NEW u \in Users,
             NEW caller \in Users, Call(w, op, u, caller)
      PROVE  FillsKnown' /\ FillsCurrent' /\ EntriesKnown' /\ CachedListsCurrent'
  <2>1. /\ UNCHANGED <<users, fill, cache, unswept>>
        /\ change[w].left = {} /\ \A v \in Writers \ {w} : change'[v] = change[v]
    BY <1>3 DEF Call, AccountsOK
  <2>2. QED
    BY <2>1, FillsSame, EntriesKept DEF EntriesKnown
<1>4. ASSUME NEW w \in Writers, Find(w) \/ Answer(w)
      PROVE  FillsKnown' /\ FillsCurrent' /\ EntriesKnown' /\ CachedListsCurrent'
  <2>1. /\ UNCHANGED <<users, fill, cache, unswept>>
        /\ change[w].left = {} /\ \A v \in Writers \ {w} : change'[v] = change[v]
    BY <1>4 DEF Find, Answer, AccountsOK
  <2>2. QED
    BY <2>1, FillsSame, EntriesKept DEF EntriesKnown
<1>5. ASSUME NEW w \in Writers, Save(w)
      PROVE  FillsKnown' /\ FillsCurrent' /\ EntriesKnown' /\ CachedListsCurrent'
  <2> DEFINE op == change[w].op
  <2>1. /\ fill' = Overtaken /\ cache' = cache
        /\ unswept' = unswept \cup Present(Spared(op))
        /\ change'[w].left = Keys \ Spared(op)
    BY <1>5 DEF Save, AccountsOK, IdleChange, Sweep
  <2> HIDE DEF op
  <2>2. Present(Spared(op)) = {k \in Keys : k \in Spared(op) /\ cache[k] # None}
    BY DEF Present
  <2>3. CachedListsCurrent'
    BY <2>1, <2>2, EntriesExcused
  <2>4. EntriesKnown'
    BY <2>1, <2>2 DEF EntriesKnown
  <2>5. QED
    BY <2>1, <2>3, <2>4, FillsOvertaken
<1>6. ASSUME NEW w \in Writers, SweepKey(w)
      PROVE  FillsKnown' /\ FillsCurrent' /\ EntriesKnown' /\ CachedListsCurrent'
  <2>1. PICK k \in change[w].left :
            /\ change' = [change EXCEPT ![w].left = @ \ {k}]
            /\ cache' = [cache EXCEPT ![k] = None]
            /\ unswept' = unswept \ {k}
    BY <1>6 DEF SweepKey
  <2>2. /\ UNCHANGED <<users, fill>> /\ k \in Keys
        /\ \A j \in Keys : cache'[j] = IF j = k THEN None ELSE cache[j]
        /\ \A v \in Writers : change[v].left \ {k} \subseteq change'[v].left
    BY <1>6, <2>1 DEF SweepKey, AccountsOK, EntriesKnown
  <2>3. CachedListsCurrent'
    BY <2>1, <2>2, EntriesKept
  <2>4. EntriesKnown'
    BY <2>1, <2>2 DEF EntriesKnown
  <2>5. QED
    BY <2>2, <2>3, <2>4, FillsSame
<1>7. ASSUME NEW w \in Writers, Fail(w)
      PROVE  FillsKnown' /\ FillsCurrent' /\ EntriesKnown' /\ CachedListsCurrent'
  <2>1. /\ UNCHANGED <<users, fill, cache>>
        /\ unswept' = unswept \cup {k \in change[w].left \cap Keys : cache[k] # None}
        /\ \A v \in Writers \ {w} : change'[v] = change[v]
    BY <1>7 DEF Fail, Present, AccountsOK
  <2>2. QED
    BY <2>1, FillsSame, EntriesKept DEF EntriesKnown
<1>8. ASSUME fill' = Overtaken, cache' = cache, unswept' = unswept \cup Present(Keys)
      PROVE  FillsKnown' /\ FillsCurrent' /\ EntriesKnown' /\ CachedListsCurrent'
  BY <1>8, FillsOvertaken, EntriesExcused DEF EntriesKnown, Present
<1>9. ASSUME NEW w \in Writers, SaveUnacknowledged(w)
      PROVE  FillsKnown' /\ FillsCurrent' /\ EntriesKnown' /\ CachedListsCurrent'
  BY <1>8, <1>9 DEF SaveUnacknowledged
<1>10. ASSUME NEW S \in SUBSET Users, markInactiveUsers(S)
       PROVE  FillsKnown' /\ FillsCurrent' /\ EntriesKnown' /\ CachedListsCurrent'
  BY <1>8, <1>10 DEF markInactiveUsers
<1>11. ASSUME UNCHANGED <<users, change, cache, unswept>>, FillsKnown', FillsCurrent'
       PROVE  FillsKnown' /\ FillsCurrent' /\ EntriesKnown' /\ CachedListsCurrent'
  BY <1>11, EntriesKept DEF EntriesKnown
<1>12. ASSUME NEW r \in Readers, NEW k \in Keys, Miss(r, k)
       PROVE  FillsKnown' /\ FillsCurrent' /\ EntriesKnown' /\ CachedListsCurrent'
  <2> DEFINE new == [IdleFill EXCEPT !.pc = "miss", !.key = k]
  <2>1. fill' = [fill EXCEPT ![r] = new] /\ users' = users
    BY <1>12 DEF Miss
  <2>2. new = [IdleFill EXCEPT !.pc = "miss", !.key = k]
    OBVIOUS
  <2> HIDE DEF new
  <2>3. FillsKnown' /\ FillsCurrent'
    <3>1. /\ new = [pc |-> new.pc, key |-> new.key, read |-> new.read,
                    overtaken |-> new.overtaken]
          /\ new.pc = "miss" /\ new.key = k
      BY <2>2, FillMissed
    <3>2. QED
      BY <2>1, <3>1, OneFillMoves
  <2>4. QED
    BY <1>11, <1>12, <2>3 DEF Miss
<1>13. ASSUME NEW r \in Readers, Read(r)
       PROVE  FillsKnown' /\ FillsCurrent' /\ EntriesKnown' /\ CachedListsCurrent'
  <2> DEFINE k == fill[r].key
             new == [pc |-> IF k = "details" THEN "count" ELSE "set", key |-> k,
                     read |-> FirstRead(k), overtaken |-> FALSE]
  <2>1. fill' = [fill EXCEPT ![r] = new] /\ users' = users /\ k \in Keys
    BY <1>13 DEF Read, FillsKnown
  <2>2. new.read = IF k = "details" THEN <<Counted("user", users)>> ELSE View(k, users)
    BY DEF FirstRead
  <2>3. FillsKnown' /\ FillsCurrent'
    <3>1. /\ new.pc = IF k = "details" THEN "count" ELSE "set"
          /\ new.key = k
          /\ new = [pc |-> new.pc, key |-> new.key, read |-> new.read,
                    overtaken |-> new.overtaken]
      OBVIOUS
    <3> HIDE DEF new, k
    <3>2. QED
      BY <2>1, <2>2, <3>1, OneFillMoves
  <2>4. QED
    BY <1>11, <1>13, <2>3 DEF Read
<1>14. ASSUME NEW r \in Readers, CountAdmins(r)
       PROVE  FillsKnown' /\ FillsCurrent' /\ EntriesKnown' /\ CachedListsCurrent'
  <2> DEFINE admins == Counted("admin", users)
             new == [fill[r] EXCEPT !.pc = "set", !.read = Append(@, admins)]
  <2>1. /\ fill' = [fill EXCEPT ![r] = new] /\ users' = users
        /\ fill[r].pc = "count" /\ fill[r].key \in Keys
    BY <1>14 DEF CountAdmins, FillsKnown
  <2>2. /\ new = [pc |-> new.pc, key |-> new.key, read |-> new.read,
                  overtaken |-> new.overtaken]
        /\ new.pc = "set" /\ new.key = fill[r].key /\ new.read = Append(fill[r].read, admins)
        /\ new.overtaken <=> fill[r].overtaken
    <3>1. fill[r] = [pc |-> fill[r].pc, key |-> fill[r].key, read |-> fill[r].read,
                     overtaken |-> fill[r].overtaken]
      BY DEF FillsKnown
    <3>2. new = [fill[r] EXCEPT !.pc = "set", !.read = Append(fill[r].read, admins)]
      OBVIOUS
    <3> HIDE DEF admins, new
    <3>3. QED
      BY <3>1, <3>2, FillCounted
  <2>3. ASSUME ~fill[r].overtaken
        PROVE  Append(fill[r].read, admins) = View(fill[r].key, users)
    <3>1. fill[r].key = "details" /\ fill[r].read = <<Counted("user", users)>>
      BY <2>1, <2>3 DEF FillsCurrent
    <3>2. Append(<<Counted("user", users)>>, admins) = <<Counted("user", users), admins>>
      BY TwoCounts
    <3>3. QED
      BY <3>1, <3>2 DEF View
  <2> HIDE DEF new
  <2>4. FillsKnown' /\ FillsCurrent'
    BY <2>1, <2>2, <2>3, OneFillMoves
  <2>5. QED
    BY <1>11, <1>14, <2>4 DEF CountAdmins
<1>15. ASSUME NEW r \in Readers, Store(r)
       PROVE  FillsKnown' /\ FillsCurrent' /\ EntriesKnown' /\ CachedListsCurrent'
  <2> DEFINE f == fill[r]
  <2>1. /\ f.pc = "set" /\ f.key \in Keys /\ UNCHANGED <<users, change>>
        /\ cache' = [cache EXCEPT ![f.key] = f.read]
        /\ unswept' = IF f.overtaken THEN unswept \cup {f.key} ELSE unswept \ {f.key}
        /\ fill' = [fill EXCEPT ![r] = IdleFill]
    BY <1>15 DEF Store, FillsKnown
  <2>2. ~f.overtaken => f.read = View(f.key, users)
    BY <2>1 DEF FillsCurrent
  <2>3. FillsKnown' /\ FillsCurrent'
    BY <2>1, OneFillMoves DEF IdleFill
  <2>4. EntriesKnown'
    BY <2>1 DEF EntriesKnown
  <2>5. /\ cache'[f.key] = f.read
        /\ \A k \in Keys \ {f.key} : cache'[k] = cache[k] /\ (k \in unswept => k \in unswept')
        /\ f.overtaken => f.key \in unswept'
    BY <2>1 DEF EntriesKnown
  <2> HIDE DEF f
  <2>6. CachedListsCurrent'
    BY <2>1, <2>2, <2>5, ViewSame DEF CachedListsCurrent
  <2>7. QED
    BY <2>3, <2>4, <2>6
<1>16. ASSUME NEW r \in Readers, FillFails(r)
       PROVE  FillsKnown' /\ FillsCurrent' /\ EntriesKnown' /\ CachedListsCurrent'
  <2>1. fill' = [fill EXCEPT ![r] = IdleFill] /\ users' = users
    BY <1>16 DEF FillFails
  <2>2. FillsKnown' /\ FillsCurrent'
    BY <2>1, OneFillMoves DEF IdleFill
  <2>3. QED
    BY <1>11, <1>16, <2>2 DEF FillFails
<1>17. ASSUME NEW k \in Keys, EntryExpires(k)
       PROVE  FillsKnown' /\ FillsCurrent' /\ EntriesKnown' /\ CachedListsCurrent'
  <2>1. /\ UNCHANGED <<users, fill, change>> /\ unswept' = unswept \ {k}
        /\ cache' = [cache EXCEPT ![k] = None]
        /\ \A j \in Keys : cache'[j] = IF j = k THEN None ELSE cache[j]
    BY <1>17 DEF EntryExpires, EntriesKnown
  <2>2. CachedListsCurrent'
    BY <2>1, EntriesKept
  <2>3. EntriesKnown'
    BY <2>1 DEF EntriesKnown
  <2>4. QED
    BY <2>1, <2>2, <2>3, FillsSame
<1>18. CASE Restart
  <2>1. /\ UNCHANGED <<users, cache>>
        /\ \A w \in Writers : change[w].left \subseteq Keys
        /\ \A k \in Keys : k \in unswept' <=>
                \/ k \in unswept
                \/ cache[k] # None /\ \E w \in Writers : k \in change[w].left
        /\ unswept' \subseteq Keys
    BY <1>18 DEF Restart, Present, AccountsOK, EntriesKnown
  <2>2. FillsKnown' /\ FillsCurrent'
    BY <1>18 DEF Restart, FillsKnown, FillsCurrent, IdleFill
  <2>3. CachedListsCurrent'
    BY <2>1, EntriesKept
  <2>4. QED
    BY <2>1, <2>2, <2>3 DEF EntriesKnown
<1>19. CASE UNCHANGED vars
  BY <1>1, <1>19 DEF vars
<1>20. QED
  BY <1>2, <1>3, <1>4, <1>5, <1>6, <1>7, <1>9, <1>10, <1>12, <1>13, <1>14, <1>15, <1>16, <1>17,
     <1>18, <1>19 DEF Next

\* The cache's inductive invariant: a fill that no write overtook has read the accounts as
\* they are, so that an outdated entry is always one of the known exceptions.
THEOREM CacheInvariant == Spec => []CacheIInv
<1>1. CacheIInv => AccountsOK
  BY DEF CacheIInv
<1>2. QED
  BY <1>1, CacheInit, CacheStep, AccountsCorrect, PTL DEF Spec

-----------------------------------------------------------------------------
(* The shape of the entries: each reader has read what its key asks for,   *)
(* however old it is by now.                                               *)
EntriesShaped ==
    /\ \A r \in Readers :
        /\ fill[r].pc = "set" => Shaped(fill[r].key, fill[r].read)
        /\ fill[r].pc = "count" => fill[r].key = "details" /\ \E n : fill[r].read = <<n>>
    /\ \A k \in Keys : cache[k] # None => Shaped(k, cache[k])

\* A list of the accounts as they are is shaped.
LEMMA ViewShaped ==
  ASSUME users \in [Users -> Account], NEW k, k # "details"
  PROVE  Shaped(k, View(k, users))
<1>1. Listed(k, users) \subseteq Users /\ DOMAIN View(k, users) = Listed(k, users)
  BY DEF Listed, View
<1>2. ASSUME NEW u \in Listed(k, users)
      PROVE  /\ View(k, users)[u] = users[u]
             /\ k = "active" => ~users[u].deleted
             /\ k = "deleted" => users[u].deleted
  BY <1>2 DEF Listed, View
<1>3. QED
  BY <1>1, <1>2 DEF Shaped

\* Two counts are two counts, whatever was counted first.
LEMMA CountsShaped ==
  ASSUME NEW n, NEW m, NEW k, k = "details"
  PROVE  Shaped(k, Append(<<n>>, m))
<1>1. Append(<<n>>, m) = <<n, m>>
  BY TwoCounts
<1>2. QED
  BY <1>1 DEF Shaped

\* What leaves the readers alone, except that it may overtake them, and adds no entry
\* keeps the shapes.
LEMMA ShapesSame ==
  ASSUME EntriesShaped,
         \A r \in Readers : /\ fill'[r].pc = fill[r].pc /\ fill'[r].key = fill[r].key
                            /\ fill'[r].read = fill[r].read,
         \A k \in Keys : cache'[k] # None => cache'[k] = cache[k]
  PROVE  EntriesShaped'
BY DEF EntriesShaped, Shaped

\* One reader moves on.
LEMMA ShapesMoved ==
  ASSUME EntriesShaped, FillsKnown, NEW r \in Readers, NEW new,
         fill' = [fill EXCEPT ![r] = new],
         new.pc = "set" => Shaped(new.key, new.read),
         new.pc = "count" => new.key = "details" /\ \E n : new.read = <<n>>,
         cache' = cache
  PROVE  EntriesShaped'
<1>1. fill'[r] = new /\ \A q \in Readers \ {r} : fill'[q] = fill[q]
  BY DEF FillsKnown
<1>2. QED
  BY <1>1 DEF EntriesShaped, Shaped

\* Every step keeps the shapes.
LEMMA ShapesStep ==
  ASSUME CacheIInv, EntriesShaped, [Next]_vars
  PROVE  EntriesShaped'
<1> USE DEF CacheIInv
<1>1. ASSUME fill' = fill /\ cache' = cache
      PROVE  EntriesShaped'
  BY <1>1, ShapesSame
<1>2. ASSUME fill' = Overtaken /\ cache' = cache
      PROVE  EntriesShaped'
  <2>1. \A r \in Readers : /\ fill'[r].pc = fill[r].pc /\ fill'[r].key = fill[r].key
                           /\ fill'[r].read = fill[r].read
    BY <1>2 DEF Overtaken, FillsKnown
  <2>2. QED
    BY <1>2, <2>1, ShapesSame
<1>3. ASSUME NEW u \in Users, IssueToken(u) \/ TokenExpires(u)
      PROVE  EntriesShaped'
  BY <1>1, <1>3 DEF IssueToken, TokenExpires
<1>4. ASSUME NEW w \in Writers, NEW op \in Changes, NEW u \in Users, NEW caller \in Users,
             Call(w, op, u, caller)
      PROVE  EntriesShaped'
  BY <1>1, <1>4 DEF Call
<1>5. ASSUME NEW w \in Writers, Find(w) \/ Answer(w) \/ Fail(w)
      PROVE  EntriesShaped'
  BY <1>1, <1>5 DEF Find, Answer, Fail
<1>6. ASSUME NEW w \in Writers, Save(w) \/ SaveUnacknowledged(w)
      PROVE  EntriesShaped'
  BY <1>2, <1>6 DEF Save, SaveUnacknowledged
<1>7. ASSUME NEW w \in Writers, SweepKey(w)
      PROVE  EntriesShaped'
  <2>1. PICK k \in change[w].left : cache' = [cache EXCEPT ![k] = None]
    BY <1>7 DEF SweepKey
  <2>2. fill' = fill
    BY <1>7 DEF SweepKey
  <2>3. \A j \in Keys : cache'[j] # None => cache'[j] = cache[j]
    BY <2>1 DEF EntriesKnown
  <2>4. QED
    BY <2>2, <2>3, ShapesSame
<1>8. ASSUME NEW r \in Readers, NEW k \in Keys, Miss(r, k)
      PROVE  EntriesShaped'
  <2> DEFINE new == [IdleFill EXCEPT !.pc = "miss", !.key = k]
  <2>1. new.pc = "miss"
    BY FillMissed
  <2>2. fill' = [fill EXCEPT ![r] = new] /\ cache' = cache
    BY <1>8 DEF Miss
  <2> HIDE DEF new
  <2>3. QED
    BY <2>1, <2>2, ShapesMoved
<1>9. ASSUME NEW r \in Readers, Read(r)
      PROVE  EntriesShaped'
  <2> DEFINE k == fill[r].key
             new == [pc |-> IF k = "details" THEN "count" ELSE "set", key |-> k,
                     read |-> FirstRead(k), overtaken |-> FALSE]
  <2>1. fill' = [fill EXCEPT ![r] = new] /\ cache' = cache /\ users \in [Users -> Account]
    BY <1>9 DEF Read, AccountsOK
  <2>2. /\ new.pc = IF k = "details" THEN "count" ELSE "set"
        /\ new.key = k /\ new.read = FirstRead(k)
    OBVIOUS
  <2>3. k = "details" => \E n : FirstRead(k) = <<n>>
    BY DEF FirstRead
  <2>4. k # "details" => Shaped(k, FirstRead(k))
    BY <2>1, ViewShaped DEF FirstRead
  <2> HIDE DEF new, k
  <2>5. QED
    BY <2>1, <2>2, <2>3, <2>4, ShapesMoved
<1>10. ASSUME NEW r \in Readers, CountAdmins(r)
       PROVE  EntriesShaped'
  <2> DEFINE admins == Counted("admin", users)
             new == [fill[r] EXCEPT !.pc = "set", !.read = Append(@, admins)]
  <2>1. fill' = [fill EXCEPT ![r] = new] /\ cache' = cache /\ fill[r].pc = "count"
    BY <1>10 DEF CountAdmins
  <2>2. new.pc = "set" /\ new.key = fill[r].key /\ new.read = Append(fill[r].read, admins)
    <3>1. fill[r] = [pc |-> fill[r].pc, key |-> fill[r].key, read |-> fill[r].read,
                     overtaken |-> fill[r].overtaken]
      BY DEF FillsKnown
    <3>2. new = [fill[r] EXCEPT !.pc = "set", !.read = Append(fill[r].read, admins)]
      OBVIOUS
    <3> HIDE DEF admins, new
    <3>3. QED
      BY <3>1, <3>2, FillCounted
  <2>3. fill[r].key = "details" /\ \E n : fill[r].read = <<n>>
    BY <2>1 DEF EntriesShaped
  <2> HIDE DEF new, admins
  <2>4. Shaped(fill[r].key, Append(fill[r].read, admins))
    BY <2>3, CountsShaped
  <2>5. QED
    BY <2>1, <2>2, <2>4, ShapesMoved
<1>11. ASSUME NEW r \in Readers, Store(r)
       PROVE  EntriesShaped'
  <2>1. /\ fill[r].pc = "set" /\ fill' = [fill EXCEPT ![r] = IdleFill]
        /\ \A k \in Keys : cache'[k] = IF k = fill[r].key THEN fill[r].read ELSE cache[k]
    BY <1>11 DEF Store, EntriesKnown
  <2>2. \A k \in Keys : cache'[k] # None => Shaped(k, cache'[k])
    BY <2>1 DEF EntriesShaped
  <2>3. fill'[r] = IdleFill /\ \A q \in Readers \ {r} : fill'[q] = fill[q]
    BY <2>1 DEF FillsKnown
  <2>4. QED
    BY <2>2, <2>3 DEF EntriesShaped, Shaped, IdleFill
<1>12. ASSUME NEW r \in Readers, FillFails(r)
       PROVE  EntriesShaped'
  BY <1>12, ShapesMoved DEF FillFails, IdleFill
<1>13. ASSUME NEW k \in Keys, EntryExpires(k)
       PROVE  EntriesShaped'
  <2>1. fill' = fill /\ \A j \in Keys : cache'[j] # None => cache'[j] = cache[j]
    BY <1>13 DEF EntryExpires, EntriesKnown
  <2>2. QED
    BY <2>1, ShapesSame
<1>14. ASSUME NEW S \in SUBSET Users, markInactiveUsers(S)
       PROVE  EntriesShaped'
  BY <1>2, <1>14 DEF markInactiveUsers
<1>15. CASE Restart
  BY <1>15 DEF Restart, EntriesShaped, Shaped, IdleFill
<1>16. CASE UNCHANGED vars
  BY <1>1, <1>16 DEF vars
<1>17. QED
  BY <1>3, <1>4, <1>5, <1>6, <1>7, <1>8, <1>9, <1>10, <1>11, <1>12, <1>13, <1>14, <1>15,
     <1>16 DEF Next

\* Accounts, requests and readers keep their types, and an entry of the cache is what its
\* key asks for: both counts, or accounts with the right deletion flag
\* (admin.service.ts:33-79, 270-310).
THEOREM TypeCorrect == Spec => []TypeOK
<1>1. CacheIInv /\ EntriesShaped => TypeOK
  BY DEF CacheIInv, FillsKnown, EntriesKnown, EntriesShaped, TypeOK
<1>2. Init => EntriesShaped
  BY DEF Init, EntriesShaped, IdleFill
<1>3. QED
  BY <1>1, <1>2, ShapesStep, CacheInvariant, PTL DEF Spec

\* Whatever readers, writers, failures, restarts and the nightly job do, a cached list
\* is current, is about to be swept or is one of the known exceptions
\* (admin.service.ts:155-161).
THEOREM ListsCurrent == Spec => []CachedListsCurrent
<1>1. CacheIInv => CachedListsCurrent
  BY DEF CacheIInv
<1>2. QED
  BY <1>1, CacheInvariant, PTL
=============================================================================
