----------------------------- MODULE AdminUsers -----------------------------
(***************************************************************************)
(* AdminService (admin/admin.service.ts) behind AdminController: changes   *)
(* of roles, soft deletion, restoring and reactivation, each a read, a     *)
(* check, a save of the modified fields and a sweep of the cached lists;   *)
(* and the lists themselves, read through the cache.  A caller is an admin *)
(* by its access token, which keeps the role it was issued with.           *)
(***************************************************************************)
EXTENDS Naturals, Sequences, FiniteSets

CONSTANTS
    Users,
    Writers,    \* requests that change an account, in flight at once
    Readers,    \* requests and warm-ups that fill the cache, in flight at once
    Keys,       \* the cache keys considered
    FirstAdmins,
    None

AllKeys == {"active", "deleted", "all", "details", "search"}

ASSUME KeysAssumption == Keys \subseteq AllKeys
ASSUME AdminsAssumption == FirstAdmins # {} /\ FirstAdmins \subseteq Users
ASSUME NoneAssumption == None \notin Users \cup AllKeys \cup {"delete", "restore", "promote",
                                                            "demote", "reactivate"}

VARIABLES
    users,       \* the accounts
    adminTokens, \* users that hold an unexpired access token with role admin
    change,      \* what each writer is doing
    fill,        \* what each reader is doing
    cache,       \* the entry under each key, or None
    unswept,     \* ghost: entries a change outdated that nothing sweeps
    disorder     \* ghost: admin requests overlapped, or one came from a caller
                 \* that is no longer an active admin

vars == <<users, adminTokens, change, fill, cache, unswept, disorder>>

Account == [role: {"user", "admin"}, deleted: BOOLEAN, inactive: BOOLEAN]
Changes == {"delete", "restore", "promote", "demote", "reactivate"}

\* A writer reads a "user", saves it and sweeps the keys "left", in SweepOrder; a
\* reader misses a "key" and stores what it has "read"; "overtaken" is a ghost:
\* accounts changed since it began to read.
IdleChange == [pc |-> "idle", op |-> None, user |-> None, left |-> {}]
IdleFill == [pc |-> "idle", key |-> None, read |-> None, overtaken |-> FALSE]

Busy == \E w \in Writers : change[w].pc # "idle"
Active(u) == users[u].role = "admin" /\ ~users[u].deleted

-----------------------------------------------------------------------------
(* What each key shows of the accounts: the lists show the accounts with   *)
(* the deletion flag asked for, the details count users and admins.        *)
\* Mutant: only the deleted accounts are asked for by their flag.
ListedUnfiltered(k, accounts) ==
    IF k = "deleted" THEN {u \in Users : accounts[u].deleted} ELSE Users

Listed(k, accounts) ==
    CASE k = "active" -> {u \in Users : ~accounts[u].deleted}
      [] k = "deleted" -> {u \in Users : accounts[u].deleted}
      [] OTHER -> Users

Counted(role, accounts) ==
    Cardinality({u \in Users : accounts[u].role = role /\ ~accounts[u].deleted})

View(k, accounts) ==
    IF k = "details" THEN <<Counted("user", accounts), Counted("admin", accounts)>>
    ELSE [u \in Listed(k, accounts) |-> accounts[u]]

\* getUsers asks the database once, getApplicationDetails counts twice.
FirstRead(k) ==
    IF k = "details" THEN <<Counted("user", users)>> ELSE View(k, users)

(* The check after findById, and the fields that save writes back.         *)
Applies(op, account) ==
    \/ op = "delete" /\ account.role # "admin"
    \/ op = "restore" /\ account.deleted
    \/ op = "promote" /\ account.role = "user"
    \/ op = "demote" /\ account.role = "admin"
    \/ op = "reactivate" /\ account.inactive

Changed(op, account) ==
    CASE op = "delete" -> [account EXCEPT !.deleted = TRUE]
      [] op = "restore" -> [account EXCEPT !.deleted = FALSE]
      [] op = "promote" -> [account EXCEPT !.role = "admin"]
      [] op = "demote" -> [account EXCEPT !.role = "user"]
      [] op = "reactivate" -> [account EXCEPT !.inactive = FALSE]

\* What the sweep of a change is known to leave behind: the lists filtered by an
\* address and, after a demotion, the details.
Spared(op) == IF op = "demote" THEN {"details", "search"} ELSE {"search"}

\* Mutant: every sweep leaves the details, as that of a demotion does.
SweepsListsOnly(op) == Keys \cap {"active", "deleted", "all"}

(* The keys swept after the save, and the order of the calls.              *)
Sweep(op) == Keys \ Spared(op)
SweepOrder == [active |-> 1, deleted |-> 2, all |-> 3, details |-> 4, search |-> 5]

-----------------------------------------------------------------------------
AccountsOK ==
    /\ users \in [Users -> Account]
    /\ adminTokens \subseteq Users
    /\ change \in [Writers -> [pc: {"idle", "find", "save", "sweep"},
                               op: Changes \cup {None}, user: Users \cup {None},
                               left: SUBSET Keys]]
    /\ \A w \in Writers :
        /\ change[w].pc \in {"find", "save"} => change[w].op # None /\ change[w].user # None
        /\ change[w].pc # "sweep" => change[w].left = {}

\* Two counts, or accounts with the deletion flag asked for.
Shaped(k, entry) ==
    IF k = "details" THEN DOMAIN entry = 1..2
    ELSE \A u \in DOMAIN entry :
            /\ u \in Users /\ entry[u] \in Account
            /\ k = "active" => ~entry[u].deleted
            /\ k = "deleted" => entry[u].deleted

TypeOK ==
    /\ AccountsOK
    /\ \A r \in Readers :
        /\ fill[r].pc \in {"idle", "miss", "count", "set"}
        /\ fill[r].key \in IF fill[r].pc = "idle" THEN {None} ELSE Keys
    /\ DOMAIN cache = Keys
    /\ \A k \in Keys : cache[k] # None => Shaped(k, cache[k])
    /\ unswept \subseteq Keys

Init ==
    /\ users = [u \in Users |-> [role |-> IF u \in FirstAdmins THEN "admin" ELSE "user",
                                 deleted |-> FALSE, inactive |-> FALSE]]
    /\ adminTokens = {}
    /\ change = [w \in Writers |-> IdleChange]
    /\ fill = [r \in Readers |-> IdleFill]
    /\ cache = [k \in Keys |-> None]
    /\ unswept = {}
    /\ disorder = FALSE

\* Accounts change: what the readers have read no longer shows them.
Overtaken == [r \in Readers |-> [fill[r] EXCEPT !.overtaken = fill[r].pc # "idle"]]

Present(keys) == {k \in keys \cap Keys : cache[k] # None}

-----------------------------------------------------------------------------
(* Login and refresh put the current role into the access token.           *)
IssueToken(u) ==
    /\ ~users[u].deleted /\ ~users[u].inactive
    /\ adminTokens' = IF users[u].role = "admin" THEN adminTokens \cup {u}
                      ELSE adminTokens \ {u}
    /\ UNCHANGED <<users, change, fill, cache, unswept, disorder>>

TokenExpires(u) ==
    /\ u \in adminTokens
    /\ adminTokens' = adminTokens \ {u}
    /\ UNCHANGED <<users, change, fill, cache, unswept, disorder>>

\* Mutant: the guard against changing oneself is gone.
CallOnSelf(w, op, u, caller) ==
    /\ change[w].pc = "idle"
    /\ caller \in adminTokens
    /\ change' = [change EXCEPT ![w] = [pc |-> "find", op |-> op, user |-> u, left |-> {}]]
    /\ disorder' = (disorder \/ ~Active(caller) \/ Busy)
    /\ UNCHANGED <<users, adminTokens, fill, cache, unswept>>

(* The guards of the controller: the token says admin, and nobody changes  *)
(* their own account.                                                      *)
Call(w, op, u, caller) ==
    /\ change[w].pc = "idle"
    /\ caller \in adminTokens
    /\ caller # u
    /\ change' = [change EXCEPT ![w] = [pc |-> "find", op |-> op, user |-> u, left |-> {}]]
    /\ disorder' = (disorder \/ ~Active(caller) \/ Busy)
    /\ UNCHANGED <<users, adminTokens, fill, cache, unswept>>

(* findById and the check on what it returned.                             *)
Find(w) ==
    /\ change[w].pc = "find"
    /\ change' = [change EXCEPT ![w] =
            IF Applies(@.op, users[@.user]) THEN [@ EXCEPT !.pc = "save"] ELSE IdleChange]
    /\ UNCHANGED <<users, adminTokens, fill, cache, unswept, disorder>>

(* save writes the modified fields only, whatever the account is by now.   *)
Save(w) ==
    LET c == change[w] IN
    /\ c.pc = "save"
    /\ users' = [users EXCEPT ![c.user] = Changed(c.op, @)]
    /\ change' = [change EXCEPT ![w] =
            [IdleChange EXCEPT !.pc = "sweep", !.left = Sweep(c.op)]]
    /\ fill' = Overtaken
    /\ unswept' = unswept \cup Present(Spared(c.op))
    /\ UNCHANGED <<adminTokens, cache, disorder>>

(* One del of the cache after the other, then the answer.                  *)
SweepKey(w) ==
    /\ change[w].pc = "sweep"
    /\ \E k \in change[w].left :
        /\ \A other \in change[w].left : SweepOrder[k] <= SweepOrder[other]
        /\ change' = [change EXCEPT ![w].left = @ \ {k}]
        /\ cache' = [cache EXCEPT ![k] = None]
        /\ unswept' = unswept \ {k}
    /\ UNCHANGED <<users, adminTokens, fill, disorder>>

Answer(w) ==
    /\ change[w].pc = "sweep" /\ change[w].left = {}
    /\ change' = [change EXCEPT ![w] = IdleChange]
    /\ UNCHANGED <<users, adminTokens, fill, cache, unswept, disorder>>

(* A call of the database or the cache rejects: the rest of the sweep is   *)
(* skipped, and a save that was not acknowledged may have taken effect.    *)
Fail(w) ==
    /\ change[w].pc # "idle"
    /\ change' = [change EXCEPT ![w] = IdleChange]
    /\ unswept' = unswept \cup Present(change[w].left)
    /\ UNCHANGED <<users, adminTokens, fill, cache, disorder>>

SaveUnacknowledged(w) ==
    LET c == change[w] IN
    /\ c.pc = "save"
    /\ users' = [users EXCEPT ![c.user] = Changed(c.op, @)]
    /\ change' = [change EXCEPT ![w] = IdleChange]
    /\ fill' = Overtaken
    /\ unswept' = unswept \cup Present(Keys)
    /\ UNCHANGED <<adminTokens, cache, disorder>>

-----------------------------------------------------------------------------
(* getUsers and getApplicationDetails, for an admin or for the warm-up: a  *)
(* hit changes nothing, a miss asks the database and stores the answer.    *)
Miss(r, k) ==
    /\ fill[r].pc = "idle"
    /\ cache[k] = None
    /\ fill' = [fill EXCEPT ![r] = [IdleFill EXCEPT !.pc = "miss", !.key = k]]
    /\ UNCHANGED <<users, adminTokens, change, cache, unswept, disorder>>

Read(r) ==
    LET k == fill[r].key IN
    /\ fill[r].pc = "miss"
    /\ fill' = [fill EXCEPT ![r] =
            [pc |-> IF k = "details" THEN "count" ELSE "set", key |-> k,
             read |-> FirstRead(k), overtaken |-> FALSE]]
    /\ UNCHANGED <<users, adminTokens, change, cache, unswept, disorder>>

CountAdmins(r) ==
    /\ fill[r].pc = "count"
    /\ fill' = [fill EXCEPT ![r].pc = "set",
                            ![r].read = Append(@, Counted("admin", users))]
    /\ UNCHANGED <<users, adminTokens, change, cache, unswept, disorder>>

Store(r) ==
    LET f == fill[r] IN
    /\ f.pc = "set"
    /\ cache' = [cache EXCEPT ![f.key] = f.read]
    /\ unswept' = IF f.overtaken THEN unswept \cup {f.key} ELSE unswept \ {f.key}
    /\ fill' = [fill EXCEPT ![r] = IdleFill]
    /\ UNCHANGED <<users, adminTokens, change, disorder>>

\* A call rejects: nothing is stored.
FillFails(r) ==
    /\ fill[r].pc # "idle"
    /\ fill' = [fill EXCEPT ![r] = IdleFill]
    /\ UNCHANGED <<users, adminTokens, change, cache, unswept, disorder>>

(* The time to live of an entry ends.                                      *)
EntryExpires(k) ==
    /\ cache[k] # None
    /\ cache' = [cache EXCEPT ![k] = None]
    /\ unswept' = unswept \ {k}
    /\ UNCHANGED <<users, adminTokens, change, fill, disorder>>

(* The nightly job marks users who have not logged in for long, in one     *)
(* updateMany; no entry is swept.                                          *)
markInactiveUsers(S) ==
    /\ S # {}
    /\ \A u \in S : users[u].role = "user" /\ ~users[u].deleted /\ ~users[u].inactive
    /\ users' = [u \in Users |-> IF u \in S THEN [users[u] EXCEPT !.inactive = TRUE]
                                 ELSE users[u]]
    /\ fill' = Overtaken
    /\ unswept' = unswept \cup Present(Keys)
    /\ UNCHANGED <<adminTokens, change, cache, disorder>>

(* The process restarts; the entries outlive it in Redis.                  *)
Restart ==
    /\ change' = [w \in Writers |-> IdleChange]
    /\ fill' = [r \in Readers |-> IdleFill]
    /\ unswept' = unswept \cup Present(UNION {change[w].left : w \in Writers})
    /\ UNCHANGED <<users, adminTokens, cache, disorder>>

Next ==
    \/ \E u \in Users : IssueToken(u) \/ TokenExpires(u)
    \/ \E w \in Writers :
        \/ \E op \in Changes, u, caller \in Users : Call(w, op, u, caller)
        \/ Find(w) \/ Save(w) \/ SweepKey(w) \/ Answer(w)
        \/ Fail(w) \/ SaveUnacknowledged(w)
    \/ \E r \in Readers :
        \/ \E k \in Keys : Miss(r, k)
        \/ Read(r) \/ CountAdmins(r) \/ Store(r) \/ FillFails(r)
    \/ \E k \in Keys : EntryExpires(k)
    \/ \E S \in SUBSET Users : markInactiveUsers(S)
    \/ Restart

Spec == Init /\ [][Next]_vars

-----------------------------------------------------------------------------
(* As long as admin requests come one at a time from callers who are still *)
(* active admins, an active admin remains: the last one can neither be     *)
(* demoted nor deleted (admin.controller.ts:51,67, admin.service.ts:143).  *)
AnAdminRemains == ~disorder => \E u \in Users : Active(u)

\* What makes it inductive: requests do not overlap, and the one under way leaves
\* some other active admin alone.
OrderlyChange == ~disorder =>
    /\ \A w, v \in Writers : change[w].pc # "idle" /\ change[v].pc # "idle" => w = v
    /\ \A w \in Writers : change[w].pc \in {"find", "save"} =>
        \E u \in Users : Active(u) /\ u # change[w].user

AdminIInv == AccountsOK /\ AnAdminRemains /\ OrderlyChange

(* A cached list shows the accounts as they are, or a request that changed *)
(* them has yet to sweep it, or it is one of the known exceptions, which   *)
(* live until their time is up: filled while a request changed accounts,   *)
(* outdated by the nightly job or by a request that failed, or spared by   *)
(* the sweep (admin.service.ts:155-161).                                   *)
CachedListsCurrent ==
    \A k \in Keys : cache[k] # None /\ k \notin unswept =>
        \/ cache[k] = View(k, users)
        \/ \E w \in Writers : k \in change[w].left

(* Deleting never hits an admin (admin.service.spec.ts:90, "should throw   *)
(* ForbiddenException if user is admin").                                  *)
DeleteSparesAdmins ==
    [][\A u \in Users : ~users[u].deleted /\ users'[u].deleted
            => users[u].role = "user"]_vars
=============================================================================
