-------------------------------- MODULE Pages --------------------------------
(***************************************************************************)
(* The pages of the client in one tab: pages/TodosPage.tsx, AdminPage.tsx, *)
(* DashBoard.tsx and StreamPage.tsx behind ProtectedRoute.tsx, the spinner *)
(* of contexts/LoadingProvider.tsx with the modal that shows it too, and   *)
(* the calls of api/*.ts.  A handler is an operation that awaits one call  *)
(* after the other; it goes on when its page is gone.  The spinner keeps   *)
(* the mouse from the page, not the keyboard, so operations overlap.       *)
(*                                                                         *)
(* One todo, one account and one video stand for the server's data, and    *)
(* the server's caches of user lists for what they may hold from before a  *)
(* change.  Titles and the numbers of the dashboard are left out.          *)
(***************************************************************************)
EXTENDS Naturals, FiniteSets

CONSTANT Slots      \* bound: operations under way at once

ASSUME SlotsAssumption == IsFiniteSet(Slots)

VARIABLES
    page,       \* the page shown
    isAdmin,    \* role of the user that is logged in
    list,       \* todos, users or videos: what the page shows of the server's data
    found,      \* filteredUsers
    filter,     \* what the page is asked to show
    count,      \* LoadingProvider
    ops,        \* the operation in each slot
    confirming, \* TokenRefreshModal waits for its refresh
    store,      \* the server's data
    older,      \* user lists that a cache of the server may hold from before a change
    overtaken,  \* ghost: the last change did not empty the caches of the full lists
    suspect     \* ghost: operations overlapped, one failed, another tab changed the data,
                \* or the code leaves users as they were

caches == <<older, overtaken>>
pagesVars == <<page, isAdmin, list, found, filter, count, ops, confirming, store, caches,
               suspect>>

Guarded == {"admin", "dashboard"}
PageNames == {"login", "todos", "stream"} \cup Guarded  \* "login": nobody is logged in

\* "captured" is the search text in the closure of loadUsersWithNotification; a text of
\* less than three characters is no search, the others find the account or miss it.
Searches == {"none", "hit", "miss"}
Filter == [todo: {"all", "active", "completed"}, search: Searches, captured: Searches,
           deletedOnly: BOOLEAN]
NoFilter == [todo |-> "all", search |-> "none", captured |-> "none", deletedOnly |-> FALSE]
isValidFilter(f) == f.search # "none"

\* The lists of users that the server caches: in full, or of a search.
UserLists == {"list", "search"}
CachedAs(f) == IF f.captured = "none" THEN "list" ELSE "search"

Todo == {"absent", "active", "completed", "deleted"}
Account == {"user", "admin", "deletedUser", "deletedAdmin"}
Store == [todo: Todo, account: Account, video: {"none", "video"}]
Deleted(account) == account \in {"deletedUser", "deletedAdmin"}

Promoted == [user |-> "admin", admin |-> "admin",
             deletedUser |-> "deletedAdmin", deletedAdmin |-> "deletedAdmin"]
Demoted == [user |-> "user", admin |-> "user",
            deletedUser |-> "deletedUser", deletedAdmin |-> "deletedUser"]
Restored == [user |-> "user", admin |-> "admin",
             deletedUser |-> "user", deletedAdmin |-> "admin"]

Loads == {"fetchTodos", "loadUsers", "loadAppDetails", "loadStats", "fetchVideoList"}
TodoChanges == {"addTodo", "toggleTodo", "deleteTodo", "updateTitle"}
UserChanges == {"handlePromote", "handleDemote", "handleDelete", "handleRestore"}
VideoChanges == {"onVideoDelete", "onVideoUpload"}
Kinds == Loads \cup TodoChanges \cup UserChanges \cup VideoChanges

\* An operation sends a change, fetches a list and, after a toggle, the statistics.
\* "filter" is that of its closure, "want" what a toggle asks for, "here" says that its
\* page is still shown; "alone" is a ghost: nothing else changed the data meanwhile.
Op == [kind: Kinds, pc: {"idle", "send", "sent", "fetch", "answer", "stats"},
       filter: Filter, want: BOOLEAN, here: BOOLEAN, alone: BOOLEAN,
       data: Todo \cup Account \cup {"none", "video"}]
NoOp == [kind |-> "loadStats", pc |-> "idle", filter |-> NoFilter, want |-> FALSE,
         here |-> FALSE, alone |-> FALSE, data |-> "none"]

Busy == \E s \in Slots : ops[s].pc # "idle"
Spins(kind) == kind \notin {"loadStats", "fetchVideoList", "onVideoDelete"}

\* What the page shows, and what the server's data have to show for a filter.
Displayed == IF isValidFilter(filter) THEN found ELSE list

Listed(kind, f) ==
    CASE kind = "fetchTodos" \/ kind \in TodoChanges ->
            IF store.todo \in {"active", "completed"} /\ f.todo \in {"all", store.todo}
            THEN store.todo ELSE "none"
      [] kind = "loadUsers" ->
            IF Deleted(store.account) = f.deletedOnly /\ f.captured # "miss"
            THEN store.account ELSE "none"
      [] kind = "fetchVideoList" -> store.video
      [] OTHER -> "none"

PagesTypeOK ==
    /\ page \in PageNames /\ {isAdmin, confirming, overtaken, suspect} \subseteq BOOLEAN
    /\ older \subseteq UserLists
    /\ {list, found} \subseteq Todo \cup Account \cup {"none", "video"}
    /\ filter \in Filter /\ store \in Store
    /\ count \in Nat
    /\ \A s \in Slots : ops[s] \in Op
    /\ page \in Guarded => isAdmin
    /\ filter # NoFilter => page \in {"todos", "admin"}
    /\ (filter.captured = "none") <=> ~isValidFilter(filter)

PagesInit ==
    /\ page = "login" /\ isAdmin = FALSE
    /\ list = "none" /\ found = "none" /\ filter = NoFilter
    /\ count = 0
    /\ ops = [s \in Slots |-> NoOp]
    /\ confirming = FALSE
    /\ store \in [todo: {"absent"}, account: {"user"}, video: {"none", "video"}]
    /\ older = {} /\ overtaken = FALSE
    /\ suspect = FALSE

-----------------------------------------------------------------------------
(* Building blocks.                                                        *)

\* show() as often as operations that spin begin.
Shows(kinds) == count + Cardinality({k \in kinds : Spins(k)})
Hidden(kind) == IF ~Spins(kind) THEN count ELSE IF count > 0 THEN count - 1 ELSE 0

Loading(kind, f) == [NoOp EXCEPT !.kind = kind, !.pc = "fetch", !.filter = f, !.here = TRUE]

\* The operations begun take free slots; the others are no longer alone, and those begun
\* are only if there are none.
Begins(begun, others) ==
    /\ \A s \in DOMAIN begun : others[s].pc = "idle"
    /\ ops' = [s \in Slots |-> IF s \in DOMAIN begun THEN [begun[s] EXCEPT !.alone = ~Busy]
                               ELSE [others[s] EXCEPT !.alone = FALSE]]
    /\ suspect' = (suspect \/ Busy)

Begin(s, op) ==
    /\ Begins([t \in {s} |-> op], ops)
    /\ count' = Shows({op.kind})

\* What an operation has read is forgotten with its page, its filter matters only to
\* handleRestore.
Left == [s \in Slots |-> [ops[s] EXCEPT
            !.here = FALSE, !.data = "none",
            !.filter = IF ops[s].kind = "handleRestore" THEN @ ELSE NoFilter]]

\* A page is mounted and loads what it shows.
OnMount == [todos |-> {"fetchTodos"}, admin |-> {"loadUsers"},
            dashboard |-> {"loadAppDetails", "loadStats"}, stream |-> {"fetchVideoList"}]

Mounts(p) ==
    /\ page' = p
    /\ list' = "none" /\ found' = "none" /\ filter' = NoFilter
    /\ \E at \in [OnMount[p] -> Slots] :
        /\ \A k, l \in OnMount[p] : at[k] = at[l] => k = l
        /\ Begins([s \in {at[k] : k \in OnMount[p]} |->
                      Loading(CHOOSE k \in OnMount[p] : at[k] = s, NoFilter)], Left)
    /\ count' = Shows(OnMount[p])

-----------------------------------------------------------------------------
(* Moving between the pages.                                               *)

\* ProtectedRoute sends a user to /todos instead of a page for admins.
Routed(p, admin) == IF p \in Guarded /\ ~admin THEN "todos" ELSE p

\* Somebody is logged in: by a login, or on a page that was loaded again.
Enter(admin, p) ==
    /\ page = "login" /\ p # "login"
    /\ isAdmin' = admin
    /\ Mounts(Routed(p, admin))
    /\ UNCHANGED <<confirming, store, caches>>

Navigate(p) ==
    LET target == Routed(p, isAdmin)
    IN  /\ page # "login" /\ target \notin {"login", page}
        /\ Mounts(target)
        /\ UNCHANGED <<isAdmin, confirming, store, caches>>

LoginShown ==
    /\ page' = "login" /\ isAdmin' = FALSE
    /\ list' = "none" /\ found' = "none" /\ filter' = NoFilter

Logout ==
    /\ page # "login"
    /\ LoginShown
    /\ ops' = Left
    /\ UNCHANGED <<count, confirming, store, caches, suspect>>

\* A change whose answer is lost may still be made: OthersChange.
PageReloaded ==
    /\ LoginShown
    /\ ops' = [s \in Slots |-> NoOp] /\ count' = 0 /\ confirming' = FALSE
    /\ UNCHANGED <<store, caches, suspect>>

-----------------------------------------------------------------------------
(* TokenRefreshModal: onConfirm shows the spinner and awaits the refresh;  *)
(* when that fails the user is logged out, if he was not meanwhile.        *)
ModalConfirms ==
    /\ page # "login" /\ ~confirming
    /\ confirming' = TRUE /\ count' = count + 1
    /\ UNCHANGED <<page, isAdmin, list, found, filter, ops, store, caches, suspect>>

\* Mutant: a refresh that fails leaves the spinner on.
ReturnsSpinning(refreshed) ==
    /\ confirming
    /\ confirming' = FALSE /\ count' = IF refreshed THEN count - 1 ELSE count
    /\ IF refreshed \/ page = "login"
       THEN UNCHANGED <<page, isAdmin, list, found, filter, ops>>
       ELSE LoginShown /\ ops' = Left
    /\ UNCHANGED <<store, caches, suspect>>

ModalReturns(refreshed) ==
    /\ confirming
    /\ confirming' = FALSE /\ count' = IF count > 0 THEN count - 1 ELSE 0
    /\ IF refreshed \/ page = "login"
       THEN UNCHANGED <<page, isAdmin, list, found, filter, ops>>
       ELSE LoginShown /\ ops' = Left
    /\ UNCHANGED <<store, caches, suspect>>

-----------------------------------------------------------------------------
(* Filters.                                                                *)
FilterTodos(s, f) ==
    /\ page = "todos" /\ f # filter.todo
    /\ filter' = [filter EXCEPT !.todo = f]
    /\ Begin(s, Loading("fetchTodos", filter'))
    /\ UNCHANGED <<page, isAdmin, list, found, confirming, store, caches>>

\* The closure is made anew, and the second effect runs, when the search begins or ends or
\* the switch is turned; the first effect runs at every change of a search.
FilterUsers(f) ==
    LET anew == isValidFilter(f) # isValidFilter(filter) \/ f.deletedOnly # filter.deletedOnly
        loads == (IF anew THEN 1 ELSE 0) + (IF isValidFilter(f) THEN 1 ELSE 0)
    IN  /\ page = "admin"
        /\ filter' = [f EXCEPT !.captured = IF anew THEN f.search ELSE filter.captured]
        /\ \E slots \in SUBSET Slots :
            /\ Cardinality(slots) = loads
            /\ Begins([s \in slots |-> Loading("loadUsers", filter')], ops)
        /\ count' = count + loads
        /\ UNCHANGED <<page, isAdmin, list, found, confirming, store, caches>>

SearchUsers(text) == text # filter.search /\ FilterUsers([filter EXCEPT !.search = text])
ShowDeleted == FilterUsers([filter EXCEPT !.deletedOnly = ~@])

-----------------------------------------------------------------------------
(* The handlers of the pages.                                              *)
Clickable(kind) ==
    \/ kind = "addTodo" /\ page = "todos" /\ store.todo = "absent"
    \/ kind \in TodoChanges \ {"addTodo"} /\ page = "todos" /\ list # "none"
    \/ kind = "handlePromote" /\ page = "admin" /\ Displayed = "user"
    \/ kind = "handleDemote" /\ page = "admin" /\ Displayed = "admin"
    \/ kind = "handleDelete" /\ page = "admin" /\ Displayed = "user"
    \/ kind = "handleRestore" /\ page = "admin" /\ Deleted(Displayed)
    \/ kind = "onVideoDelete" /\ page = "stream" /\ isAdmin /\ list = "video"
    \/ kind = "onVideoUpload" /\ page = "stream" /\ isAdmin

Click(s, kind) ==
    /\ Clickable(kind)
    /\ Begin(s, [Loading(kind, filter) EXCEPT
                    !.pc = "send", !.want = (kind = "toggleTodo" /\ list = "active")])
    /\ UNCHANGED <<page, isAdmin, list, found, filter, confirming, store, caches>>

\* What the server makes of a change; a change of a todo that is deleted shows nowhere.
Accepts(kind) ==
    /\ kind = "addTodo" => store.todo = "absent"
    /\ kind = "handleDelete" => store.account \notin {"admin", "deletedAdmin"}
    /\ kind = "onVideoDelete" => store.video = "video"

ChangedTodo(kind, want) ==
    CASE kind = "addTodo" -> "active"
      [] kind = "toggleTodo" /\ store.todo # "deleted" -> IF want THEN "completed" ELSE "active"
      [] kind = "deleteTodo" -> "deleted"
      [] OTHER -> store.todo

ChangedAccount(kind) ==
    CASE kind = "handlePromote" -> Promoted[store.account]
      [] kind = "handleDemote" -> Demoted[store.account]
      [] kind = "handleDelete" -> "deletedUser"
      [] kind = "handleRestore" -> Restored[store.account]

Changed(kind, want) ==
    CASE kind \in TodoChanges -> [store EXCEPT !.todo = ChangedTodo(kind, want)]
      [] kind \in UserChanges -> [store EXCEPT !.account = ChangedAccount(kind)]
      [] kind = "onVideoDelete" -> [store EXCEPT !.video = "none"]
      [] kind = "onVideoUpload" -> [store EXCEPT !.video = "video"]

\* Mutant: a change of an account sweeps the lists of its address only.
ChangesStoreOnly(kind, want) ==
    /\ Accepts(kind)
    /\ store' = Changed(kind, want)
    /\ overtaken' = FALSE
    /\ older' = IF store'.account = store.account THEN older ELSE UserLists

\* A change of an account sweeps the full lists, not what searches found.  "late": it is
\* overtaken by a call elsewhere that read the users before and stores them after it, the
\* answer of such a call has been kept by the CacheInterceptor, or the sweep fails.
Changes(kind, want) ==
    /\ Accepts(kind)
    /\ store' = Changed(kind, want)
    /\ IF store'.account = store.account THEN UNCHANGED caches
       ELSE \E late \in BOOLEAN :
            /\ overtaken' = late
            /\ older' = IF late THEN UserLists ELSE {"search"}

Served(s) ==
    /\ ops[s].pc = "send" /\ Changes(ops[s].kind, ops[s].want)
    /\ ops' = [ops EXCEPT ![s].pc = "sent", ![s].want = FALSE]
    /\ UNCHANGED <<page, isAdmin, list, found, filter, count, confirming, suspect>>

\* The handler returns: its finally hides the spinner.
Returns(s) ==
    /\ ops' = [ops EXCEPT ![s] = NoOp]
    /\ count' = Hidden(ops[s].kind)

-----------------------------------------------------------------------------
(* The answer to a change.                                                 *)
TodoChanged(s) ==
    /\ ops[s].pc = "sent" /\ ops[s].kind \in TodoChanges
    /\ ops' = [ops EXCEPT ![s].pc = "fetch"]
    /\ UNCHANGED <<page, isAdmin, list, found, filter, count, confirming, store, caches,
                   suspect>>

\* Only users is patched: a search keeps showing what it found.
Patched(kind) ==
    IF list \notin Account THEN list
    ELSE CASE kind = "handlePromote" -> Promoted[list]
           [] kind = "handleDemote" -> Demoted[list]
           [] kind = "handleDelete" -> "none"

UserChanged(s) ==
    /\ ops[s].pc = "sent" /\ ops[s].kind \in UserChanges \ {"handleRestore"}
    /\ list' = IF ops[s].here THEN Patched(ops[s].kind) ELSE list
    /\ suspect' = (suspect \/ isValidFilter(filter))
    /\ Returns(s)
    /\ UNCHANGED <<page, isAdmin, found, filter, confirming, store, caches>>

UserRestored(s) ==
    /\ ops[s].pc = "sent" /\ ops[s].kind = "handleRestore"
    /\ IF ops[s].filter.deletedOnly
       THEN /\ list' = IF ops[s].here THEN "none" ELSE list
            /\ found' = IF ops[s].here THEN "none" ELSE found
            /\ Returns(s)
       ELSE /\ ops' = [ops EXCEPT ![s].kind = "loadUsers", ![s].pc = "fetch"]
            /\ UNCHANGED <<list, found, count>>
    /\ UNCHANGED <<page, isAdmin, filter, confirming, store, caches, suspect>>

\* Only the upload spins; the list is fetched after the handler has returned.
VideoChanged(s) ==
    /\ ops[s].pc = "sent" /\ ops[s].kind \in VideoChanges
    /\ ops' = [ops EXCEPT ![s].kind = "fetchVideoList", ![s].pc = "fetch"]
    /\ count' = Hidden(ops[s].kind)
    /\ UNCHANGED <<page, isAdmin, list, found, filter, confirming, store, caches, suspect>>

-----------------------------------------------------------------------------
(* A list is read by the server, and shown when the answer arrives.        *)
ListRead(s) ==
    /\ ops[s].pc = "fetch"
    /\ ops' = [ops EXCEPT ![s].pc = "answer",
                             ![s].data = IF ops[s].here THEN Listed(ops[s].kind, ops[s].filter)
                                         ELSE @]
    /\ UNCHANGED <<page, isAdmin, list, found, filter, count, confirming, store, caches,
                   suspect>>

\* Or a cache still has a list of the users, as they were at some time.
OlderList(f) == {"none"} \cup
    IF f.captured = "miss" THEN {} ELSE {a \in Account : Deleted(a) = f.deletedOnly}

ListCached(s) ==
    LET known == CachedAs(ops[s].filter) = "search" \/ overtaken
    IN  /\ ops[s].pc = "fetch" /\ ops[s].kind = "loadUsers" /\ ops[s].here
        /\ CachedAs(ops[s].filter) \in older
        /\ \E data \in OlderList(ops[s].filter) :
            ops' = [t \in Slots |->
                       IF t = s
                       THEN [ops[t] EXCEPT !.pc = "answer", !.data = data, !.alone = @ /\ ~known]
                       ELSE [ops[t] EXCEPT !.alone = @ /\ ~known]]
        /\ suspect' = (suspect \/ known)
        /\ UNCHANGED <<page, isAdmin, list, found, filter, count, confirming, store, caches>>

\* After 60 seconds.
CacheExpires(lists) ==
    /\ lists \in older
    /\ older' = older \ {lists}
    /\ overtaken' = (overtaken /\ lists # "list")
    /\ UNCHANGED <<page, isAdmin, list, found, filter, count, ops, confirming, store, suspect>>

\* A toggle loads the statistics before it returns.
GoesOn(s) ==
    IF ops[s].kind = "toggleTodo"
    THEN ops' = [ops EXCEPT ![s].pc = "stats"] /\ UNCHANGED count
    ELSE Returns(s)

ListShown(s) ==
    LET search == ops[s].kind = "loadUsers" /\ isValidFilter(ops[s].filter)
    IN  /\ ops[s].pc = "answer"
        /\ list' = IF ops[s].here /\ ~search THEN ops[s].data ELSE list
        /\ found' = IF ops[s].here /\ search THEN ops[s].data ELSE found
        /\ suspect' = (suspect /\ ~(ops[s].alone /\ ops[s].here))
        /\ GoesOn(s)
        /\ UNCHANGED <<page, isAdmin, filter, confirming, store, caches>>

StatsLoaded(s) ==
    /\ ops[s].pc = "stats"
    /\ Returns(s)
    /\ UNCHANGED <<page, isAdmin, list, found, filter, confirming, store, caches, suspect>>

(* A call is refused, or it or its answer is lost.  fetchTodos swallows it.*)
CallFails(s) ==
    /\ ops[s].pc \notin {"idle", "stats"}
    /\ suspect' = TRUE
    /\ IF ops[s].kind = "toggleTodo" /\ ops[s].pc \in {"fetch", "answer"}
       THEN GoesOn(s) ELSE Returns(s)
    /\ UNCHANGED <<page, isAdmin, list, found, filter, confirming, store, caches>>

\* Another tab or another user changes the data.
OthersChange(kind, want) ==
    /\ Changes(kind, want) /\ store' # store
    /\ ops' = [s \in Slots |-> [ops[s] EXCEPT !.alone = FALSE]]
    /\ suspect' = TRUE
    /\ UNCHANGED <<page, isAdmin, list, found, filter, count, confirming>>

Answered(s) ==
    \/ Served(s) \/ TodoChanged(s) \/ UserChanged(s) \/ UserRestored(s) \/ VideoChanged(s)
    \/ ListRead(s) \/ ListCached(s) \/ ListShown(s) \/ StatsLoaded(s) \/ CallFails(s)

\* The steps that go with one of the authentication, and the others; "changes" are the
\* handlers considered.
SessionStep ==
    \/ \E admin \in BOOLEAN, p \in PageNames : Enter(admin, p)
    \/ Logout \/ PageReloaded
    \/ ModalConfirms
    \/ \E refreshed \in BOOLEAN : ModalReturns(refreshed)

PageStep(changes) ==
    \/ \E p \in PageNames : Navigate(p)
    \/ \E s \in Slots, f \in {"all", "active", "completed"} : FilterTodos(s, f)
    \/ \E text \in Searches : SearchUsers(text)
    \/ ShowDeleted
    \/ \E s \in Slots, kind \in changes : Click(s, kind)
    \/ \E s \in Slots : Answered(s)
    \/ \E kind \in changes, want \in BOOLEAN : OthersChange(kind, want)
    \/ \E lists \in UserLists : CacheExpires(lists)

PagesStep(changes) == SessionStep \/ PageStep(changes)

PagesNext == PagesStep(Kinds \ Loads)
PagesSpec == PagesInit /\ [][PagesNext]_pagesVars

-----------------------------------------------------------------------------
(* The spinner turns exactly while an operation that showed it is under    *)
(* way, on whichever page it began and however it ends, or the modal waits *)
(* for its refresh (LoadingProvider.tsx:17-20, TokenRefreshModal.tsx:16).  *)
SpinnerMatchesWork ==
    count = Cardinality({s \in Slots : ops[s].pc # "idle" /\ Spins(ops[s].kind)})
            + (IF confirming THEN 1 ELSE 0)

(* When nothing is under way, the page shows the server's data as its      *)
(* filter asks, unless since the last list that was fetched by itself      *)
(* operations overlapped, one failed or the data were changed elsewhere: a *)
(* list that is patched instead of fetched stays right, and the server's   *)
(* cache does not answer with a full list from before a change that swept  *)
(* it (TodosPage.tsx:57-145, AdminPage.tsx:31-137, StreamPage.tsx:25-70,   *)
(* admin.service.ts:39-46, 221-227).  A list of a search comes from the    *)
(* cache as it is, for no change sweeps that (admin.service.ts:37).        *)
\* A search shows what its closure looked for; see the README.
PageList ==
    CASE page = "todos" -> Listed("fetchTodos", filter)
      [] page = "admin" -> Listed("loadUsers", filter)
      [] page = "stream" -> Listed("fetchVideoList", filter)

UndisturbedListCurrent ==
    page \in {"todos", "admin", "stream"} /\ ~Busy /\ ~suspect => Displayed = PageList
=============================================================================
