--------------------------- MODULE SessionsProofs ---------------------------
(***************************************************************************)
(* The theorems about Sessions, for every set of users, browsers, requests *)
(* in flight, tokens and logins.                                           *)
(***************************************************************************)
EXTENDS Sessions, FiniteSetTheorems, TLAPS

-----------------------------------------------------------------------------
(* The inductive invariant.  What the record of a request says at each     *)
(* await of its handler.                                                   *)
RequestShape ==
    \A w \in Workers :
        /\ work[w].pc = "idle" => work[w] = NoRequest
        /\ work[w].op = "none" => work[w].pc = "idle"
        /\ work[w].pc \in {"delete", "user", "revoke"} => work[w].op = "refresh"
        /\ work[w].pc = "save" => work[w].op = "register"
        /\ work[w].op = "logout" => work[w].pc = "respond"
        /\ work[w].op \in {"register", "login", "refresh"} => work[w].user \in Users
        /\ work[w].op = "refresh" => work[w].line \in Lines
        /\ work[w].op \in {"register", "login"} /\ work[w].pc \in {"save", "issue"} =>
                work[w].line = None

\* Every request that may still issue a token, or begin a login, can have an id.
FreshTokens == {t \in Tokens : FreshToken(t)}
UnusedLines == {l \in Lines : UnusedLine(l)}
Claimants == {w \in Workers : work[w].pc \in {"save", "delete", "user", "issue"}}
LoginClaimants ==
    {w \in Workers : work[w].pc \in {"save", "issue"} /\ work[w].op \in {"register", "login"}}

RoomKept ==
    /\ Cardinality(Claimants) <= Cardinality(FreshTokens)
    /\ Cardinality(LoginClaimants) <= Cardinality(UnusedLines)

TokensUnique == \A d, e \in docs : d.tok = e.tok => d = e

RequestsOK == TypeOK /\ RequestShape /\ RoomKept /\ IsFiniteSet(docs) /\ TokensUnique

\* Two requests of one login that are in flight at once are both marked.
OverlapsMarked ==
    \A v, w \in Workers :
        v # w /\ work[v].line = work[w].line /\ work[w].line # None => work[w].shared

\* An unshared token is the only one of its login.
UnsharedAlone ==
    \A d, e \in docs : d.line = e.line /\ ~d.shared => e.tok = d.tok

\* Before the deletion an exchange knows the unshared token of its login, if there is
\* one; after it there is none; and if nothing overlapped there is no other token at all.
ExchangeKnows ==
    \A w \in Workers, d \in docs : work[w].line # None /\ d.line = work[w].line =>
        /\ work[w].pc = "delete" /\ ~(d.shared /\ work[w].shared) => d.tok = work[w].tok
        /\ work[w].pc \in {"user", "issue"} => d.shared /\ work[w].shared

\* A logout that nothing overlapped has left no token of its login.
LogoutDone ==
    \A w \in Workers, d \in docs :
        work[w].op = "logout" /\ work[w].line # None /\ ~work[w].shared =>
            d.line # work[w].line

LinesOK == OverlapsMarked /\ UnsharedAlone /\ ExchangeKnows /\ LogoutDone

\* A refresh that began while its user was suspended is marked only as long as the user
\* stays so.
BlockedSuspended ==
    \A w \in Workers : work[w].blocked =>
        /\ work[w].user \in Users /\ Suspended(work[w].user)
        /\ work[w].pc \in {"delete", "user", "revoke"}

SessionsIInv == RequestsOK /\ LinesOK /\ BlockedSuspended

-----------------------------------------------------------------------------
(* Counting.  Room that is wide enough stays so when it grows and the      *)
(* claims on it shrink.                                                    *)
LEMMA RoomGrows ==
  ASSUME NEW room, NEW claims, NEW roomAfter, NEW claimsAfter,
         IsFiniteSet(roomAfter), IsFiniteSet(claims),
         room \subseteq roomAfter, claimsAfter \subseteq claims,
         Cardinality(claims) <= Cardinality(room)
  PROVE  Cardinality(claimsAfter) <= Cardinality(roomAfter)
<1>1. /\ IsFiniteSet(room) /\ Cardinality(room) <= Cardinality(roomAfter)
      /\ IsFiniteSet(claimsAfter) /\ Cardinality(claimsAfter) <= Cardinality(claims)
  BY FS_Subset
<1>2. /\ Cardinality(room) \in Nat /\ Cardinality(roomAfter) \in Nat
      /\ Cardinality(claims) \in Nat /\ Cardinality(claimsAfter) \in Nat
  BY <1>1, FS_CardinalityType
<1>3. QED
  BY <1>1, <1>2

\* One more claim fits if there was room for more than those there were.
LEMMA RoomLeft ==
  ASSUME NEW room, NEW claims, NEW roomAfter, NEW claimsAfter, NEW x,
         IsFiniteSet(roomAfter), IsFiniteSet(claims),
         room \subseteq roomAfter, claimsAfter \subseteq claims \cup {x},
         Cardinality(room) > Cardinality(claims)
  PROVE  Cardinality(claimsAfter) <= Cardinality(roomAfter)
<1>1. /\ IsFiniteSet(room) /\ Cardinality(room) <= Cardinality(roomAfter)
      /\ IsFiniteSet(claims \cup {x}) /\ Cardinality(claims \cup {x}) <= Cardinality(claims) + 1
  BY FS_Subset, FS_AddElement, FS_CardinalityType
<1>2. IsFiniteSet(claimsAfter) /\ Cardinality(claimsAfter) <= Cardinality(claims \cup {x})
  BY <1>1, FS_Subset
<1>3. /\ Cardinality(room) \in Nat /\ Cardinality(roomAfter) \in Nat
      /\ Cardinality(claims) \in Nat /\ Cardinality(claimsAfter) \in Nat
      /\ Cardinality(claims \cup {x}) \in Nat
  BY <1>1, <1>2, FS_CardinalityType
<1>4. QED
  BY <1>1, <1>2, <1>3

\* A claim that is met gives up one place and its own.
LEMMA RoomTaken ==
  ASSUME NEW room, NEW claims, NEW roomAfter, NEW claimsAfter, NEW t, NEW w,
         IsFiniteSet(roomAfter), IsFiniteSet(claims), IsFiniteSet(room),
         room \ {t} \subseteq roomAfter, claimsAfter \subseteq claims \ {w}, w \in claims,
         Cardinality(claims) <= Cardinality(room)
  PROVE  Cardinality(claimsAfter) <= Cardinality(roomAfter)
<1>1. Cardinality(room) \in Nat /\ Cardinality(claims) \in Nat
  BY FS_CardinalityType
<1>2. /\ IsFiniteSet(room \ {t})
      /\ Cardinality(room \ {t}) = IF t \in room THEN Cardinality(room) - 1
                                   ELSE Cardinality(room)
  BY FS_RemoveElement
<1>3. /\ IsFiniteSet(claims \ {w})
      /\ Cardinality(claims \ {w}) = Cardinality(claims) - 1
  BY FS_RemoveElement
<1>4. /\ IsFiniteSet(room \ {t}) /\ Cardinality(room \ {t}) >= Cardinality(room) - 1
      /\ IsFiniteSet(claims \ {w}) /\ Cardinality(claims \ {w}) = Cardinality(claims) - 1
  BY <1>1, <1>2, <1>3
<1>5. /\ Cardinality(room \ {t}) <= Cardinality(roomAfter)
      /\ IsFiniteSet(claimsAfter) /\ Cardinality(claimsAfter) <= Cardinality(claims \ {w})
  BY <1>4, FS_Subset
<1>6. /\ Cardinality(room) \in Nat /\ Cardinality(roomAfter) \in Nat
      /\ Cardinality(claims) \in Nat /\ Cardinality(claimsAfter) \in Nat
      /\ Cardinality(claims \ {w}) \in Nat /\ Cardinality(room \ {t}) \in Nat
  BY <1>4, <1>5, FS_CardinalityType
<1>7. QED
  BY <1>4, <1>5, <1>6

\* A claim that there is room for finds a free place.
LEMMA RoomFound ==
  ASSUME NEW room, NEW claims, NEW w \in claims, IsFiniteSet(claims), IsFiniteSet(room),
         Cardinality(claims) <= Cardinality(room)
  PROVE  room # {}
<1>1. Cardinality(claims) # 0 /\ Cardinality(claims) \in Nat
  BY FS_EmptySet, FS_CardinalityType
<1>2. QED
  BY <1>1, FS_EmptySet

\* At most one element in two sets together.
LEMMA AtMostOne ==
  ASSUME NEW S, NEW T, IsFiniteSet(S), IsFiniteSet(T),
         \A x, y \in S : x = y, \A x, y \in T : x = y, S = {} \/ T = {}
  PROVE  Cardinality(S) + Cardinality(T) <= 1
<1>1. ASSUME NEW U, IsFiniteSet(U), \A x, y \in U : x = y
      PROVE  Cardinality(U) \in {0, 1}
  <2>1. CASE U = {}
    BY <2>1, FS_EmptySet
  <2>2. ASSUME NEW x \in U PROVE Cardinality(U) = 1
    <3>1. U = {x}
      BY <1>1
    <3>2. QED
      BY <3>1, FS_Singleton
  <2>3. QED
    BY <2>1, <2>2
<1>2. Cardinality({}) = 0
  BY FS_EmptySet
<1>3. QED
  BY <1>1, <1>2

\* Tokens, lines and requests are finitely many.
LEMMA SetsFinite ==
  /\ IsFiniteSet(FreshTokens) /\ IsFiniteSet(UnusedLines)
  /\ IsFiniteSet(Claimants) /\ IsFiniteSet(LoginClaimants) /\ IsFiniteSet(Busy)
  /\ IsFiniteSet(FreshTokens') /\ IsFiniteSet(UnusedLines')
<1>1. /\ FreshTokens \subseteq Tokens /\ UnusedLines \subseteq Lines
      /\ Claimants \subseteq Workers /\ LoginClaimants \subseteq Workers
      /\ Busy \subseteq Workers
      /\ FreshTokens' \subseteq Tokens /\ UnusedLines' \subseteq Lines
  BY DEF FreshTokens, UnusedLines, Claimants, LoginClaimants, Busy
<1>2. QED
  BY <1>1, FiniteAssumption, FS_Subset

-----------------------------------------------------------------------------
(* What a step does to the requests, and the types.                        *)

\* A worker takes a request; of the others only marks change.
LEMMA ServeEffect ==
  ASSUME work \in [Workers -> Request], NEW w \in Workers, NEW request \in Request,
         Serve(w, request)
  PROVE  /\ work[w].pc = "idle"
         /\ work' \in [Workers -> Request]
         /\ \E mark \in BOOLEAN :
              /\ work'[w] = [request EXCEPT !.shared = mark]
              /\ request.shared => mark
              /\ \A v \in Busy : request.line # None /\ work[v].line = request.line => mark
              /\ (\A v \in Busy : work[v].line # request.line) => mark = request.shared
         /\ \A v \in Workers \ {w} :
              \/ /\ work'[v] = work[v]
                 /\ v \in Busy => request.line = None \/ work[v].line # request.line
              \/ work'[v] = [work[v] EXCEPT !.shared = TRUE]
<1> DEFINE others == {v \in Busy : request.line # None /\ work[v].line = request.line}
<1>1. /\ work[w].pc = "idle"
      /\ work' = [v \in Workers |->
                    CASE v = w -> [request EXCEPT !.shared = @ \/ others # {}]
                      [] v \in others -> [work[v] EXCEPT !.shared = TRUE]
                      [] OTHER -> work[v]]
  BY DEF Serve
<1>2. w \notin others /\ others \subseteq Busy
  BY <1>1 DEF Busy
<1>3. work'[w] = [request EXCEPT !.shared = request.shared \/ others # {}]
  BY <1>1, <1>2
<1>4. ASSUME NEW v \in Workers \ {w}
      PROVE  work'[v] = IF v \in others THEN [work[v] EXCEPT !.shared = TRUE] ELSE work[v]
  BY <1>1
<1>5. \A r \in Request, m \in BOOLEAN : [r EXCEPT !.shared = m] \in Request
  BY DEF Request
<1>6. ASSUME NEW v \in Workers PROVE work'[v] \in Request
  <2>1. CASE v = w
    <3>1. (request.shared \/ others # {}) \in BOOLEAN
      BY DEF Request
    <3>2. QED
      BY <1>5, <1>3, <2>1, <3>1
  <2>2. CASE v # w
    BY <1>5, <1>4, <2>2
  <2>3. QED
    BY <2>1, <2>2
<1>7. work' \in [Workers -> Request]
  BY <1>1, <1>6
<1>8. \A v \in Workers \ {w} :
              \/ /\ work'[v] = work[v]
                 /\ v \in Busy => request.line = None \/ work[v].line # request.line
              \/ work'[v] = [work[v] EXCEPT !.shared = TRUE]
  BY <1>4
<1> DEFINE mark == request.shared \/ others # {}
<1>9. /\ mark \in BOOLEAN
      /\ work'[w] = [request EXCEPT !.shared = mark]
      /\ request.shared => mark
      /\ \A v \in Busy : request.line # None /\ work[v].line = request.line => mark
      /\ (\A v \in Busy : work[v].line # request.line) => mark = request.shared
  BY <1>3 DEF Request
<1>10. \E m \in BOOLEAN :
              /\ work'[w] = [request EXCEPT !.shared = m]
              /\ request.shared => m
              /\ \A v \in Busy : request.line # None /\ work[v].line = request.line => m
              /\ (\A v \in Busy : work[v].line # request.line) => m = request.shared
  BY <1>9
<1>11. QED
  BY <1>1, <1>7, <1>8, <1>10

\* A request about to issue a token finds one, and a line if it logs in.
LEMMA NewTokenFresh ==
  ASSUME RequestsOK, NEW w \in Workers, At(w, "issue")
  PROVE  /\ NewToken \in Tokens /\ FreshToken(NewToken)
         /\ work[w].op # "refresh" => NewLine \in Lines /\ UnusedLine(NewLine)
<1>1. w \in Claimants
  BY DEF At, Claimants
<1>2. FreshTokens # {}
  BY <1>1, SetsFinite, RoomFound DEF RequestsOK, RoomKept
<1>3. \E t \in Tokens : FreshToken(t)
  BY <1>2 DEF FreshTokens
<1>4. NewToken \in Tokens /\ FreshToken(NewToken)
  BY <1>3 DEF NewToken
<1>5. ASSUME work[w].op # "refresh" PROVE NewLine \in Lines /\ UnusedLine(NewLine)
  <2>1. work[w].op \in {"register", "login"}
    BY <1>5 DEF RequestsOK, TypeOK, RequestShape, Request, At
  <2>2. w \in LoginClaimants
    BY <2>1 DEF At, LoginClaimants
  <2>3. UnusedLines # {}
    BY <2>2, SetsFinite, RoomFound DEF RequestsOK, RoomKept
  <2>4. \E l \in Lines : UnusedLine(l)
    BY <2>3 DEF UnusedLines
  <2>5. QED
    BY <2>4 DEF NewLine
<1>6. QED
  BY <1>4, <1>5

\* Nothing becomes known to the server or to a browser that was not known before.
NothingNew ==
    /\ \A d \in docs' : \E e \in docs : e.tok = d.tok /\ e.line = d.line
    /\ \A c \in Clients : jar'[c] \in Tokens => ~FreshToken(jar'[c])
    /\ \A w \in Workers :
        /\ work'[w].tok \in Tokens => ~FreshToken(work'[w].tok)
        /\ work'[w].new \in Tokens => ~FreshToken(work'[w].new)
        /\ work'[w].line \in Lines => ~UnusedLine(work'[w].line)

\* A step that makes nothing new uses up nothing.
LEMMA RoomOnlyGrows ==
  ASSUME NothingNew
  PROVE  FreshTokens \subseteq FreshTokens' /\ UnusedLines \subseteq UnusedLines'
<1>1. ASSUME NEW t \in Tokens, FreshToken(t) PROVE FreshToken(t)'
  BY <1>1 DEF FreshToken, NothingNew
<1>2. ASSUME NEW l \in Lines, UnusedLine(l) PROVE UnusedLine(l)'
  BY <1>2 DEF UnusedLine, NothingNew
<1>3. QED
  BY <1>1, <1>2 DEF FreshTokens, UnusedLines

\* Nothing used and nothing claimed keep the room.
LEMMA RoomPreserved ==
  ASSUME RoomKept, NothingNew,
         Claimants' \subseteq Claimants, LoginClaimants' \subseteq LoginClaimants
  PROVE  RoomKept'
<1>1. FreshTokens \subseteq FreshTokens' /\ UnusedLines \subseteq UnusedLines'
  BY RoomOnlyGrows
<1>2. Cardinality(Claimants') <= Cardinality(FreshTokens')
  BY <1>1, SetsFinite, RoomGrows DEF RoomKept
<1>3. Cardinality(LoginClaimants') <= Cardinality(UnusedLines')
  BY <1>1, SetsFinite, RoomGrows DEF RoomKept
<1>4. QED
  BY <1>2, <1>3 DEF RoomKept

\* What is in use is not fresh.
LEMMA InUse ==
  /\ \A d \in docs : ~FreshToken(d.tok) /\ ~UnusedLine(d.line)
  /\ \A c \in Clients : ~FreshToken(jar[c])
  /\ \A w \in Workers : /\ ~FreshToken(work[w].tok) /\ ~FreshToken(work[w].new)
                        /\ ~UnusedLine(work[w].line)
BY DEF FreshToken, UnusedLine

\* The steps of a handler that only move it on, end it, or change marks beside it.
Moved(w, v) ==
    \/ work'[v] = work[v]
    \/ work'[v] = NoRequest
    \/ work[v].pc # "idle" /\ work'[v] = [work[v] EXCEPT !.blocked = FALSE]
    \/ /\ v = w /\ \E pc \in PCs : work'[v] = [work[v] EXCEPT !.pc = pc]
       /\ work'[v].pc \in {"save", "delete", "user", "issue"} =>
            work[v].pc \in {"save", "delete", "user", "issue"}
       /\ work[v].op \in {"register", "login"} =>
            (work'[v].pc \in {"save", "issue"} => work[v].pc \in {"save", "issue"})
       /\ work'[v].pc = "idle" => work'[v] = NoRequest
       /\ work'[v].pc \in {"delete", "user", "revoke"} => work[v].op = "refresh"
       /\ work'[v].pc = "save" => work[v].op = "register"
       /\ work[v].op # "logout" /\ work[v].pc # "idle"
       /\ work'[v].pc # "delete"
       /\ work'[v].pc \in {"user", "issue"} =>
            work[v].pc \in {"save", "user", "issue"} \/ RefreshDelete(v)

\* A step of one request that creates no token keeps shape and room.
LEMMA MovedKeeps ==
  ASSUME RequestsOK, work' \in [Workers -> Request], NEW w, \A v \in Workers : Moved(w, v),
         \A d \in docs' : \E e \in docs : e.tok = d.tok /\ e.line = d.line,
         \A c \in Clients : jar'[c] \in Tokens => ~FreshToken(jar'[c])
  PROVE  RequestShape' /\ RoomKept'
<1>1. None \notin Tokens /\ None \notin Lines
  BY NoneAssumption
<1>2. ASSUME NEW v \in Workers
      PROVE  /\ work'[v].tok \in {None, work[v].tok} /\ work'[v].new \in {None, work[v].new}
             /\ work'[v].line \in {None, work[v].line}
  BY DEF Moved, NoRequest, RequestsOK, TypeOK, Request
<1>3. NothingNew
  BY <1>1, <1>2, InUse DEF NothingNew
<1>4. Claimants' \subseteq Claimants /\ LoginClaimants' \subseteq LoginClaimants
  BY DEF Claimants, LoginClaimants, Moved, NoRequest, RequestsOK, TypeOK, Request
<1>5. RoomKept'
  BY <1>3, <1>4, RoomPreserved DEF RequestsOK
<1> DEFINE Shape(v) ==
        /\ work[v].pc = "idle" => work[v] = NoRequest
        /\ work[v].op = "none" => work[v].pc = "idle"
        /\ work[v].pc \in {"delete", "user", "revoke"} => work[v].op = "refresh"
        /\ work[v].pc = "save" => work[v].op = "register"
        /\ work[v].op = "logout" => work[v].pc = "respond"
        /\ work[v].op \in {"register", "login", "refresh"} => work[v].user \in Users
        /\ work[v].op = "refresh" => work[v].line \in Lines
        /\ work[v].op \in {"register", "login"} /\ work[v].pc \in {"save", "issue"} =>
                work[v].line = None
<1>6. ASSUME NEW v \in Workers PROVE Shape(v)'
  <2>1. Moved(w, v) /\ Shape(v) /\ work[v] \in Request
    BY DEF RequestShape, RequestsOK, TypeOK
  <2>2. CASE work'[v] = work[v]
    BY <2>1, <2>2
  <2>3. CASE work'[v] = NoRequest
    BY <2>3 DEF NoRequest
  <2>4. CASE work[v].pc # "idle" /\ work'[v] = [work[v] EXCEPT !.blocked = FALSE]
    <3>1. /\ work'[v].pc = work[v].pc /\ work'[v].op = work[v].op
          /\ work'[v].user = work[v].user /\ work'[v].line = work[v].line
      BY <2>1, <2>4 DEF Request
    <3>2. QED
      BY <2>1, <2>4, <3>1
  <2>5. ASSUME NEW pc \in PCs, work'[v] = [work[v] EXCEPT !.pc = pc],
               work[v].op \in {"register", "login"} =>
                    (work'[v].pc \in {"save", "issue"} => work[v].pc \in {"save", "issue"}),
               work'[v].pc = "idle" => work'[v] = NoRequest,
               work'[v].pc \in {"delete", "user", "revoke"} => work[v].op = "refresh",
               work'[v].pc = "save" => work[v].op = "register",
               work[v].op # "logout" /\ work[v].pc # "idle"
        PROVE  Shape(v)'
    <3>1. /\ work'[v].pc = pc /\ work'[v].op = work[v].op
          /\ work'[v].user = work[v].user /\ work'[v].line = work[v].line
      BY <2>1, <2>5 DEF Request
    <3>2. QED
      BY <2>1, <2>5, <3>1
  <2>6. QED
    BY <2>1, <2>2, <2>3, <2>4, <2>5 DEF Moved
<1>7. QED
  BY <1>5, <1>6 DEF RequestShape

\* A request as a handler takes it.
Takes(w, request) ==
    /\ Serve(w, request)
    /\ docs' \subseteq docs /\ UNCHANGED <<registered, flags, jar, stage>>
    /\ request.pc # "idle" /\ request.op # "none" /\ request.new = None
    /\ request.pc \in {"delete", "user", "revoke"} => request.op = "refresh"
    /\ request.pc = "save" => request.op = "register"
    /\ request.op = "logout" => request.pc = "respond"
    /\ request.op # "logout" => request.user \in Users /\ RoomForRequest
    /\ request.op = "refresh" => request.line \in Lines
    /\ request.op \in {"register", "login"} => request.line = None /\ RoomForLogin
    /\ request.tok \in Tokens => ~FreshToken(request.tok)
    /\ request.line \in Lines => ~UnusedLine(request.line)

\* A request that arrives claims only room that is left.
LEMMA TakesKeeps ==
  ASSUME RequestsOK, NEW w \in Workers, NEW request \in Request, Takes(w, request)
  PROVE  RequestsOK'
<1> USE DEF RequestsOK
<1>1. None \notin Tokens /\ None \notin Lines /\ None \notin Users
  BY NoneAssumption
<1>2. /\ work[w].pc = "idle"
      /\ work' \in [Workers -> Request]
      /\ \E mark \in BOOLEAN : work'[w] = [request EXCEPT !.shared = mark]
      /\ \A v \in Workers \ {w} :
              work'[v] = work[v] \/ work'[v] = [work[v] EXCEPT !.shared = TRUE]
      /\ \A v \in Workers \ {w} : v \notin Busy => work'[v] = work[v]
  <2>1. work \in [Workers -> Request] /\ Serve(w, request)
    BY DEF TypeOK, Takes
  <2>2. ASSUME NEW v \in Workers \ {w}, v \notin Busy PROVE work'[v] = work[v]
    BY <2>1, <2>2 DEF Serve
  <2>3. QED
    BY <2>1, <2>2, ServeEffect
<1>3. /\ work'[w].pc = request.pc /\ work'[w].op = request.op /\ work'[w].user = request.user
      /\ work'[w].tok = request.tok /\ work'[w].line = request.line
      /\ work'[w].new = request.new
  BY <1>2 DEF Request
<1>4. \A v \in Workers \ {w} :
        /\ work'[v].pc = work[v].pc /\ work'[v].op = work[v].op
        /\ work'[v].user = work[v].user /\ work'[v].tok = work[v].tok
        /\ work'[v].line = work[v].line /\ work'[v].new = work[v].new
  BY <1>2 DEF Request, TypeOK
<1>5. TypeOK'
  BY <1>2 DEF TypeOK, Takes
<1>6. RequestShape'
  <2> SUFFICES ASSUME NEW v \in Workers
               PROVE  /\ work'[v].pc = "idle" => work'[v] = NoRequest
                      /\ work'[v].op = "none" => work'[v].pc = "idle"
                      /\ work'[v].pc \in {"delete", "user", "revoke"} => work'[v].op = "refresh"
                      /\ work'[v].pc = "save" => work'[v].op = "register"
                      /\ work'[v].op = "logout" => work'[v].pc = "respond"
                      /\ work'[v].op \in {"register", "login", "refresh"} =>
                            work'[v].user \in Users
                      /\ work'[v].op = "refresh" => work'[v].line \in Lines
                      /\ work'[v].op \in {"register", "login"} /\ work'[v].pc \in {"save", "issue"} =>
                            work'[v].line = None
    BY DEF RequestShape
  <2>1. CASE v = w
    BY <1>3, <2>1 DEF Takes
  <2>2. CASE v # w
    <3>1. work'[v].pc = "idle" => work'[v] = work[v]
      BY <1>2, <1>4, <2>2 DEF Busy
    <3>2. QED
      BY <1>4, <2>2, <3>1 DEF RequestShape
  <2>3. QED
    BY <2>1, <2>2
<1>7. NothingNew
  BY <1>1, <1>3, <1>4, InUse DEF NothingNew, Takes
<1>8. FreshTokens \subseteq FreshTokens' /\ UnusedLines \subseteq UnusedLines'
  BY <1>7, RoomOnlyGrows
<1>9. Cardinality(Claimants') <= Cardinality(FreshTokens')
  <2>1. CASE request.op = "logout"
    <3>1. Claimants' \subseteq Claimants
      BY <1>3, <1>4, <2>1 DEF Claimants, Takes
    <3>2. QED
      BY <1>8, <3>1, SetsFinite, RoomGrows DEF RoomKept
  <2>2. CASE request.op # "logout"
    <3>1. Claimants' \subseteq Busy \cup {w}
      BY <1>4 DEF Claimants, Busy
    <3>2. Cardinality(FreshTokens) > Cardinality(Busy)
      BY <2>2 DEF Takes, RoomForRequest, FreshTokens
    <3>3. QED
      BY <1>8, <3>1, <3>2, SetsFinite, RoomLeft
  <2>3. QED
    BY <2>1, <2>2
<1>10. Cardinality(LoginClaimants') <= Cardinality(UnusedLines')
  <2>1. CASE request.op \notin {"register", "login"}
    <3>1. LoginClaimants' \subseteq LoginClaimants
      BY <1>3, <1>4, <2>1 DEF LoginClaimants
    <3>2. QED
      BY <1>8, <3>1, SetsFinite, RoomGrows DEF RoomKept
  <2>2. CASE request.op \in {"register", "login"}
    <3> DEFINE logins == {v \in Busy : work[v].op \in {"register", "login"}}
    <3>1. LoginClaimants' \subseteq logins \cup {w}
      BY <1>4 DEF LoginClaimants, Busy
    <3>2. Cardinality(UnusedLines) > Cardinality(logins)
      BY <2>2 DEF Takes, RoomForLogin, UnusedLines
    <3>3. IsFiniteSet(logins)
      BY SetsFinite, FS_Subset
    <3> HIDE DEF logins
    <3>4. QED
      BY <1>8, <3>1, <3>2, <3>3, SetsFinite, RoomLeft
  <2>3. QED
    BY <2>1, <2>2
<1>11. IsFiniteSet(docs')
  BY FS_Subset DEF Takes
<1>12. TokensUnique'
  BY DEF TokensUnique, Takes
<1>13. QED
  BY <1>5, <1>6, <1>9, <1>10, <1>11, <1>12 DEF RoomKept

-----------------------------------------------------------------------------
(* Every step keeps the types, the shapes and the room.                    *)

\* A worker at rest is of its type.
LEMMA NoRequestIsRequest == NoRequest \in Request
BY DEF NoRequest, Request, PCs

\* There are no requests at first.
LEMMA RequestsInit == Init => RequestsOK
<1> SUFFICES ASSUME Init PROVE RequestsOK
  OBVIOUS
<1>1. TypeOK
  BY NoRequestIsRequest DEF Init, TypeOK, StageInit, Stages, Doc
<1>2. \A w \in Workers : work[w] = NoRequest
  BY DEF Init
<1>3. RequestShape
  <2>1. /\ NoRequest.pc = "idle" /\ NoRequest.op = "none"
        /\ NoRequest.line = None
    BY DEF NoRequest
  <2>2. QED
    BY <1>2, <2>1 DEF RequestShape
<1>4. Claimants = {} /\ LoginClaimants = {}
  BY <1>2 DEF Claimants, LoginClaimants, NoRequest
<1>5. /\ Cardinality({}) = 0
      /\ Cardinality(FreshTokens) \in Nat /\ Cardinality(UnusedLines) \in Nat
  BY SetsFinite, FS_EmptySet, FS_CardinalityType
<1>6. RoomKept
  BY <1>4, <1>5 DEF RoomKept
<1>7. IsFiniteSet(docs) /\ TokensUnique
  BY FS_EmptySet DEF Init, TokensUnique
<1>8. QED
  BY <1>1, <1>3, <1>6, <1>7 DEF RequestsOK

\* Arriving requests keep the types and the room.
LEMMA ArriveKeepsRequests ==
  ASSUME RequestsOK, NEW w \in Workers, Arrive(w)
  PROVE  RequestsOK'
<1>1. TypeOK /\ None \notin Tokens /\ None \notin Lines
  BY NoneAssumption DEF RequestsOK
<1>2. PICK c \in Clients : \/ \E u \in Users : RegisterFind(w, c, u) \/ LoginFind(w, c, u)
                          \/ RefreshFind(w, c)
                          \/ Logout(w, c)
  BY DEF Arrive
<1>3. ASSUME NEW u \in Users, RegisterFind(w, c, u) PROVE RequestsOK'
  <2> DEFINE request == [NoRequest EXCEPT !.pc = "save", !.op = "register",
                                          !.client = c, !.user = u]
  <2>1. request \in Request
    BY DEF NoRequest, Request, PCs
  <2>2. Takes(w, request)
    BY <1>1, <1>3 DEF RegisterFind, Takes, NoRequest, RoomForLogin
  <2>3. QED
    BY <2>1, <2>2, TakesKeeps
<1>4. ASSUME NEW u \in Users, LoginFind(w, c, u) PROVE RequestsOK'
  <2> DEFINE request == [NoRequest EXCEPT !.pc = "issue", !.op = "login",
                                          !.client = c, !.user = u]
  <2>1. request \in Request
    BY DEF NoRequest, Request, PCs
  <2>2. Takes(w, request)
    BY <1>1, <1>4 DEF LoginFind, Takes, NoRequest, RoomForLogin
  <2>3. QED
    BY <2>1, <2>2, TakesKeeps
<1>5. ASSUME RefreshFind(w, c) PROVE RequestsOK'
  <2>1. PICK d \in docs :
          /\ d.tok = jar[c] /\ ~d.expired
          /\ Serve(w, [NoRequest EXCEPT
                        !.pc = "delete", !.op = "refresh", !.client = c,
                        !.user = d.user, !.tok = d.tok, !.line = d.line,
                        !.shared = d.shared, !.blocked = Suspended(d.user)])
    BY <1>5 DEF RefreshFind
  <2> DEFINE request == [NoRequest EXCEPT
                        !.pc = "delete", !.op = "refresh", !.client = c,
                        !.user = d.user, !.tok = d.tok, !.line = d.line,
                        !.shared = d.shared, !.blocked = Suspended(d.user)]
  <2>2. d.user \in Users /\ d.tok \in Tokens /\ d.line \in Lines /\ d.shared \in BOOLEAN
    BY <1>1 DEF TypeOK, Doc
  <2>3. Suspended(d.user) \in BOOLEAN
    BY DEF Suspended
  <2>4. request \in Request
    BY <2>2, <2>3 DEF NoRequest, Request, PCs
  <2>5. /\ request.pc = "delete" /\ request.op = "refresh" /\ request.new = None
        /\ request.user = d.user /\ request.tok = d.tok /\ request.line = d.line
    BY DEF NoRequest
  <2>6. Serve(w, request) /\ docs' = docs /\ UNCHANGED <<registered, flags, jar, stage>>
        /\ RoomForRequest
    BY <1>5, <2>1 DEF RefreshFind
  <2> HIDE DEF request
  <2>7. Takes(w, request)
    BY <1>1, <2>2, <2>5, <2>6, InUse DEF Takes
  <2>8. QED
    BY <2>4, <2>7, TakesKeeps
<1>6. ASSUME Logout(w, c) PROVE RequestsOK'
  <2> DEFINE request == [NoRequest EXCEPT
                    !.pc = "respond", !.op = "logout", !.client = c, !.tok = jar[c],
                    !.line = LineOf(jar[c]), !.shared = SharedToken(jar[c])]
  <2>1. LineOf(jar[c]) = None \/ \E d \in docs : LineOf(jar[c]) = d.line
    BY DEF LineOf
  <2>2. /\ LineOf(jar[c]) \in Lines \cup {None} /\ jar[c] \in Tokens \cup {None}
        /\ SharedToken(jar[c]) \in BOOLEAN
    BY <1>1, <2>1 DEF TypeOK, Doc, SharedToken
  <2>3. request \in Request
    BY <2>2 DEF NoRequest, Request, PCs
  <2>4. /\ request.pc = "respond" /\ request.op = "logout" /\ request.new = None
        /\ request.tok = jar[c] /\ request.line = LineOf(jar[c])
    BY DEF NoRequest
  <2>5. /\ Serve(w, request) /\ docs' \subseteq docs
        /\ UNCHANGED <<registered, flags, jar, stage>>
    BY <1>6 DEF Logout
  <2> HIDE DEF request
  <2>6. Takes(w, request)
    BY <1>1, <2>1, <2>4, <2>5, InUse DEF Takes
  <2>7. QED
    BY <2>3, <2>6, TakesKeeps
<1>7. QED
  BY <1>2, <1>3, <1>4, <1>5, <1>6


(* The handlers' later steps, ends and the marks beside them.              *)
Moves ==
    /\ work' \in [Workers -> Request]
    /\ \E w : \A v \in Workers : Moved(w, v)

\* Answering a request is a move of that request alone.
LEMMA FinishMoves ==
  ASSUME work \in [Workers -> Request], NEW w \in Workers, Finish(w)
  PROVE  Moves
<1>1. work' = [work EXCEPT ![w] = NoRequest]
  BY DEF Finish
<1>2. \A v \in Workers : work'[v] = IF v = w THEN NoRequest ELSE work[v]
  BY <1>1
<1>3. work' \in [Workers -> Request]
  BY <1>1, NoRequestIsRequest
<1>4. QED
  BY <1>2, <1>3 DEF Moves, Moved

\* So is going on to the next await.
LEMMA GotoMoves ==
  ASSUME work \in [Workers -> Request], NEW w \in Workers, NEW pc \in PCs \ {"idle", "delete"},
         Goto(w, pc),
         work[w].op # "logout" /\ work[w].pc # "idle",
         pc \in {"save", "delete", "user", "issue"} =>
            work[w].pc \in {"save", "delete", "user", "issue"},
         work[w].op \in {"register", "login"} /\ pc \in {"save", "issue"} =>
            work[w].pc \in {"save", "issue"},
         pc \in {"delete", "user", "revoke"} => work[w].op = "refresh",
         pc = "save" => work[w].op = "register",
         pc \in {"user", "issue"} =>
            work[w].pc \in {"save", "user", "issue"} \/ RefreshDelete(w)
  PROVE  Moves
<1>1. work' = [work EXCEPT ![w].pc = pc]
  BY DEF Goto
<1>2. /\ work'[w] = [work[w] EXCEPT !.pc = pc]
      /\ \A v \in Workers \ {w} : work'[v] = work[v]
  BY <1>1
<1>3. work'[w] \in Request /\ work'[w].pc = pc
  BY <1>2 DEF Request
<1>4. work' \in [Workers -> Request]
  BY <1>1, <1>2, <1>3
<1>5. Moved(w, w)
  BY <1>2, <1>3 DEF Moved
<1>6. \A v \in Workers : Moved(w, v)
  BY <1>2, <1>5 DEF Moved
<1>7. QED
  BY <1>4, <1>6 DEF Moves

\* Every step but the arrival of a request, the issue of a token and its expiry.
MoveStep ==
    \/ \E w \in Workers : \/ RegisterSave(w) \/ RefreshDelete(w) \/ RefreshUser(w)
                         \/ RefreshRevoke(w) \/ ScheduleWarning(w) \/ Respond(w) \/ Fail(w)
    \/ Restart
    \/ \E u \in Users : (\E f \in Flags : Suspend(u, f) \/ Reinstate(u, f)) \/ TimerFires(u)
    \/ removeExpiredRefreshTokens
    \/ UNCHANGED vars

\* A step is an arrival, an issue, a move or an expiry.
LEMMA StepIsMove ==
  ASSUME [Next]_vars
  PROVE  \/ \E w \in Workers : Arrive(w) \/ generateRefreshToken(w)
         \/ MoveStep
         \/ \E t \in Tokens : Expire(t)
BY DEF Next, Continue, MoveStep

\* A move changes one request and at most removes documents.
LEMMA MoveStepMoves ==
  ASSUME RequestsOK, MoveStep
  PROVE  Moves /\ docs' \subseteq docs
<1>1. work \in [Workers -> Request] /\ RequestShape /\ None \notin Users
  BY NoneAssumption DEF RequestsOK, TypeOK
<1>2. ASSUME NEW w \in Workers, RegisterSave(w) PROVE Moves /\ docs' \subseteq docs
  <2>1. work[w].pc = "save" /\ work[w].op = "register" /\ docs' = docs
    BY <1>1, <1>2 DEF RegisterSave, At, RequestShape
  <2>2. CASE Goto(w, "issue")
    BY <1>1, <2>1, <2>2, GotoMoves DEF PCs
  <2>3. CASE Finish(w)
    BY <1>1, <2>1, <2>3, FinishMoves
  <2>4. QED
    BY <1>2, <2>2, <2>3 DEF RegisterSave
<1>3. ASSUME NEW w \in Workers, RefreshDelete(w) PROVE Moves /\ docs' \subseteq docs
  <2>1. work[w].pc = "delete" /\ work[w].op = "refresh" /\ docs' \subseteq docs /\ Goto(w, "user")
    BY <1>1, <1>3 DEF RefreshDelete, At, RequestShape
  <2>2. QED
    BY <1>1, <1>3, <2>1, GotoMoves DEF PCs
<1>4. ASSUME NEW w \in Workers, RefreshUser(w) PROVE Moves /\ docs' \subseteq docs
  <2>1. work[w].pc = "user" /\ work[w].op = "refresh" /\ docs' = docs
    BY <1>1, <1>4 DEF RefreshUser, At, RequestShape
  <2>2. CASE Goto(w, "revoke")
    BY <1>1, <2>1, <2>2, GotoMoves DEF PCs
  <2>3. CASE Goto(w, "issue")
    BY <1>1, <2>1, <2>3, GotoMoves DEF PCs
  <2>4. QED
    BY <1>4, <2>2, <2>3 DEF RefreshUser
<1>5. ASSUME NEW w \in Workers, RefreshRevoke(w) PROVE Moves /\ docs' \subseteq docs
  BY <1>1, <1>5, FinishMoves DEF RefreshRevoke
<1>6. ASSUME NEW w \in Workers, ScheduleWarning(w) PROVE Moves /\ docs' \subseteq docs
  <2>1. work[w].pc = "schedule" /\ work[w].op # "logout" /\ docs' = docs /\ Goto(w, "respond")
    BY <1>1, <1>6 DEF ScheduleWarning, At, RequestShape
  <2>2. QED
    BY <1>1, <2>1, GotoMoves DEF PCs
<1>7. ASSUME NEW w \in Workers, Respond(w) PROVE Moves /\ docs' \subseteq docs
  BY <1>1, <1>7, FinishMoves DEF Respond
<1>8. ASSUME NEW w \in Workers, Fail(w) PROVE Moves /\ docs' \subseteq docs
  BY <1>1, <1>8, FinishMoves DEF Fail
<1>9. ASSUME UNCHANGED <<docs, work>> PROVE Moves /\ docs' \subseteq docs
  BY <1>1, <1>9 DEF Moves, Moved
<1>10. CASE Restart
  BY <1>10, NoRequestIsRequest DEF Restart, Moves, Moved
<1>11. ASSUME NEW u \in Users, NEW f \in Flags, Reinstate(u, f) PROVE Moves /\ docs' \subseteq docs
  <2>1. CASE work' = work
    BY <1>9, <1>11, <2>1 DEF Reinstate
  <2>2. CASE work' = [w \in Workers |-> IF work[w].user = u
                        THEN [work[w] EXCEPT !.blocked = FALSE] ELSE work[w]]
    <3>1. ASSUME NEW v \in Workers, work[v].user = u PROVE work[v].pc # "idle"
      BY <1>1, <3>1 DEF RequestShape, NoRequest
    <3>2. \A v \in Workers : work'[v] = work[v] \/
             (work[v].pc # "idle" /\ work'[v] = [work[v] EXCEPT !.blocked = FALSE])
      BY <2>2, <3>1
    <3>3. \A v \in Workers : [work[v] EXCEPT !.blocked = FALSE] \in Request
      BY <1>1 DEF Request
    <3>4. work' \in [Workers -> Request]
      BY <1>1, <2>2, <3>3
    <3>5. docs' = docs
      BY <1>11 DEF Reinstate
    <3>6. QED
      BY <3>2, <3>4, <3>5 DEF Moves, Moved
  <2>3. QED
    BY <1>11, <2>1, <2>2 DEF Reinstate
<1>12. CASE removeExpiredRefreshTokens
  <2>1. docs' \subseteq docs /\ work' = work
    BY <1>12 DEF removeExpiredRefreshTokens
  <2>2. QED
    BY <1>1, <2>1 DEF Moves, Moved
<1>13. QED
  BY <1>2, <1>3, <1>4, <1>5, <1>6, <1>7, <1>8, <1>9, <1>10, <1>11, <1>12
     DEF MoveStep, Suspend, TimerFires, vars, authVars

\* A move keeps the types and hands out no token that was never issued.
LEMMA MoveStepTypes ==
  ASSUME RequestsOK, MoveStep
  PROVE  /\ TypeOK' /\ \A c \in Clients : jar'[c] \in Tokens => ~FreshToken(jar'[c])
<1>1. TypeOK /\ RequestShape
  BY DEF RequestsOK
<1>2. work' \in [Workers -> Request] /\ docs' \subseteq Doc
  BY <1>1, MoveStepMoves DEF Moves, TypeOK
<1>3. registered' \subseteq Users
  <2>1. ASSUME NEW w \in Workers, RegisterSave(w) PROVE registered' \subseteq Users
    <3>1. work[w].user \in Users
      BY <1>1, <2>1 DEF RegisterSave, At, RequestShape
    <3>2. QED
      BY <1>1, <2>1, <3>1 DEF RegisterSave, TypeOK
  <2>2. CASE registered' = registered
    BY <1>1, <2>2 DEF TypeOK
  <2>3. QED
    BY <2>1, <2>2 DEF MoveStep, RefreshDelete, RefreshUser, RefreshRevoke, ScheduleWarning,
       Respond, Fail, Restart, Suspend, Reinstate, TimerFires, removeExpiredRefreshTokens,
       vars, authVars
<1>4. flags' \in [Users -> SUBSET Flags]
  <2>1. ASSUME NEW u \in Users, NEW f \in Flags, Suspend(u, f) \/ Reinstate(u, f)
        PROVE  flags' \in [Users -> SUBSET Flags]
    BY <1>1, <2>1 DEF Suspend, Reinstate, TypeOK
  <2>2. CASE flags' = flags
    BY <1>1, <2>2 DEF TypeOK
  <2>3. QED
    BY <2>1, <2>2 DEF MoveStep, RegisterSave, RefreshDelete, RefreshUser, RefreshRevoke,
       ScheduleWarning, Respond, Fail, Restart, TimerFires, removeExpiredRefreshTokens,
       vars, authVars
<1>5. stage' \in [Users -> Stages]
  <2>1. CASE stage' = stage
    BY <1>1, <2>1 DEF TypeOK
  <2>2. ASSUME NEW u, StageSchedule(u, FALSE) \/ StageCancel(u) \/ StageWarn(u)
                      \/ StageForceLogout(u) \/ StageRestart
        PROVE  stage' \in [Users -> Stages]
    BY <1>1, <2>2 DEF StageSchedule, StageCancel, StageWarn, StageForceLogout, StageRestart,
       TypeOK, Stages
  <2>3. QED
    BY <2>1, <2>2 DEF MoveStep, RegisterSave, RefreshDelete, RefreshUser, RefreshRevoke,
       ScheduleWarning, Respond, Fail, Restart, Suspend, Reinstate, TimerFires,
       removeExpiredRefreshTokens, vars, authVars
<1>6. /\ jar' \in [Clients -> Tokens \cup {None}]
      /\ \A c \in Clients : jar'[c] \in Tokens => ~FreshToken(jar'[c])
  <2>1. CASE jar' = jar
    BY <1>1, <2>1, InUse DEF TypeOK
  <2>2. ASSUME NEW w \in Workers, jar' = [jar EXCEPT ![work[w].client] = work[w].new]
        PROVE  /\ jar' \in [Clients -> Tokens \cup {None}]
               /\ \A c \in Clients : jar'[c] \in Tokens => ~FreshToken(jar'[c])
    <3>1. work[w].new \in Tokens \cup {None}
      BY <1>1 DEF TypeOK, Request
    <3>2. \A c \in Clients : jar'[c] = jar[c] \/ jar'[c] = work[w].new
      BY <1>1, <2>2 DEF TypeOK
    <3>3. jar' \in [Clients -> Tokens \cup {None}]
      BY <1>1, <2>2, <3>1 DEF TypeOK
    <3>4. QED
      BY <3>2, <3>3, InUse
  <2>3. QED
    BY <2>1, <2>2 DEF MoveStep, RegisterSave, RefreshDelete, RefreshUser, RefreshRevoke,
       ScheduleWarning, Respond, Fail, Restart, Suspend, Reinstate, TimerFires,
       removeExpiredRefreshTokens, vars, authVars
<1>7. QED
  BY <1>2, <1>3, <1>4, <1>5, <1>6 DEF TypeOK

\* A move keeps the types and the room.
LEMMA MoveKeepsRequests == RequestsOK /\ MoveStep => RequestsOK'
<1> SUFFICES ASSUME RequestsOK, MoveStep PROVE RequestsOK'
  OBVIOUS
<1>1. Moves /\ docs' \subseteq docs /\ TypeOK'
      /\ \A c \in Clients : jar'[c] \in Tokens => ~FreshToken(jar'[c])
  BY MoveStepMoves, MoveStepTypes
<1>2. PICK w : \A v \in Workers : Moved(w, v)
  BY <1>1 DEF Moves
<1>3. RequestShape' /\ RoomKept'
  BY <1>1, <1>2, MovedKeeps DEF Moves
<1>4. IsFiniteSet(docs') /\ TokensUnique'
  BY <1>1, FS_Subset DEF RequestsOK, TokensUnique
<1>5. QED
  BY <1>1, <1>3, <1>4 DEF RequestsOK

\* The TTL index and the clean-up job keep them too.
LEMMA ExpireKeepsRequests ==
  ASSUME RequestsOK, NEW t \in Tokens, Expire(t)
  PROVE  /\ RequestsOK'
         /\ \A d \in docs' : \E e \in docs : e.tok = d.tok /\ e.line = d.line /\ e.shared = d.shared
<1> USE DEF RequestsOK
<1>1. PICK d \in docs : docs' = (docs \ {d}) \cup {[d EXCEPT !.expired = TRUE]}
  BY DEF Expire
<1>2. UNCHANGED <<registered, flags, jar, work, stage>>
  BY DEF Expire
<1> DEFINE after == [d EXCEPT !.expired = TRUE]
<1>3. d \in Doc /\ after \in Doc /\ after.tok = d.tok /\ after.line = d.line /\ after.shared = d.shared
  BY DEF TypeOK, Doc
<1> HIDE DEF after
<1>4. TypeOK'
  BY <1>1, <1>2, <1>3 DEF TypeOK, after
<1>5. IsFiniteSet(docs')
  BY <1>1, FS_Subset, FS_AddElement
<1>6. TokensUnique'
  <2>1. docs' = (docs \ {d}) \cup {after}
    BY <1>1 DEF after
  <2>2. \A e \in docs : e.tok = d.tok => e = d
    BY DEF TokensUnique
  <2>3. ASSUME NEW e \in docs', NEW f \in docs', e.tok = f.tok PROVE e = f
    BY <1>3, <2>1, <2>2, <2>3 DEF TokensUnique
  <2>4. QED
    BY <2>3 DEF TokensUnique
<1>7. \A e \in docs' : \E f \in docs : f.tok = e.tok /\ f.line = e.line /\ f.shared = e.shared
  BY <1>1, <1>3 DEF after
<1>8. \A v \in Workers : Moved(None, v)
  BY <1>2 DEF Moved
<1>9. RequestShape' /\ RoomKept'
  BY <1>2, <1>7, <1>8, InUse, MovedKeeps DEF TypeOK
<1>10. QED
  BY <1>4, <1>5, <1>6, <1>7, <1>9

\* The token is new, and so is the line of a login.
LEMMA IssueEffect ==
  ASSUME RequestsOK, NEW w \in Workers, generateRefreshToken(w)
  PROVE  \E t \in Tokens, l \in Lines, pc \in {"respond", "schedule"} :
            /\ FreshToken(t)
            /\ IF work[w].op = "refresh" THEN l = work[w].line
               ELSE work[w].op \in {"register", "login"} /\ UnusedLine(l)
            /\ docs' = docs \cup {[tok |-> t, user |-> work[w].user, line |-> l,
                                   shared |-> work[w].shared, expired |-> FALSE]}
            /\ work[w].pc = "issue" /\ work[w].user \in Users
            /\ work' = [work EXCEPT ![w].new = t, ![w].line = l, ![w].pc = pc]
            /\ UNCHANGED <<registered, flags, jar, stage>>
<1>1. At(w, "issue") /\ work[w].pc = "issue"
  BY DEF generateRefreshToken, At
<1> DEFINE l == IF work[w].op = "refresh" THEN work[w].line ELSE NewLine
           pc == IF work[w].op = "register" THEN "respond" ELSE "schedule"
<1>2. NewToken \in Tokens /\ FreshToken(NewToken)
  BY <1>1, NewTokenFresh
<1>3. work[w].op \in {"refresh", "register", "login"} /\ work[w].user \in Users
  BY <1>1 DEF RequestsOK, TypeOK, RequestShape, Request
<1>4. l \in Lines
  BY <1>1, <1>3, NewTokenFresh DEF RequestsOK, RequestShape
<1>5. IF work[w].op = "refresh" THEN l = work[w].line
      ELSE work[w].op \in {"register", "login"} /\ UnusedLine(l)
  BY <1>1, <1>3, NewTokenFresh
<1>6. pc \in {"respond", "schedule"}
  OBVIOUS
<1>7. /\ docs' = docs \cup {[tok |-> NewToken, user |-> work[w].user, line |-> l,
                            shared |-> work[w].shared, expired |-> FALSE]}
      /\ work' = [work EXCEPT ![w].new = NewToken, ![w].line = l, ![w].pc = pc]
      /\ UNCHANGED <<registered, flags, jar, stage>>
  BY DEF generateRefreshToken
<1> HIDE DEF l, pc
<1>8. QED
  BY <1>1, <1>2, <1>3, <1>4, <1>5, <1>6, <1>7

\* generateRefreshToken finds a fresh token and keeps the room of the others.
LEMMA IssueKeepsRequests ==
  ASSUME RequestsOK, NEW w \in Workers, generateRefreshToken(w)
  PROVE  RequestsOK'
<1>1. PICK t \in Tokens, l \in Lines, pc \in {"respond", "schedule"} :
            /\ FreshToken(t)
            /\ IF work[w].op = "refresh" THEN l = work[w].line
               ELSE work[w].op \in {"register", "login"} /\ UnusedLine(l)
            /\ docs' = docs \cup {[tok |-> t, user |-> work[w].user, line |-> l,
                                   shared |-> work[w].shared, expired |-> FALSE]}
            /\ work[w].pc = "issue" /\ work[w].user \in Users
            /\ work' = [work EXCEPT ![w].new = t, ![w].line = l, ![w].pc = pc]
            /\ UNCHANGED <<registered, flags, jar, stage>>
  BY IssueEffect
<1>2. TypeOK /\ RequestShape /\ RoomKept /\ IsFiniteSet(docs) /\ TokensUnique
  BY DEF RequestsOK
<1>3. None \notin Tokens /\ None \notin Lines
  BY NoneAssumption
<1>4. /\ work'[w] = [work[w] EXCEPT !.new = t, !.line = l, !.pc = pc]
      /\ \A v \in Workers \ {w} : work'[v] = work[v]
  BY <1>1, <1>2 DEF TypeOK
<1>5. /\ work'[w] \in Request /\ work'[w].pc = pc /\ work'[w].line = l /\ work'[w].new = t
      /\ work'[w].tok = work[w].tok /\ work'[w].op = work[w].op /\ work'[w].user = work[w].user
  BY <1>1, <1>2, <1>4 DEF TypeOK, Request, PCs
<1> DEFINE doc == [tok |-> t, user |-> work[w].user, line |-> l,
                   shared |-> work[w].shared, expired |-> FALSE]
<1>6. doc \in Doc /\ doc.tok = t /\ doc.line = l
  BY <1>1, <1>2 DEF TypeOK, Request, Doc
<1> HIDE DEF doc
<1>7. docs' = docs \cup {doc}
  BY <1>1 DEF doc
<1>8. TypeOK'
  <2>1. work' \in [Workers -> Request]
    BY <1>1, <1>2, <1>4, <1>5 DEF TypeOK
  <2>2. QED
    BY <1>1, <1>2, <1>6, <1>7, <2>1 DEF TypeOK
<1>9. RequestShape'
  <2>1. ASSUME NEW v \in Workers \ {w}
        PROVE  work'[v] = work[v]
    BY <1>4
  <2>2. /\ work'[w].pc \in {"respond", "schedule"} /\ work'[w].op \in {"register", "login", "refresh"}
        /\ work'[w].user \in Users /\ work'[w].line \in Lines
    BY <1>1, <1>5
  <2>3. QED
    BY <1>2, <2>1, <2>2 DEF RequestShape
<1>10. Cardinality(Claimants') <= Cardinality(FreshTokens')
  <2>1. Claimants' \subseteq Claimants \ {w} /\ w \in Claimants
    BY <1>1, <1>4, <1>5 DEF Claimants
  <2>2. FreshTokens \ {t} \subseteq FreshTokens'
    <3>1. ASSUME NEW x \in Tokens \ {t}, FreshToken(x) PROVE FreshToken(x)'
      <4>1. \A d \in docs' : d.tok # x
        BY <1>6, <1>7, <3>1 DEF FreshToken
      <4>2. \A c \in Clients : jar'[c] # x
        BY <1>1, <3>1 DEF FreshToken
      <4>3. \A v \in Workers : work'[v].tok # x /\ work'[v].new # x
        BY <1>4, <1>5, <3>1 DEF FreshToken
      <4>4. QED
        BY <4>1, <4>2, <4>3 DEF FreshToken
    <3>2. QED
      BY <3>1 DEF FreshTokens
  <2>3. /\ IsFiniteSet(FreshTokens') /\ IsFiniteSet(Claimants) /\ IsFiniteSet(FreshTokens)
        /\ Cardinality(Claimants) <= Cardinality(FreshTokens)
    BY <1>2, SetsFinite DEF RoomKept
  <2>4. QED
    BY <2>1, <2>2, <2>3, RoomTaken, ZenonT(30)
<1>11. Cardinality(LoginClaimants') <= Cardinality(UnusedLines')
  <2>1. ASSUME NEW x \in Lines \ {l}, UnusedLine(x) PROVE UnusedLine(x)'
    BY <1>4, <1>5, <1>6, <1>7, <2>1 DEF UnusedLine
  <2>2. CASE work[w].op = "refresh"
    <3>1. LoginClaimants' \subseteq LoginClaimants
      BY <1>1, <1>4, <1>5 DEF LoginClaimants
    <3>2. UnusedLines \subseteq UnusedLines'
      BY <1>1, <2>1, <2>2 DEF UnusedLines, UnusedLine
    <3>3. QED
      BY <1>2, <3>1, <3>2, SetsFinite, RoomGrows DEF RoomKept
  <2>3. CASE work[w].op \in {"register", "login"}
    <3>1. LoginClaimants' \subseteq LoginClaimants \ {w} /\ w \in LoginClaimants
      BY <1>1, <1>4, <1>5, <2>3 DEF LoginClaimants
    <3>2. UnusedLines \ {l} \subseteq UnusedLines'
      BY <2>1 DEF UnusedLines
    <3>3. /\ IsFiniteSet(UnusedLines') /\ IsFiniteSet(LoginClaimants) /\ IsFiniteSet(UnusedLines)
          /\ Cardinality(LoginClaimants) <= Cardinality(UnusedLines)
      BY <1>2, SetsFinite DEF RoomKept
    <3>4. QED
      BY <3>1, <3>2, <3>3, RoomTaken, ZenonT(30)
  <2>4. QED
    BY <1>1, <2>2, <2>3
<1>12. IsFiniteSet(docs')
  BY <1>2, <1>7, FS_AddElement
<1>13. TokensUnique'
  BY <1>1, <1>2, <1>6, <1>7 DEF TokensUnique, FreshToken
<1>14. QED
  BY <1>8, <1>9, <1>10, <1>11, <1>12, <1>13 DEF RequestsOK, RoomKept

\* Every step keeps types and room.
LEMMA RequestsInvariant == RequestsOK /\ [Next]_vars => RequestsOK'
BY StepIsMove, ArriveKeepsRequests, IssueKeepsRequests, MoveKeepsRequests, ExpireKeepsRequests

-----------------------------------------------------------------------------
(* What overlaps, and which tokens a login has.                            *)

\* What a step leaves of a request, as far as its login goes.
Follows(v) ==
    \/ work'[v].line = None
    \/ /\ work'[v].line = work[v].line /\ work'[v].tok = work[v].tok /\ work'[v].op = work[v].op
       /\ work[v].shared => work'[v].shared
       /\ work'[v].pc = "delete" => work[v].pc = "delete"
       /\ work'[v].pc \in {"user", "issue"} =>
            \/ work[v].pc \in {"user", "issue"}
            \/ work[v].pc = "delete" /\ \A d \in docs' : d.tok # work[v].tok

\* Requests that only go on, and documents that only vanish, keep the lines of rotation.
LEMMA LinesKept ==
  ASSUME LinesOK, \A v \in Workers : Follows(v),
         \A d \in docs' : \E e \in docs : e.tok = d.tok /\ e.line = d.line /\ e.shared = d.shared
  PROVE  LinesOK'
<1> USE DEF LinesOK
<1>1. OverlapsMarked'
  BY DEF OverlapsMarked, Follows
<1>2. UnsharedAlone'
  BY DEF UnsharedAlone
<1>3. ExchangeKnows'
  <2> SUFFICES ASSUME NEW v \in Workers, NEW d \in docs',
                      work'[v].line # None, d.line = work'[v].line
               PROVE  /\ work'[v].pc = "delete" /\ ~(d.shared /\ work'[v].shared) => d.tok = work'[v].tok
                      /\ work'[v].pc \in {"user", "issue"} => d.shared /\ work'[v].shared
    BY DEF ExchangeKnows
  <2>1. PICK e \in docs : e.tok = d.tok /\ e.line = d.line /\ e.shared = d.shared
    OBVIOUS
  <2>2. QED
    BY <2>1 DEF ExchangeKnows, Follows
<1>4. LogoutDone'
  <2> SUFFICES ASSUME NEW v \in Workers, NEW d \in docs', work'[v].op = "logout",
                      work'[v].line # None, ~work'[v].shared
               PROVE  d.line # work'[v].line
    BY DEF LogoutDone
  <2>1. PICK e \in docs : e.line = d.line
    OBVIOUS
  <2>2. work'[v].line = work[v].line /\ work[v].op = "logout" /\ ~work[v].shared
    BY DEF Follows
  <2>3. QED
    BY <2>1, <2>2 DEF LogoutDone
<1>5. QED
  BY <1>1, <1>2, <1>3, <1>4

\* Serving a request keeps the lines when what it knows of its own line is so.
LEMMA LinesServed ==
  ASSUME RequestsOK, LinesOK, NEW w \in Workers, NEW request \in Request,
         Serve(w, request), docs' \subseteq docs,
         request.line # None => request.pc \notin {"user", "issue"},
         \A d \in docs' : request.line # None /\ d.line = request.line =>
            /\ request.pc = "delete" /\ ~(d.shared /\ request.shared) => d.tok = request.tok
            /\ request.op = "logout" => request.shared
  PROVE  LinesOK'
<1> USE DEF LinesOK
<1>1. work \in [Workers -> Request]
  BY DEF RequestsOK, TypeOK
<1>2. PICK mark \in BOOLEAN :
              /\ work'[w] = [request EXCEPT !.shared = mark]
              /\ request.shared => mark
              /\ \A v \in Busy : request.line # None /\ work[v].line = request.line => mark
  BY <1>1, ServeEffect
<1>3. \A v \in Workers \ {w} :
              \/ /\ work'[v] = work[v]
                 /\ v \in Busy => request.line = None \/ work[v].line # request.line
              \/ work'[v] = [work[v] EXCEPT !.shared = TRUE]
  BY <1>1, ServeEffect
<1>4. /\ work'[w].pc = request.pc /\ work'[w].op = request.op /\ work'[w].tok = request.tok
      /\ work'[w].line = request.line /\ work'[w].shared = mark
  BY <1>2 DEF Request
<1>5. \A v \in Workers \ {w} :
        /\ work'[v].pc = work[v].pc /\ work'[v].op = work[v].op
        /\ work'[v].tok = work[v].tok /\ work'[v].line = work[v].line
        /\ work[v].shared => work'[v].shared
        /\ request.line # None /\ work[v].line = request.line => mark /\ work'[v].shared
  <2> SUFFICES ASSUME NEW v \in Workers \ {w}
               PROVE  /\ work'[v].pc = work[v].pc /\ work'[v].op = work[v].op
                      /\ work'[v].tok = work[v].tok /\ work'[v].line = work[v].line
                      /\ work[v].shared => work'[v].shared
                      /\ request.line # None /\ work[v].line = request.line =>
                            mark /\ work'[v].shared
    OBVIOUS
  <2>1. work[v] \in Request
    BY DEF RequestsOK, TypeOK
  <2>2. work[v].line # None => v \in Busy
    BY DEF RequestsOK, RequestShape, NoRequest, Busy
  <2>3. CASE /\ work'[v] = work[v]
             /\ v \in Busy => request.line = None \/ work[v].line # request.line
    BY <2>2, <2>3
  <2>4. CASE work'[v] = [work[v] EXCEPT !.shared = TRUE]
    BY <1>2, <2>1, <2>2, <2>4 DEF Request
  <2>5. QED
    BY <1>3, <2>3, <2>4
<1>6. OverlapsMarked'
  <2> SUFFICES ASSUME NEW u \in Workers, NEW v \in Workers, u # v,
                      work'[u].line = work'[v].line, work'[v].line # None
               PROVE  work'[v].shared
    BY DEF OverlapsMarked
  <2>1. CASE v = w
    BY <1>4, <1>5, <2>1
  <2>2. CASE u = w /\ v # w
    BY <1>4, <1>5, <2>2
  <2>3. CASE u # w /\ v # w
    BY <1>5, <2>3 DEF OverlapsMarked
  <2>4. QED
    BY <2>1, <2>2, <2>3
<1>7. UnsharedAlone'
  BY DEF UnsharedAlone
<1>8. ExchangeKnows'
  <2> SUFFICES ASSUME NEW v \in Workers, NEW d \in docs',
                      work'[v].line # None, d.line = work'[v].line
               PROVE  /\ work'[v].pc = "delete" /\ ~(d.shared /\ work'[v].shared) => d.tok = work'[v].tok
                      /\ work'[v].pc \in {"user", "issue"} => d.shared /\ work'[v].shared
    BY DEF ExchangeKnows
  <2>1. CASE v = w
    BY <1>2, <1>4, <2>1
  <2>2. CASE v # w
    BY <1>5, <2>2 DEF ExchangeKnows
  <2>3. QED
    BY <2>1, <2>2
<1>9. LogoutDone'
  <2> SUFFICES ASSUME NEW v \in Workers, NEW d \in docs', work'[v].op = "logout",
                      work'[v].line # None, ~work'[v].shared
               PROVE  d.line # work'[v].line
    BY DEF LogoutDone
  <2>1. CASE v = w
    BY <1>2, <1>4, <2>1
  <2>2. CASE v # w
    BY <1>5, <2>2 DEF LogoutDone
  <2>3. QED
    BY <2>1, <2>2
<1>10. QED
  BY <1>6, <1>7, <1>8, <1>9

\* Arriving requests keep the lines.
LEMMA ArriveKeepsLines ==
  ASSUME RequestsOK, LinesOK, NEW w \in Workers, Arrive(w)
  PROVE  LinesOK'
<1>1. TypeOK
  BY DEF RequestsOK
<1>2. PICK c \in Clients : \/ \E u \in Users : RegisterFind(w, c, u) \/ LoginFind(w, c, u)
                          \/ RefreshFind(w, c)
                          \/ Logout(w, c)
  BY DEF Arrive
<1>3. ASSUME NEW u \in Users, RegisterFind(w, c, u) PROVE LinesOK'
  <2> DEFINE request == [NoRequest EXCEPT !.pc = "save", !.op = "register",
                                          !.client = c, !.user = u]
  <2>1. request \in Request /\ request.line = None
    BY DEF NoRequest, Request, PCs
  <2>2. Serve(w, request) /\ docs' = docs
    BY <1>3 DEF RegisterFind
  <2> HIDE DEF request
  <2>3. QED
    BY <2>1, <2>2, LinesServed
<1>4. ASSUME NEW u \in Users, LoginFind(w, c, u) PROVE LinesOK'
  <2> DEFINE request == [NoRequest EXCEPT !.pc = "issue", !.op = "login",
                                          !.client = c, !.user = u]
  <2>1. request \in Request /\ request.line = None
    BY DEF NoRequest, Request, PCs
  <2>2. Serve(w, request) /\ docs' = docs
    BY <1>4 DEF LoginFind
  <2> HIDE DEF request
  <2>3. QED
    BY <2>1, <2>2, LinesServed
<1>5. ASSUME RefreshFind(w, c) PROVE LinesOK'
  <2>1. PICK d \in docs :
          Serve(w, [NoRequest EXCEPT
                        !.pc = "delete", !.op = "refresh", !.client = c,
                        !.user = d.user, !.tok = d.tok, !.line = d.line,
                        !.shared = d.shared, !.blocked = Suspended(d.user)])
    BY <1>5 DEF RefreshFind
  <2> DEFINE request == [NoRequest EXCEPT
                        !.pc = "delete", !.op = "refresh", !.client = c,
                        !.user = d.user, !.tok = d.tok, !.line = d.line,
                        !.shared = d.shared, !.blocked = Suspended(d.user)]
  <2>2. d.user \in Users /\ d.tok \in Tokens /\ d.line \in Lines /\ d.shared \in BOOLEAN
    BY <1>1 DEF TypeOK, Doc
  <2>3. Suspended(d.user) \in BOOLEAN
    BY DEF Suspended
  <2>4. request \in Request
    BY <2>2, <2>3 DEF NoRequest, Request, PCs
  <2>5. /\ request.pc = "delete" /\ request.op = "refresh"
        /\ request.tok = d.tok /\ request.line = d.line /\ request.shared = d.shared
    BY DEF NoRequest
  <2>6. Serve(w, request) /\ docs' = docs
    BY <1>5, <2>1 DEF RefreshFind
  <2> HIDE DEF request
  <2>7. \A e \in docs' : e.line = request.line /\ ~(e.shared /\ request.shared) => e.tok = request.tok
    BY <2>5, <2>6 DEF LinesOK, UnsharedAlone
  <2>8. QED
    BY <2>4, <2>5, <2>6, <2>7, LinesServed
<1>6. ASSUME Logout(w, c) PROVE LinesOK'
  <2> DEFINE request == [NoRequest EXCEPT
                    !.pc = "respond", !.op = "logout", !.client = c, !.tok = jar[c],
                    !.line = LineOf(jar[c]), !.shared = SharedToken(jar[c])]
  <2>1. LineOf(jar[c]) # None => \E d \in docs : d.tok = jar[c] /\ LineOf(jar[c]) = d.line
    BY DEF LineOf
  <2>2. /\ LineOf(jar[c]) \in Lines \cup {None} /\ jar[c] \in Tokens \cup {None}
        /\ SharedToken(jar[c]) \in BOOLEAN
    BY <1>1, <2>1 DEF TypeOK, Doc, SharedToken
  <2>3. request \in Request
    BY <2>2 DEF NoRequest, Request, PCs
  <2>4. /\ request.pc = "respond" /\ request.op = "logout"
        /\ request.line = LineOf(jar[c]) /\ request.shared = SharedToken(jar[c])
    BY DEF NoRequest
  <2>5. Serve(w, request) /\ docs' = {d \in docs : d.tok # jar[c]}
    BY <1>6 DEF Logout
  <2> HIDE DEF request
  <2>6. ASSUME NEW e \in docs', request.line # None, e.line = request.line
        PROVE  request.shared
    <3>1. PICK d \in docs : d.tok = jar[c] /\ request.line = d.line
      BY <2>1, <2>4, <2>6
    <3>2. e \in docs /\ e.tok # d.tok /\ e.line = d.line
      BY <2>5, <2>6, <3>1
    <3>3. d.shared
      BY <3>2 DEF LinesOK, UnsharedAlone
    <3>4. QED
      BY <2>4, <3>1, <3>3 DEF SharedToken
  <2>7. QED
    BY <2>3, <2>4, <2>5, <2>6, LinesServed
<1>7. QED
  BY <1>2, <1>3, <1>4, <1>5, <1>6

\* Moves keep the lines.
LEMMA MoveKeepsLines ==
  ASSUME RequestsOK, LinesOK, MoveStep
  PROVE  LinesOK'
<1>1. Moves /\ docs' \subseteq docs
  BY MoveStepMoves
<1>2. PICK w : \A v \in Workers : Moved(w, v)
  BY <1>1 DEF Moves
<1>3. ASSUME NEW v \in Workers PROVE Follows(v)
  <2>1. Moved(w, v) /\ work[v] \in Request
    BY <1>2 DEF RequestsOK, TypeOK
  <2>2. CASE work'[v] = work[v]
    BY <2>2 DEF Follows
  <2>3. CASE work'[v] = NoRequest
    BY <2>3 DEF Follows, NoRequest
  <2>4. CASE work'[v] = [work[v] EXCEPT !.blocked = FALSE]
    BY <2>1, <2>4 DEF Follows, Request
  <2>5. ASSUME NEW pc \in PCs, work'[v] = [work[v] EXCEPT !.pc = pc], work'[v].pc # "delete",
               work'[v].pc \in {"user", "issue"} =>
                    work[v].pc \in {"save", "user", "issue"} \/ RefreshDelete(v)
        PROVE  Follows(v)
    <3>1. /\ work'[v].line = work[v].line /\ work'[v].tok = work[v].tok
          /\ work'[v].op = work[v].op /\ work'[v].shared = work[v].shared
      BY <2>1, <2>5 DEF Request
    <3>2. CASE work[v].pc = "save"
      <4>1. work[v].line = None
        BY <3>2 DEF RequestsOK, RequestShape
      <4>2. QED
        BY <3>1, <4>1 DEF Follows
    <3>3. CASE RefreshDelete(v)
      <4>1. work[v].pc = "delete" /\ \A d \in docs' : d.tok # work[v].tok
        BY <3>3 DEF RefreshDelete, At
      <4>2. QED
        BY <2>5, <3>1, <4>1 DEF Follows
    <3>4. QED
      BY <2>5, <3>1, <3>2, <3>3 DEF Follows
  <2>6. QED
    BY <2>1, <2>2, <2>3, <2>4, <2>5 DEF Moved
<1>4. QED
  BY <1>1, <1>3, LinesKept

\* A token issued replaces the one its line has lost.
LEMMA IssueKeepsLines ==
  ASSUME RequestsOK, LinesOK, NEW w \in Workers, generateRefreshToken(w)
  PROVE  LinesOK'
<1> USE DEF LinesOK
<1>1. PICK t \in Tokens, l \in Lines, pc \in {"respond", "schedule"} :
            /\ FreshToken(t)
            /\ IF work[w].op = "refresh" THEN l = work[w].line
               ELSE work[w].op \in {"register", "login"} /\ UnusedLine(l)
            /\ docs' = docs \cup {[tok |-> t, user |-> work[w].user, line |-> l,
                                   shared |-> work[w].shared, expired |-> FALSE]}
            /\ work[w].pc = "issue" /\ work[w].user \in Users
            /\ work' = [work EXCEPT ![w].new = t, ![w].line = l, ![w].pc = pc]
            /\ UNCHANGED <<registered, flags, jar, stage>>
  BY IssueEffect
<1>2. l # None
  BY NoneAssumption
<1>3. /\ work'[w] = [work[w] EXCEPT !.new = t, !.line = l, !.pc = pc]
      /\ \A v \in Workers \ {w} : work'[v] = work[v]
  BY <1>1 DEF RequestsOK, TypeOK
<1>4. /\ work'[w].pc = pc /\ work'[w].line = l /\ work'[w].shared = work[w].shared
      /\ work'[w].op = work[w].op /\ work[w].op # "logout"
  BY <1>1, <1>3 DEF RequestsOK, TypeOK, Request
<1> DEFINE doc == [tok |-> t, user |-> work[w].user, line |-> l,
                   shared |-> work[w].shared, expired |-> FALSE]
<1>5. doc.tok = t /\ doc.line = l /\ doc.shared = work[w].shared
  OBVIOUS
<1> HIDE DEF doc
<1>6. docs' = docs \cup {doc}
  BY <1>1 DEF doc
<1>7. \A e \in docs : e.line = l => e.shared /\ work[w].shared
  BY <1>1, <1>2 DEF ExchangeKnows, UnusedLine
<1>8. \A v \in Workers \ {w} : work[v].line = l => work[v].shared /\ work[w].shared
  BY <1>1, <1>2 DEF OverlapsMarked, UnusedLine
<1>9. OverlapsMarked'
  <2> SUFFICES ASSUME NEW u \in Workers, NEW v \in Workers, u # v,
                      work'[u].line = work'[v].line, work'[v].line # None
               PROVE  work'[v].shared
    BY DEF OverlapsMarked
  <2>1. CASE v = w
    <3>1. u \in Workers \ {w} /\ work'[u] = work[u] /\ work[u].line = l
      BY <1>3, <1>4, <2>1
    <3>2. QED
      BY <1>4, <1>8, <2>1, <3>1
  <2>2. CASE u = w
    <3>1. v \in Workers \ {w} /\ work'[v] = work[v] /\ work[v].line = l
      BY <1>3, <1>4, <2>2
    <3>2. QED
      BY <1>8, <3>1
  <2>3. CASE u # w /\ v # w
    BY <1>3, <2>3 DEF OverlapsMarked
  <2>4. QED
    BY <2>1, <2>2, <2>3
<1>10. UnsharedAlone'
  BY <1>5, <1>6, <1>7 DEF UnsharedAlone
<1>11. ExchangeKnows'
  <2> SUFFICES ASSUME NEW v \in Workers, NEW d \in docs',
                      work'[v].line # None, d.line = work'[v].line
               PROVE  /\ work'[v].pc = "delete" /\ ~(d.shared /\ work'[v].shared) => d.tok = work'[v].tok
                      /\ work'[v].pc \in {"user", "issue"} => d.shared /\ work'[v].shared
    BY DEF ExchangeKnows
  <2>1. CASE v = w
    BY <1>4, <2>1
  <2>2. CASE v # w /\ d \in docs
    BY <1>3, <2>2 DEF ExchangeKnows
  <2>3. CASE v # w /\ d = doc
    BY <1>3, <1>5, <1>8, <2>3
  <2>4. QED
    BY <1>6, <2>1, <2>2, <2>3
<1>12. LogoutDone'
  <2> SUFFICES ASSUME NEW v \in Workers, NEW d \in docs', work'[v].op = "logout",
                      work'[v].line # None, ~work'[v].shared
               PROVE  d.line # work'[v].line
    BY DEF LogoutDone
  <2>1. v # w /\ work'[v] = work[v]
    BY <1>3, <1>4
  <2>2. CASE d \in docs
    BY <2>1, <2>2 DEF LogoutDone
  <2>3. CASE d = doc
    BY <1>5, <1>8, <2>1, <2>3
  <2>4. QED
    BY <1>6, <2>2, <2>3
<1>13. QED
  BY <1>9, <1>10, <1>11, <1>12

\* Expiry keeps the lines.
LEMMA ExpireKeepsLines ==
  ASSUME RequestsOK, LinesOK, NEW t \in Tokens, Expire(t)
  PROVE  LinesOK'
<1>1. work' = work
  BY DEF Expire
<1>2. \A v \in Workers : Follows(v)
  BY <1>1 DEF Follows
<1>3. QED
  BY <1>2, ExpireKeepsRequests, LinesKept

\* Every step keeps the lines of rotation.
LEMMA LinesInvariant == RequestsOK /\ LinesOK /\ [Next]_vars => LinesOK'
BY StepIsMove, ArriveKeepsLines, IssueKeepsLines, MoveKeepsLines, ExpireKeepsLines

-----------------------------------------------------------------------------
(* The mark of a refresh that began while its user was suspended.          *)
LEMMA BlockedArrive ==
  ASSUME RequestsOK, BlockedSuspended, NEW w \in Workers, Arrive(w)
  PROVE  BlockedSuspended'
<1>1. TypeOK /\ work \in [Workers -> Request]
  BY DEF RequestsOK, TypeOK
<1>2. flags' = flags
  BY DEF Arrive, RegisterFind, LoginFind, RefreshFind, Logout
<1>3. ASSUME NEW request \in Request, Serve(w, request),
             request.blocked => /\ request.user \in Users /\ Suspended(request.user)
                                /\ request.pc = "delete"
      PROVE  BlockedSuspended'
  <2>1. PICK mark \in BOOLEAN : work'[w] = [request EXCEPT !.shared = mark]
    BY <1>1, <1>3, ServeEffect
  <2>2. /\ work'[w].blocked = request.blocked /\ work'[w].user = request.user
        /\ work'[w].pc = request.pc
    BY <2>1 DEF Request
  <2>3. ASSUME NEW v \in Workers \ {w}
        PROVE  /\ work'[v].blocked = work[v].blocked /\ work'[v].user = work[v].user
               /\ work'[v].pc = work[v].pc
    <3>1. work'[v] = work[v] \/ work'[v] = [work[v] EXCEPT !.shared = TRUE]
      BY <1>1, <1>3, ServeEffect
    <3>2. QED
      BY <1>1, <3>1 DEF Request
  <2>4. QED
    BY <1>2, <1>3, <2>2, <2>3 DEF BlockedSuspended, Suspended
<1>4. PICK c \in Clients : \/ \E u \in Users : RegisterFind(w, c, u) \/ LoginFind(w, c, u)
                          \/ RefreshFind(w, c)
                          \/ Logout(w, c)
  BY DEF Arrive
<1>5. ASSUME NEW u \in Users, RegisterFind(w, c, u) PROVE BlockedSuspended'
  <2> DEFINE request == [NoRequest EXCEPT !.pc = "save", !.op = "register",
                                          !.client = c, !.user = u]
  <2>1. request \in Request /\ ~request.blocked
    BY DEF NoRequest, Request, PCs
  <2>2. Serve(w, request)
    BY <1>5 DEF RegisterFind
  <2> HIDE DEF request
  <2>3. QED
    BY <1>3, <2>1, <2>2
<1>6. ASSUME NEW u \in Users, LoginFind(w, c, u) PROVE BlockedSuspended'
  <2> DEFINE request == [NoRequest EXCEPT !.pc = "issue", !.op = "login",
                                          !.client = c, !.user = u]
  <2>1. request \in Request /\ ~request.blocked
    BY DEF NoRequest, Request, PCs
  <2>2. Serve(w, request)
    BY <1>6 DEF LoginFind
  <2> HIDE DEF request
  <2>3. QED
    BY <1>3, <2>1, <2>2
<1>7. ASSUME RefreshFind(w, c) PROVE BlockedSuspended'
  <2>1. PICK d \in docs :
          Serve(w, [NoRequest EXCEPT
                        !.pc = "delete", !.op = "refresh", !.client = c,
                        !.user = d.user, !.tok = d.tok, !.line = d.line,
                        !.shared = d.shared, !.blocked = Suspended(d.user)])
    BY <1>7 DEF RefreshFind
  <2> DEFINE request == [NoRequest EXCEPT
                        !.pc = "delete", !.op = "refresh", !.client = c,
                        !.user = d.user, !.tok = d.tok, !.line = d.line,
                        !.shared = d.shared, !.blocked = Suspended(d.user)]
  <2>2. d.user \in Users /\ d.tok \in Tokens /\ d.line \in Lines /\ d.shared \in BOOLEAN
    BY <1>1 DEF TypeOK, Doc
  <2>3. Suspended(d.user) \in BOOLEAN
    BY DEF Suspended
  <2>4. request \in Request
    BY <2>2, <2>3 DEF NoRequest, Request, PCs
  <2>5. request.pc = "delete" /\ request.user = d.user /\ request.blocked = Suspended(d.user)
    BY DEF NoRequest
  <2> HIDE DEF request
  <2>6. Serve(w, request)
    BY <2>1 DEF request
  <2>7. QED
    BY <1>3, <2>2, <2>4, <2>5, <2>6
<1>8. ASSUME Logout(w, c) PROVE BlockedSuspended'
  <2> DEFINE request == [NoRequest EXCEPT
                    !.pc = "respond", !.op = "logout", !.client = c, !.tok = jar[c],
                    !.line = LineOf(jar[c]), !.shared = SharedToken(jar[c])]
  <2>1. LineOf(jar[c]) = None \/ \E d \in docs : LineOf(jar[c]) = d.line
    BY DEF LineOf
  <2>2. /\ LineOf(jar[c]) \in Lines \cup {None} /\ jar[c] \in Tokens \cup {None}
        /\ SharedToken(jar[c]) \in BOOLEAN
    BY <1>1, <2>1 DEF TypeOK, Doc, SharedToken
  <2>3. request \in Request /\ ~request.blocked
    BY <2>2 DEF NoRequest, Request, PCs
  <2>4. Serve(w, request)
    BY <1>8 DEF Logout
  <2> HIDE DEF request
  <2>5. QED
    BY <1>3, <2>3, <2>4
<1>9. QED
  BY <1>4, <1>5, <1>6, <1>7, <1>8

\* Every step keeps a request marked as blocked one of a user who is suspended.
LEMMA BlockedInvariant == RequestsOK /\ BlockedSuspended /\ [Next]_vars => BlockedSuspended'
<1> SUFFICES ASSUME RequestsOK, BlockedSuspended, [Next]_vars PROVE BlockedSuspended'
  OBVIOUS
<1>1. work \in [Workers -> Request] /\ flags \in [Users -> SUBSET Flags]
  BY DEF RequestsOK, TypeOK
<1>2. ~NoRequest.blocked
  BY DEF NoRequest
<1>3. ASSUME NEW w \in Workers, Arrive(w) PROVE BlockedSuspended'
  BY <1>3, BlockedArrive
<1>4. ASSUME NEW w \in Workers, NEW pc \in PCs, Goto(w, pc), flags' = flags,
             work[w].blocked => pc \in {"delete", "user", "revoke"}
      PROVE  BlockedSuspended'
  <2>1. /\ work' = [work EXCEPT ![w].pc = pc]
        /\ \A v \in Workers \ {w} : work'[v] = work[v]
    BY <1>1, <1>4 DEF Goto
  <2>2. work'[w].blocked = work[w].blocked /\ work'[w].user = work[w].user /\ work'[w].pc = pc
    BY <1>1, <2>1 DEF Request
  <2>3. QED
    BY <1>4, <2>1, <2>2 DEF BlockedSuspended, Suspended
<1>5. ASSUME NEW w \in Workers, Finish(w), flags' = flags PROVE BlockedSuspended'
  <2>1. \A v \in Workers : work'[v] = work[v] \/ work'[v] = NoRequest
    BY <1>1, <1>5 DEF Finish
  <2>2. QED
    BY <1>2, <1>5, <2>1 DEF BlockedSuspended, Suspended
<1>6. CASE UNCHANGED <<work, flags>>
  BY <1>6 DEF BlockedSuspended, Suspended
<1>7. ASSUME NEW w \in Workers, RegisterSave(w) PROVE BlockedSuspended'
  <2>1. ~work[w].blocked
    BY <1>7 DEF RegisterSave, At, BlockedSuspended
  <2>2. QED
    BY <1>4, <1>5, <1>7, <2>1 DEF RegisterSave, PCs
<1>8. ASSUME NEW w \in Workers, RefreshDelete(w) PROVE BlockedSuspended'
  BY <1>4, <1>8 DEF RefreshDelete, PCs
<1>9. ASSUME NEW w \in Workers, RefreshUser(w) PROVE BlockedSuspended'
  <2>1. work[w].blocked => Suspended(work[w].user)
    BY DEF BlockedSuspended
  <2>2. flags' = flags /\ (Goto(w, "revoke") \/ (~work[w].blocked /\ Goto(w, "issue")))
    BY <1>9, <2>1 DEF RefreshUser
  <2>3. QED
    BY <1>4, <2>2 DEF PCs
<1>10. ASSUME NEW w \in Workers, RefreshRevoke(w) \/ Respond(w) \/ Fail(w) PROVE BlockedSuspended'
  BY <1>5, <1>10 DEF RefreshRevoke, Respond, Fail
<1>11. ASSUME NEW w \in Workers, ScheduleWarning(w) PROVE BlockedSuspended'
  <2>1. ~work[w].blocked
    BY <1>11 DEF ScheduleWarning, At, BlockedSuspended
  <2>2. QED
    BY <1>4, <1>11, <2>1 DEF ScheduleWarning, PCs
<1>12. ASSUME NEW w \in Workers, generateRefreshToken(w) PROVE BlockedSuspended'
  <2>1. \E t, l, pc : work' = [work EXCEPT ![w].new = t, ![w].line = l, ![w].pc = pc]
    BY <1>12 DEF generateRefreshToken
  <2>2. ~work[w].blocked
    BY <1>12 DEF generateRefreshToken, At, BlockedSuspended
  <2>3. work'[w].blocked = work[w].blocked /\ \A v \in Workers \ {w} : work'[v] = work[v]
    BY <1>1, <2>1 DEF Request
  <2>4. flags' = flags
    BY <1>12 DEF generateRefreshToken
  <2>5. QED
    BY <2>2, <2>3, <2>4 DEF BlockedSuspended, Suspended
<1>13. CASE Restart
  BY <1>2, <1>13 DEF Restart, BlockedSuspended
<1>14. ASSUME NEW u \in Users, NEW f \in Flags, Suspend(u, f) PROVE BlockedSuspended'
  <2>1. \A x \in Users : flags[x] \subseteq flags'[x]
    BY <1>1, <1>14 DEF Suspend
  <2>2. work' = work
    BY <1>14 DEF Suspend
  <2>3. QED
    BY <2>1, <2>2 DEF BlockedSuspended, Suspended
<1>15. ASSUME NEW u \in Users, NEW f \in Flags, Reinstate(u, f) PROVE BlockedSuspended'
  <2>1. /\ f \in flags[u]
        /\ \A x \in Users : flags'[x] = IF x = u THEN flags[u] \ {f} ELSE flags[x]
    BY <1>1, <1>15 DEF Reinstate
  <2>2. CASE flags[u] = {f}
    <3>1. work' = [w \in Workers |-> IF work[w].user = u
                        THEN [work[w] EXCEPT !.blocked = FALSE] ELSE work[w]]
      BY <1>15, <2>2 DEF Reinstate
    <3>2. ASSUME NEW v \in Workers, work'[v].blocked
          PROVE  work'[v] = work[v] /\ work[v].user # u
      BY <1>1, <3>1, <3>2 DEF Request
    <3>3. QED
      BY <2>1, <3>2 DEF BlockedSuspended, Suspended
  <2>3. CASE flags[u] # {f}
    <3>1. flags[u] \ {f} # {} /\ work' = work
      BY <1>15, <2>1, <2>3 DEF Reinstate
    <3>2. QED
      BY <2>1, <3>1 DEF BlockedSuspended, Suspended
  <2>4. QED
    BY <2>2, <2>3
<1>16. QED
  BY <1>3, <1>6, <1>7, <1>8, <1>9, <1>10, <1>11, <1>12, <1>13, <1>14, <1>15
     DEF Next, Continue, TimerFires, Expire, removeExpiredRefreshTokens, vars, authVars

-----------------------------------------------------------------------------
(* The theorems.                                                           *)

\* The state of a run is always as the four parts of the invariant describe it.
THEOREM InductiveInvariant == Spec => []SessionsIInv
<1>1. Init => SessionsIInv
  <2> SUFFICES ASSUME Init PROVE SessionsIInv
    OBVIOUS
  <2>1. RequestsOK
    BY RequestsInit
  <2>2. docs = {} /\ \A w \in Workers : work[w] = NoRequest
    BY DEF Init
  <2>3. NoRequest.line = None /\ ~NoRequest.blocked
    BY DEF NoRequest
  <2>4. LinesOK /\ BlockedSuspended
    BY <2>2, <2>3 DEF LinesOK, OverlapsMarked, UnsharedAlone, ExchangeKnows, LogoutDone,
       BlockedSuspended
  <2>5. QED
    BY <2>1, <2>4 DEF SessionsIInv
<1>2. SessionsIInv /\ [Next]_vars => SessionsIInv'
  BY RequestsInvariant, LinesInvariant, BlockedInvariant DEF SessionsIInv
<1>3. QED
  BY <1>1, <1>2, PTL DEF Spec

(* Types: in particular every request that is to issue a token finds an    *)
(* unused id and line (auth.service.ts:214-233).                           *)
THEOREM TypeCorrect == Spec => []TypeOK
<1>1. SessionsIInv => TypeOK
  BY DEF SessionsIInv, RequestsOK
<1>2. QED
  BY <1>1, InductiveInvariant, PTL

(* As long as the requests of a login do not overlap, the tokens that are  *)
(* alive and the exchanges about to issue one are one at most              *)
(* (auth.service.ts:168-212).                                              *)
THEOREM RotationSafe == Spec => []RotationKeepsOneToken
<1>1. SessionsIInv => RotationKeepsOneToken
  <2> SUFFICES ASSUME SessionsIInv, NEW l \in Lines PROVE Bearers(l, TRUE) <= 1
    BY DEF RotationKeepsOneToken
  <2>1. l # None /\ RequestsOK /\ LinesOK
    BY NoneAssumption DEF SessionsIInv
  <2> DEFINE alive == {d \in docs : d.line = l /\ (TRUE => ~d.shared)}
             exchanging == {w \in Workers : /\ work[w].line = l /\ (TRUE => ~work[w].shared)
                                            /\ work[w].pc \in {"user", "issue"}}
  <2>2. IsFiniteSet(alive) /\ IsFiniteSet(exchanging)
    BY <2>1, FiniteAssumption, FS_Subset DEF RequestsOK
  <2>3. \A d, e \in alive : d = e
    BY <2>1 DEF LinesOK, UnsharedAlone, RequestsOK, TokensUnique
  <2>4. \A v, w \in exchanging : v = w
    BY <2>1 DEF LinesOK, OverlapsMarked
  <2>5. alive = {} \/ exchanging = {}
    BY <2>1 DEF LinesOK, ExchangeKnows
  <2>6. Bearers(l, TRUE) = Cardinality(alive) + Cardinality(exchanging)
    BY DEF Bearers
  <2> HIDE DEF alive, exchanging
  <2>7. QED
    BY <2>2, <2>3, <2>4, <2>5, <2>6, AtMostOne
<1>2. QED
  BY <1>1, InductiveInvariant, PTL

(* A logout that no refresh of its login overlaps leaves no token of the   *)
(* login, now or later (auth.service.ts:143-148).                          *)
THEOREM LogoutSafe == Spec => []LogoutEndsSession
<1>1. SessionsIInv => LogoutEndsSession
  <2> SUFFICES ASSUME SessionsIInv, NEW w \in Workers, work[w].op = "logout",
                      work[w].line # None, ~work[w].shared
               PROVE  Bearers(work[w].line, FALSE) = 0
    BY DEF LogoutEndsSession
  <2>1. LinesOK /\ work[w].pc = "respond"
    BY DEF SessionsIInv, RequestsOK, RequestShape
  <2>2. {d \in docs : d.line = work[w].line /\ (FALSE => ~d.shared)} = {}
    BY <2>1 DEF LinesOK, LogoutDone
  <2>3. {v \in Workers : /\ work[v].line = work[w].line /\ (FALSE => ~work[v].shared)
                         /\ work[v].pc \in {"user", "issue"}} = {}
    BY <2>1 DEF LinesOK, OverlapsMarked
  <2>4. Cardinality({}) = 0
    BY FS_EmptySet
  <2>5. QED
    BY <2>2, <2>3, <2>4 DEF Bearers
<1>2. QED
  BY <1>1, InductiveInvariant, PTL

(* A refresh whose user was suspended from its first lookup on never gets  *)
(* to issue a token (auth.service.ts:189-207).                             *)
THEOREM SuspensionHolds == Spec => []SuspendedGetsNoToken
<1>1. SessionsIInv => SuspendedGetsNoToken
  BY DEF SessionsIInv, BlockedSuspended, SuspendedGetsNoToken
<1>2. QED
  BY <1>1, InductiveInvariant, PTL

(* A token that has not expired disappears only through a request that     *)
(* presents it, or a refresh that found its owner suspended                *)
(* (auth.service.ts:143-148, 168-212).                                     *)
THEOREM SessionsSurvive == Spec => OtherSessionsSurvive
<1>1. SessionsIInv /\ [Next]_vars =>
        [\A d \in docs : ~d.expired /\ (\A e \in docs' : e.tok # d.tok) =>
            \E w \in Workers :
                \/ work[w].tok = d.tok
                \/ work'[w].tok = d.tok
                \/ work[w].pc = "revoke" /\ work[w].user = d.user]_vars
  <2> SUFFICES ASSUME SessionsIInv, [Next]_vars,
                      NEW d \in docs, ~d.expired, \A e \in docs' : e.tok # d.tok
               PROVE  \E w \in Workers :
                        \/ work[w].tok = d.tok
                        \/ work'[w].tok = d.tok
                        \/ work[w].pc = "revoke" /\ work[w].user = d.user
    OBVIOUS
  <2>1. RequestsOK /\ d \notin docs'
    BY DEF SessionsIInv
  <2>2. ASSUME NEW w \in Workers, RefreshDelete(w) PROVE work[w].tok = d.tok
    BY <2>1, <2>2 DEF RefreshDelete
  <2>3. ASSUME NEW w \in Workers, RefreshRevoke(w)
        PROVE  work[w].pc = "revoke" /\ work[w].user = d.user
    BY <2>1, <2>3 DEF RefreshRevoke, At, DocsOf
  <2>4. ASSUME NEW w \in Workers, NEW c \in Clients, Logout(w, c) PROVE work'[w].tok = d.tok
    <3> DEFINE request == [NoRequest EXCEPT
                    !.pc = "respond", !.op = "logout", !.client = c, !.tok = jar[c],
                    !.line = LineOf(jar[c]), !.shared = SharedToken(jar[c])]
    <3>1. Serve(w, request) /\ d.tok = jar[c]
      BY <2>1, <2>4 DEF Logout
    <3>2. request.tok = jar[c]
      BY DEF NoRequest
    <3>3. DOMAIN request = DOMAIN NoRequest
      OBVIOUS
    <3> HIDE DEF request
    <3> DEFINE others == {v \in Busy : request.line # None /\ work[v].line = request.line}
    <3>4. work'[w] = [request EXCEPT !.shared = request.shared \/ others # {}]
      <4>1. work' = [v \in Workers |->
                    CASE v = w -> [request EXCEPT !.shared = @ \/ others # {}]
                      [] v \in others -> [work[v] EXCEPT !.shared = TRUE]
                      [] OTHER -> work[v]]
        BY <3>1 DEF Serve
      <4>2. w \notin others
        BY <3>1 DEF Serve, Busy
      <4>3. QED
        BY <4>1, <4>2
    <3> HIDE DEF others
    <3>5. "tok" \in DOMAIN request
      BY <3>3 DEF NoRequest
    <3>6. QED
      BY <3>1, <3>2, <3>4, <3>5
  <2>5. ASSUME NEW t \in Tokens, Expire(t) PROVE FALSE
    <3>1. PICK e \in docs : docs' = (docs \ {e}) \cup {[e EXCEPT !.expired = TRUE]}
      BY <2>5 DEF Expire
    <3>2. e \in Doc
      BY <2>1 DEF RequestsOK, TypeOK
    <3>3. [e EXCEPT !.expired = TRUE] \in docs' /\ [e EXCEPT !.expired = TRUE].tok = e.tok
      BY <3>1, <3>2 DEF Doc
    <3>4. d = e
      BY <2>1, <3>1
    <3>5. QED
      BY <3>3, <3>4
  <2>6. ~removeExpiredRefreshTokens
    BY <2>1 DEF removeExpiredRefreshTokens
  <2>7. docs' # docs
    BY <2>1
  <2>8. ASSUME NEW w \in Workers, generateRefreshToken(w) PROVE FALSE
    BY <2>1, <2>8 DEF generateRefreshToken
  <2>9. QED
    BY <2>2, <2>3, <2>4, <2>5, <2>6, <2>7, <2>8
       DEF Next, Arrive, Continue, RegisterFind, LoginFind, RefreshFind, RegisterSave,
           RefreshUser, ScheduleWarning, Respond, Fail, Restart, Suspend, Reinstate,
           TimerFires, vars, authVars
<1>2. QED
  BY <1>1, InductiveInvariant, PTL DEF Spec, OtherSessionsSurvive


(* The requests drive the expiry service as ExpiryStage says it may be     *)
(* driven, whatever fails or restarts between their awaits: what Sessions  *)
(* assumes of the service is what TokenExpiry implements                   *)
(* (auth.service.ts:103-110, 209, 214-220).                                *)
THEOREM DrivesExpiryService == Spec => StageSpec
<1>1. Init => StageInit
  BY DEF Init
<1>2. SessionsIInv /\ [Next]_vars => [StageNext]_stage
  <2> SUFFICES ASSUME SessionsIInv, [Next]_vars PROVE [StageNext]_stage
    OBVIOUS
  <2>1. ASSUME NEW w \in Workers, work[w].pc \in {"user", "schedule"}
        PROVE  work[w].user \in Users
    BY <2>1 DEF SessionsIInv, RequestsOK, RequestShape, TypeOK, Request
  <2>2. ASSUME NEW w \in Workers, RefreshUser(w) PROVE [StageNext]_stage
    BY <2>1, <2>2 DEF RefreshUser, At, StageNext
  <2>3. ASSUME NEW w \in Workers, ScheduleWarning(w) PROVE [StageNext]_stage
    BY <2>1, <2>3 DEF ScheduleWarning, At, StageNext
  <2>4. ASSUME NEW u \in Users, TimerFires(u) PROVE [StageNext]_stage
    BY <2>4 DEF TimerFires, StageNext
  <2>5. CASE Restart
    BY <2>5 DEF Restart, StageNext
  <2>6. ASSUME NEW w \in Workers,
               Arrive(w) \/ RegisterSave(w) \/ RefreshDelete(w) \/ RefreshRevoke(w)
                   \/ generateRefreshToken(w) \/ Respond(w) \/ Fail(w)
        PROVE  UNCHANGED stage
    BY <2>6 DEF Arrive, RegisterFind, LoginFind, RefreshFind, Logout, RegisterSave,
       RefreshDelete, RefreshRevoke, generateRefreshToken, Respond, Fail
  <2>7. ASSUME \/ \E u \in Users, f \in Flags : Suspend(u, f) \/ Reinstate(u, f)
               \/ \E t \in Tokens : Expire(t)
               \/ removeExpiredRefreshTokens
               \/ UNCHANGED vars
        PROVE  UNCHANGED stage
    BY <2>7 DEF Suspend, Reinstate, Expire, removeExpiredRefreshTokens, vars
  <2>8. QED
    BY <2>2, <2>3, <2>4, <2>5, <2>6, <2>7 DEF Next, Continue
<1>3. QED
  BY <1>1, <1>2, InductiveInvariant, PTL DEF Spec, StageSpec
=============================================================================
