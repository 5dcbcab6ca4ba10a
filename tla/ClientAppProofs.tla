-------------------------- MODULE ClientAppProofs --------------------------
(***************************************************************************)
(* The theorems about the radio, the pages, the statistics that the pages  *)
(* ask for, and the tab in which AuthContext and the pages meet.           *)
(***************************************************************************)
EXTENDS ClientApp, RadioWidget, TodoStats, ClientAuthProofs, FiniteSetTheorems

-----------------------------------------------------------------------------
(* The radio.  What it shows is what is heard, for every set of stations;  *)
(* that needs what the widget knows between the question and the answer of *)
(* a play() and of a title.                                                *)
\* A play() that is unanswered is for the station selected, and after a switch the pause
\* button is shown already.
PlayUnderstood ==
    ~hasty /\ audio.state = "loading" =>
        audio.src = selected /\ (audio.by = "switchStation" => isPlaying)

\* Before the stations are there nothing plays and nothing is asked for.
NothingSelected ==
    selected = Nowhere =>
        /\ ~isPlaying /\ audio.state = "idle" /\ ~hasty
        /\ streamTitle = Nowhere
        /\ \A s \in Stations : asked[s] = 0

\* Titles asked for are those of the station selected unless it was changed.
TitlesAsked == \A s \in Stations : asked[s] > 0 => s = selected \/ crossedTitle

RadioIInv == RadioTypeOK /\ PlayButtonTruthful /\ PlayUnderstood /\ NothingSelected /\ TitlesAsked

-----------------------------------------------------------------------------
(* What the effects leave of the questions: at most the one for the        *)
(* station now selected is added, and only while something plays.          *)
LEMMA EffectsAsk ==
    ASSUME RadioTypeOK, Effects,
           selected' \in Stations \cup {Nowhere}, isPlaying' \in BOOLEAN
    PROVE  /\ asked' \in [Stations -> 0..AskLimit]
           /\ saved' \in Stations \cup {Nowhere}
           /\ selected' # Nowhere => saved' = selected'
           /\ \A s \in Stations : s # selected' => asked'[s] = asked[s]
           /\ \A s \in Stations : ~isPlaying' => asked'[s] = asked[s]
<1>1. asked' \in [Stations -> Nat]
  BY AskAssumption DEF RadioTypeOK, Effects
<1>2. \A s \in Stations : asked'[s] <= AskLimit
  BY DEF Effects
<1>3. asked' \in [Stations -> 0..AskLimit]
  BY <1>1, <1>2, AskAssumption DEF RadioTypeOK, Effects
<1> QED
  BY <1>3 DEF RadioTypeOK, Effects

(* A tab that is opened knows and shows nothing.                           *)
LEMMA RadioInitHolds == RadioInit => RadioIInv
<1> SUFFICES ASSUME RadioInit PROVE RadioIInv
  OBVIOUS
<1>1. Silent \in Audio /\ Silent.state = "idle"
  BY DEF Silent, Audio
<1>2. [s \in Stations |-> 0] \in [Stations -> 0..AskLimit]
  BY AskAssumption
<1>3. RadioTypeOK
  BY <1>1, <1>2, StationsAssumption DEF RadioInit, RadioTypeOK
<1>4. \A s \in Stations : asked[s] = 0
  BY DEF RadioInit
<1> QED
  BY <1>1, <1>3, <1>4
     DEF RadioInit, RadioIInv, PlayButtonTruthful, ButtonTruthful, TitleTruthful,
         PlayUnderstood, NothingSelected, TitlesAsked

(* Every step of the widget, the element and the server keeps the          *)
(* invariant.                                                              *)
LEMMA RadioStep == RadioIInv /\ [RadioNext]_radioVars => RadioIInv'
<1> SUFFICES ASSUME RadioIInv, [RadioNext]_radioVars PROVE RadioIInv'
  OBVIOUS
<1> USE StationsAssumption, AskAssumption
        DEF RadioIInv, PlayButtonTruthful, ButtonTruthful, TitleTruthful, PlayUnderstood,
            NothingSelected, TitlesAsked
<1>1. CASE loadStations
  <2>1. selected = Nowhere /\ selected' \in Stations /\ isPlaying' = isPlaying
    BY <1>1 DEF loadStations, RadioTypeOK
  <2>2. asked' = asked /\ saved' = selected'
    BY <1>1, <2>1 DEF loadStations, Effects
  <2>3. RadioTypeOK'
    BY <1>1, <2>1, <2>2 DEF loadStations, RadioTypeOK
  <2> QED
    BY <1>1, <2>1, <2>2, <2>3 DEF loadStations
<1>2. CASE loadStationsFails
  BY <1>2 DEF loadStationsFails, RadioTypeOK
<1>3. CASE ReloadTab
  <2>1. audio' \in Audio /\ audio'.state = "idle"
    BY <1>3 DEF ReloadTab, Silent, Audio
  <2>2. asked' \in [Stations -> 0..AskLimit] /\ \A s \in Stations : asked'[s] = 0
    BY <1>3 DEF ReloadTab
  <2>3. abandoned' \subseteq Stations
    BY <1>3 DEF ReloadTab, Leaves, RadioTypeOK, Audio
  <2>4. RadioTypeOK'
    BY <1>3, <2>1, <2>2, <2>3 DEF ReloadTab, RadioTypeOK
  <2> QED
    BY <1>3, <2>1, <2>2, <2>4 DEF ReloadTab
<1>4. CASE playSelectedStation
  BY <1>4 DEF playSelectedStation, Starts, Leaves, loading, RadioTypeOK, Audio
<1>5. CASE pausePlayback
  <2>1. /\ isPlaying' = FALSE /\ selected' = selected
        /\ audio' \in Audio /\ audio'.state = "idle"
    BY <1>5 DEF pausePlayback, Stops, RadioTypeOK, Audio
  <2>2. Effects
    BY <1>5 DEF pausePlayback
  <2> QED
    BY <1>5, <2>1, <2>2, EffectsAsk DEF pausePlayback, loading, RadioTypeOK
<1>6. CASE \E s \in Stations : onStationChange(s)
  <2> PICK s \in Stations : onStationChange(s)
    BY <1>6
  <2>1. /\ selected' = s /\ selected # Nowhere /\ streamTitle' = Nowhere
        /\ hasty' = (hasty \/ audio.state = "loading")
        /\ crossedTitle' = (\E t \in Stations : asked[t] > 0)
        /\ isLoading' = isLoading /\ failed' = failed
    BY DEF onStationChange, loading
  <2>2. isPlaying' \in BOOLEAN
    BY DEF onStationChange, RadioTypeOK
  <2>3. /\ audio' \in Audio
        /\ audio'.state = "playing" => audio'.proxy
        /\ abandoned' \subseteq Stations
    <3>1. CASE isPlaying
      <4>1. audio' = [src |-> s, state |-> "loading", by |-> "switchStation", proxy |-> FALSE]
        BY <3>1 DEF onStationChange, Starts
      <4>2. audio' \in Audio /\ audio'.state = "loading"
        BY <4>1 DEF Audio
      <4>3. abandoned' \subseteq Stations
        BY <3>1 DEF onStationChange, Starts, Leaves, RadioTypeOK, Audio
      <4> QED
        BY <4>2, <4>3
    <3>2. CASE ~isPlaying
      BY <3>2 DEF onStationChange, RadioTypeOK
    <3> QED
      BY <3>1, <3>2
  <2>4. RadioTypeOK'
    BY <2>1, <2>2, <2>3, EffectsAsk DEF onStationChange, RadioTypeOK
  <2>5. ButtonTruthful' /\ PlayUnderstood'
    <3>1. CASE isPlaying
      <4>1. /\ audio'.state = "loading" /\ audio'.src = s
            /\ isPlaying' = (audio.state # "loading")
        BY <3>1 DEF onStationChange, Starts
      <4> QED
        BY <4>1, <2>1
    <3>2. CASE ~isPlaying
      BY <3>2, <2>1, <2>3 DEF onStationChange, RadioTypeOK, Audio
    <3> QED
      BY <3>1, <3>2
  <2>6. TitlesAsked'
    BY <2>1, <2>2, EffectsAsk DEF onStationChange
  <2> QED
    BY <2>1, <2>4, <2>5, <2>6
<1>7. CASE \E s \in Stations : AbandonedEnds(s)
  BY <1>7 DEF AbandonedEnds, loading, RadioTypeOK
<1>8. CASE proxyRadioStream
  BY <1>8 DEF proxyRadioStream, loading, RadioTypeOK, Audio
<1>9. CASE PlayResolves
  <2>1. /\ selected' = selected /\ isPlaying' \in BOOLEAN
        /\ audio' = [audio EXCEPT !.state = "playing"] /\ audio' \in Audio
    BY <1>9 DEF PlayResolves, RadioTypeOK, Audio
  <2>2. Effects
    BY <1>9 DEF PlayResolves
  <2>3. RadioTypeOK'
    BY <1>9, <2>1, <2>2, EffectsAsk DEF PlayResolves, loading, RadioTypeOK, Audio
  <2>4. TitlesAsked'
    <3>1. \A s \in Stations : s # selected => asked'[s] = asked[s]
      BY <2>1, <2>2, EffectsAsk DEF RadioTypeOK
    <3> QED
      BY <1>9, <2>1, <3>1 DEF PlayResolves
  <2> QED
    BY <1>9, <2>1, <2>3, <2>4 DEF PlayResolves, RadioTypeOK, Audio
<1>10. CASE PlaybackEnds
  <2>1. /\ isPlaying' = FALSE /\ selected' = selected
        /\ audio' \in Audio /\ audio'.state = "idle"
        /\ abandoned' \subseteq Stations
    BY <1>10 DEF PlaybackEnds, Stops, Leaves, RadioTypeOK, Audio
  <2>2. Effects
    BY <1>10 DEF PlaybackEnds
  <2> QED
    BY <1>10, <2>1, <2>2, EffectsAsk DEF PlaybackEnds, loading, RadioTypeOK
<1>11. CASE PollTitle
  BY <1>11 DEF PollTitle, loading, RadioTypeOK
<1>12. CASE \E s \in Stations : loadMetadata(s, s) \/ loadMetadata(s, Nowhere)
  BY <1>12 DEF loadMetadata, loading, RadioTypeOK
<1>13. CASE UNCHANGED radioVars
  BY <1>13 DEF radioVars, RadioTypeOK
<1> QED
  BY <1>1, <1>2, <1>3, <1>4, <1>5, <1>6, <1>7, <1>8, <1>9, <1>10, <1>11, <1>12, <1>13
     DEF RadioNext

-----------------------------------------------------------------------------
(* What the widget knows between a question and its answer holds in every  *)
(* state (NetRadioWidget.tsx:96-174).                                      *)
THEOREM RadioInductiveInvariant == RadioSpec => []RadioIInv
<1>1. RadioInit => RadioIInv
  BY RadioInitHolds
<1>2. RadioIInv /\ [RadioNext]_radioVars => RadioIInv'
  BY RadioStep
<1> QED
  BY <1>1, <1>2, PTL DEF RadioSpec

(* The pause button is shown exactly while the station selected plays or   *)
(* is loaded after a switch, and the title is of that station, unless a    *)
(* change overtook an answer (NetRadioWidget.tsx:96-174).                  *)
THEOREM RadioTellsTheTruth == RadioSpec => []PlayButtonTruthful
<1>1. RadioIInv => PlayButtonTruthful
  BY DEF RadioIInv
<1> QED
  BY <1>1, RadioInductiveInvariant, PTL

-----------------------------------------------------------------------------
(* The pages: the spinner.  Operations at each of their awaits.            *)
Working(s) == ops[s].pc # "idle"

Shaped(op) ==
    /\ op.pc = "idle" => op = NoOp
    /\ op.pc \in {"send", "sent"} => op.kind \in Kinds \ Loads
    /\ op.pc \in {"fetch", "answer"} => op.kind \in Loads \cup TodoChanges
    /\ op.pc = "stats" => op.kind = "toggleTodo"

\* Only the users can be searched; the caches hold a full list from before a change only
\* if that change did not empty them.
OpsOK ==
    /\ PagesTypeOK
    /\ ops \in [Slots -> Op] /\ \A s \in Slots : Shaped(ops[s])
    /\ page # "admin" => ~isValidFilter(filter)
    /\ "list" \in older => overtaken

Waiting == IF confirming THEN 1 ELSE 0
Spinning == {s \in Slots : ops[s].pc # "idle" /\ Spins(ops[s].kind)}

SpinnerIInv == OpsOK /\ SpinnerMatchesWork

-----------------------------------------------------------------------------
(* What becomes of one operation.                                          *)
LEMMA OpEquality ==
    ASSUME NEW op \in Op, NEW q \in Op,
           q.kind = op.kind, q.pc = op.pc, q.filter = op.filter, q.want = op.want,
           q.here = op.here, q.alone = op.alone, q.data = op.data
    PROVE  q = op
BY DEF Op

\* A free slot is of its type.
LEMMA NoOpIs ==
    /\ NoOp \in Op /\ NoOp.kind = "loadStats" /\ NoOp.pc = "idle" /\ NoOp.filter = NoFilter
    /\ NoOp.want = FALSE /\ NoOp.here = FALSE /\ NoOp.alone = FALSE /\ NoOp.data = "none"
    /\ Shaped(NoOp)
BY DEF NoOp, Op, NoFilter, Filter, Searches, Kinds, Loads, Shaped

\* All but being alone is kept.
WithAlone(op, a) == [op EXCEPT !.alone = a]
SameOp(q, op) ==
    /\ q.pc = op.pc /\ q.kind = op.kind /\ q.filter = op.filter
    /\ q.here = op.here /\ q.data = op.data

\* Whether an operation was alone is no part of its shape.
LEMMA SameButAlone ==
    ASSUME NEW op \in Op, Shaped(op), NEW a \in BOOLEAN, op.pc = "idle" => a = FALSE
    PROVE  /\ WithAlone(op, a) \in Op /\ Shaped(WithAlone(op, a))
           /\ WithAlone(op, a).alone = a /\ SameOp(WithAlone(op, a), op)
<1> DEFINE q == WithAlone(op, a)
<1>1. /\ q \in Op /\ q.alone = a /\ q.want = op.want
      /\ q.pc = op.pc /\ q.kind = op.kind /\ q.filter = op.filter
      /\ q.here = op.here /\ q.data = op.data
  BY DEF Op, WithAlone
<1> HIDE DEF q
<1>2. op.pc = "idle" => q = op
  <2> HAVE op.pc = "idle"
  <2>1. op = NoOp /\ a = FALSE
    BY DEF Shaped
  <2>2. op.alone = a
    BY <2>1, NoOpIs
  <2> QED
    BY <1>1, <2>2, OpEquality
<1>3. Shaped(q)
  BY <1>1, <1>2 DEF Shaped
<1> QED
  BY <1>1, <1>3 DEF q, SameOp

(* A load that begins.                                                     *)
LEMMA LoadingOp ==
    ASSUME NEW kind \in Kinds, NEW f \in Filter
    PROVE  LET q == Loading(kind, f)
           IN  /\ q \in Op /\ ~q.alone
               /\ q.pc = "fetch" /\ q.kind = kind /\ q.filter = f
               /\ q.here /\ q.data = "none"
BY DEF Loading, NoOp, Op, NoFilter, Filter, Searches

(* An operation whose page is left goes on without it.                     *)
LEMMA LeftOp ==
    ASSUME OpsOK, NEW s \in Slots
    PROVE  /\ Left[s] \in Op /\ Shaped(Left[s])
           /\ Left[s].pc = ops[s].pc /\ Left[s].kind = ops[s].kind
           /\ ~Left[s].here /\ Left[s].alone = ops[s].alone
<1> DEFINE op == ops[s]
           f == IF op.kind = "handleRestore" THEN op.filter ELSE NoFilter
           q == [op EXCEPT !.here = FALSE, !.data = "none", !.filter = f]
<1>1. op \in Op /\ Shaped(op) /\ NoFilter \in Filter
  BY DEF OpsOK, NoFilter, Filter, Searches
<1>2. Left[s] = q
  BY <1>1 DEF Left, Op
<1> HIDE DEF op
<1>3. /\ q \in Op /\ q.pc = op.pc /\ q.kind = op.kind /\ q.want = op.want
      /\ q.here = FALSE /\ q.alone = op.alone /\ q.filter = f /\ q.data = "none"
  BY <1>1 DEF Op
<1> HIDE DEF q
<1>4. op.pc = "idle" => q = NoOp
  <2> HAVE op.pc = "idle"
  <2>1. op = NoOp /\ f = NoFilter
    BY <1>1, NoOpIs DEF Shaped
  <2> HIDE DEF f
  <2> QED
    BY <1>3, <2>1, NoOpIs, OpEquality
<1>5. Shaped(q)
  BY <1>1, <1>3, <1>4 DEF Shaped
<1> QED
  BY <1>2, <1>3, <1>5 DEF op


(* What Begins makes of the operations begun and of the others.            *)
LEMMA BeginsEach ==
    ASSUME NEW begun, NEW others \in [Slots -> Op],
           \A s \in Slots : Shaped(others[s]),
           \A s \in DOMAIN begun : s \in Slots /\ begun[s] \in Op /\ begun[s].pc # "idle"
                                   /\ Shaped(begun[s]),
           Begins(begun, others)
    PROVE  /\ ops' \in [Slots -> Op]
           /\ \A s \in Slots : Shaped(ops'[s])
           /\ \A s \in DOMAIN begun :
                /\ others[s].pc = "idle"
                /\ ops'[s].pc = begun[s].pc /\ ops'[s].kind = begun[s].kind
                /\ ops'[s].filter = begun[s].filter /\ ops'[s].here = begun[s].here
                /\ (ops'[s].alone <=> ~Busy)
           /\ \A s \in Slots \ DOMAIN begun :
                /\ ops'[s].pc = others[s].pc /\ ops'[s].kind = others[s].kind
                /\ ops'[s].filter = others[s].filter /\ ops'[s].here = others[s].here
                /\ ops'[s].data = others[s].data
                /\ ~ops'[s].alone
           /\ suspect' = (suspect \/ Busy)
<1>1. /\ ops' = [s \in Slots |-> IF s \in DOMAIN begun THEN [begun[s] EXCEPT !.alone = ~Busy]
                                 ELSE [others[s] EXCEPT !.alone = FALSE]]
      /\ suspect' = (suspect \/ Busy)
      /\ \A s \in DOMAIN begun : others[s].pc = "idle"
  BY DEF Begins
<1>2. Busy \in BOOLEAN
  BY DEF Busy
<1>3. ASSUME NEW s \in DOMAIN begun
      PROVE  /\ ops'[s] \in Op /\ Shaped(ops'[s])
             /\ ops'[s].pc = begun[s].pc /\ ops'[s].kind = begun[s].kind
             /\ ops'[s].filter = begun[s].filter /\ ops'[s].here = begun[s].here
             /\ (ops'[s].alone <=> ~Busy)
  <2>1. s \in Slots /\ begun[s] \in Op /\ begun[s].pc # "idle" /\ Shaped(begun[s])
    OBVIOUS
  <2>2. ops'[s] = WithAlone(begun[s], ~Busy)
    BY <1>1, <2>1 DEF WithAlone
  <2>3. /\ ops'[s] \in Op /\ Shaped(ops'[s])
        /\ (ops'[s].alone <=> ~Busy) /\ SameOp(ops'[s], begun[s])
    BY <1>2, <2>1, <2>2, SameButAlone, Zenon
  <2> QED
    BY <2>3 DEF SameOp
<1>4. ASSUME NEW s \in Slots \ DOMAIN begun
      PROVE  /\ ops'[s] \in Op /\ Shaped(ops'[s])
             /\ ops'[s].pc = others[s].pc /\ ops'[s].kind = others[s].kind
             /\ ops'[s].filter = others[s].filter /\ ops'[s].here = others[s].here
             /\ ops'[s].data = others[s].data
             /\ ~ops'[s].alone
  <2>1. ops'[s] = WithAlone(others[s], FALSE)
    BY <1>1 DEF WithAlone
  <2>2. others[s] \in Op /\ Shaped(others[s]) /\ FALSE \in BOOLEAN
    OBVIOUS
  <2>3. /\ ops'[s] \in Op /\ Shaped(ops'[s])
        /\ ~ops'[s].alone /\ SameOp(ops'[s], others[s])
    BY <2>1, <2>2, SameButAlone, Zenon
  <2> QED
    BY <2>3 DEF SameOp
<1>5. ops' \in [Slots -> Op]
  <2>1. \A s \in Slots : ops'[s] \in Op
    BY <1>3, <1>4
  <2>2. DOMAIN ops' = Slots /\ ops' = [s \in Slots |-> ops'[s]]
    BY <1>1
  <2> QED
    BY <2>1, <2>2
<1> QED
  BY <1>1, <1>3, <1>4, <1>5

-----------------------------------------------------------------------------
(* What begins, on a page that is mounted, with a filter and with a click. *)
\* Facts about the operations begun in N and about those that go on.
Begun(N, f) ==
    \A s \in N :
        /\ ~Working(s)
        /\ ops'[s].pc \in {"fetch", "send"} /\ ops'[s].filter = f
        /\ ops'[s].here /\ (ops'[s].alone <=> ~Busy)
GoOn(N) ==
    \A s \in Slots \ N :
        ops'[s].pc = ops[s].pc /\ ops'[s].kind = ops[s].kind /\ ~ops'[s].alone
StillShaped == ops' \in [Slots -> Op] /\ \A s \in Slots : Shaped(ops'[s])

\* Mounting a page begins each of its loads in a slot of its own.
LEMMA MountsEach ==
    ASSUME OpsOK, NEW p \in PageNames \ {"login"}, Mounts(p)
    PROVE  \E at \in [OnMount[p] -> Slots] : 
            LET N == {at[k] : k \in OnMount[p]}
            IN  /\ \A k, l \in OnMount[p] : at[k] = at[l] => k = l
                /\ StillShaped
                /\ Begun(N, NoFilter) /\ \A k \in OnMount[p] : ops'[at[k]].kind = k
                /\ \A s \in N : ops'[s].pc = "fetch"
                /\ GoOn(N) /\ \A s \in Slots \ N : ~ops'[s].here
                /\ suspect' = (suspect \/ Busy)
<1>1. PICK at \in [OnMount[p] -> Slots] :
        /\ \A k, l \in OnMount[p] : at[k] = at[l] => k = l
        /\ Begins([s \in {at[k] : k \in OnMount[p]} |->
                      Loading(CHOOSE k \in OnMount[p] : at[k] = s, NoFilter)], Left)
  BY DEF Mounts
<1> DEFINE N == {at[k] : k \in OnMount[p]}
           K(s) == CHOOSE k \in OnMount[p] : at[k] = s
           begun == [s \in N |-> Loading(K(s), NoFilter)]
<1>2. OnMount[p] \subseteq Loads
  BY DEF OnMount, PageNames, Guarded, Loads
<1>3. \A s \in N : K(s) \in OnMount[p] /\ at[K(s)] = s
  OBVIOUS
<1>4. \A k \in OnMount[p] : K(at[k]) = k
  BY <1>1, <1>3
<1>5. NoFilter \in Filter
  BY DEF NoFilter, Filter, Searches
<1>6. ASSUME NEW s \in N
      PROVE  /\ s \in Slots /\ begun[s] \in Op /\ Shaped(begun[s])
             /\ begun[s].pc = "fetch" /\ begun[s].kind = K(s)
             /\ begun[s].filter = NoFilter /\ begun[s].here
  <2>1. K(s) \in Kinds /\ K(s) \in Loads /\ s \in Slots
    BY <1>2, <1>3 DEF Kinds
  <2>2. begun[s] = Loading(K(s), NoFilter)
    OBVIOUS
  <2> HIDE DEF K, begun
  <2> QED
    BY <2>1, <2>2, <1>5, LoadingOp DEF Shaped
<1>7. DOMAIN begun = N /\ Begins(begun, Left)
  BY <1>1
<1>8. Left \in [Slots -> Op] /\ \A s \in Slots : Shaped(Left[s])
  <2>1. Left = [s \in Slots |-> Left[s]]
    BY DEF Left
  <2> QED
    BY <2>1, LeftOp
<1> HIDE DEF begun
<1>9. /\ ops' \in [Slots -> Op]
      /\ \A s \in Slots : Shaped(ops'[s])
      /\ \A s \in N :
           /\ Left[s].pc = "idle"
           /\ ops'[s].pc = begun[s].pc /\ ops'[s].kind = begun[s].kind
           /\ ops'[s].filter = begun[s].filter /\ ops'[s].here = begun[s].here
           /\ (ops'[s].alone <=> ~Busy)
      /\ \A s \in Slots \ N :
           /\ ops'[s].pc = Left[s].pc /\ ops'[s].kind = Left[s].kind
           /\ ops'[s].here = Left[s].here
           /\ ~ops'[s].alone
      /\ suspect' = (suspect \/ Busy)
  <2>1. \A s \in DOMAIN begun : s \in Slots /\ begun[s] \in Op /\ begun[s].pc # "idle"
                                   /\ Shaped(begun[s])
    BY <1>6, <1>7
  <2> HIDE DEF N
  <2> QED
    BY <1>7, <1>8, <2>1, BeginsEach
<1>10. N \subseteq Slots
  BY <1>6
<1>11. Begun(N, NoFilter) /\ GoOn(N) /\ StillShaped
  <2> HIDE DEF N
  <2>1. Begun(N, NoFilter)
    BY <1>6, <1>9, <1>10, LeftOp DEF Begun, Working
  <2>2. GoOn(N)
    BY <1>9, LeftOp DEF GoOn
  <2> QED
    BY <1>9, <2>1, <2>2 DEF StillShaped
<1>12. \A k \in OnMount[p] : ops'[at[k]].kind = k
  <2> TAKE k \in OnMount[p]
  <2>1. at[k] \in N /\ K(at[k]) = k
    BY <1>4
  <2> HIDE DEF N, K
  <2> QED
    BY <1>6, <1>9, <2>1
<1>13. /\ \A s \in N : ops'[s].pc = "fetch"
       /\ \A s \in Slots \ N : ~ops'[s].here
  BY <1>6, <1>9, LeftOp
<1> QED
  BY <1>1, <1>9, <1>11, <1>12, <1>13

(* Of one operation that begins on the page shown.                         *)
LEMMA BeginEach ==
    ASSUME OpsOK, NEW s \in Slots, NEW op \in Op, op.pc # "idle", Shaped(op), op.here,
           op.pc \in {"fetch", "send"}, Begin(s, op)
    PROVE  /\ StillShaped /\ Begun({s}, op.filter) /\ GoOn({s})
           /\ ops'[s].kind = op.kind /\ ops'[s].pc = op.pc
           /\ \A t \in Slots \ {s} : ops'[t].here = ops[t].here
           /\ suspect' = (suspect \/ Busy)
           /\ count' = Shows({op.kind})
<1> DEFINE begun == [t \in {s} |-> op]
<1>1. DOMAIN begun = {s} /\ begun[s] = op /\ Begins(begun, ops) /\ count' = Shows({op.kind})
  BY DEF Begin
<1> HIDE DEF begun
<1>2. \A t \in DOMAIN begun : t \in Slots /\ begun[t] \in Op /\ begun[t].pc # "idle"
                              /\ Shaped(begun[t])
  BY <1>1
<1>3. ops \in [Slots -> Op] /\ \A t \in Slots : Shaped(ops[t])
  BY DEF OpsOK
<1>4. /\ ops' \in [Slots -> Op]
      /\ \A t \in Slots : Shaped(ops'[t])
      /\ \A t \in DOMAIN begun :
           /\ ops[t].pc = "idle"
           /\ ops'[t].pc = begun[t].pc /\ ops'[t].kind = begun[t].kind
           /\ ops'[t].filter = begun[t].filter /\ ops'[t].here = begun[t].here
           /\ (ops'[t].alone <=> ~Busy)
      /\ \A t \in Slots \ DOMAIN begun :
           /\ ops'[t].pc = ops[t].pc /\ ops'[t].kind = ops[t].kind
           /\ ops'[t].here = ops[t].here
           /\ ~ops'[t].alone
      /\ suspect' = (suspect \/ Busy)
  BY <1>1, <1>2, <1>3, BeginsEach
<1>5. /\ ops[s].pc = "idle"
      /\ ops'[s].pc = op.pc /\ ops'[s].kind = op.kind
      /\ ops'[s].filter = op.filter /\ ops'[s].here
      /\ (ops'[s].alone <=> ~Busy)
  BY <1>1, <1>4
<1>6. \A t \in Slots \ {s} :
           /\ ops'[t].pc = ops[t].pc /\ ops'[t].kind = ops[t].kind
           /\ ops'[t].here = ops[t].here
           /\ ~ops'[t].alone
  BY <1>1, <1>4
<1> QED
  BY <1>1, <1>4, <1>5, <1>6 DEF StillShaped, Begun, GoOn, Working

(* Of the users that are loaded for a filter.                              *)
LEMMA FilterUsersEach ==
    ASSUME OpsOK, NEW f \in Filter, FilterUsers(f),
           f.search # filter.search \/ f.deletedOnly # filter.deletedOnly
    PROVE  /\ filter' \in Filter
           /\ (filter'.captured = "none") <=> ~isValidFilter(filter')
           /\ \E N \in SUBSET Slots :
                /\ N # {} /\ count' = count + Cardinality(N)
                /\ StillShaped /\ Begun(N, filter') /\ GoOn(N)
                /\ \A s \in N : ops'[s].kind = "loadUsers" /\ ops'[s].pc = "fetch"
                /\ \A t \in Slots \ N : ops'[t].here = ops[t].here
                /\ suspect' = (suspect \/ Busy)
<1> DEFINE anew == isValidFilter(f) # isValidFilter(filter) \/ f.deletedOnly # filter.deletedOnly
           loads == (IF anew THEN 1 ELSE 0) + (IF isValidFilter(f) THEN 1 ELSE 0)
<1>1. filter \in Filter /\ ((filter.captured = "none") <=> ~isValidFilter(filter))
  BY DEF OpsOK, PagesTypeOK
<1>2. filter' = [f EXCEPT !.captured = IF anew THEN f.search ELSE filter.captured]
  BY DEF FilterUsers
<1>3. /\ filter' \in Filter /\ filter'.search = f.search
      /\ filter'.captured = IF anew THEN f.search ELSE filter.captured
  BY <1>1, <1>2 DEF Filter
<1>4. (filter'.captured = "none") <=> ~isValidFilter(filter')
  BY <1>1, <1>3 DEF isValidFilter
<1>5. loads \in {1, 2}
  BY <1>1 DEF isValidFilter, Filter, Searches
<1>6. PICK N \in SUBSET Slots :
        Cardinality(N) = loads /\ Begins([s \in N |-> Loading("loadUsers", filter')], ops)
  BY DEF FilterUsers
<1> DEFINE begun == [s \in N |-> Loading("loadUsers", filter')]
<1>7. DOMAIN begun = N /\ Begins(begun, ops) /\ \A s \in N : begun[s] = Loading("loadUsers", filter')
  BY <1>6
<1> HIDE DEF begun
<1>8. "loadUsers" \in Kinds /\ "loadUsers" \in Loads
  BY DEF Kinds, Loads
<1>9. \A s \in N : /\ s \in Slots /\ begun[s] \in Op /\ begun[s].pc # "idle" /\ Shaped(begun[s])
                   /\ begun[s].kind = "loadUsers" /\ begun[s].pc = "fetch"
                   /\ begun[s].filter = filter' /\ begun[s].here
  BY <1>3, <1>7, <1>8, LoadingOp DEF Shaped
<1>10. ops \in [Slots -> Op] /\ \A t \in Slots : Shaped(ops[t])
  BY DEF OpsOK
<1>11. /\ ops' \in [Slots -> Op]
       /\ \A t \in Slots : Shaped(ops'[t])
       /\ \A s \in N :
            /\ ops[s].pc = "idle"
            /\ ops'[s].pc = begun[s].pc /\ ops'[s].kind = begun[s].kind
            /\ ops'[s].filter = begun[s].filter /\ ops'[s].here = begun[s].here
            /\ (ops'[s].alone <=> ~Busy)
       /\ \A t \in Slots \ N :
            /\ ops'[t].pc = ops[t].pc /\ ops'[t].kind = ops[t].kind
            /\ ops'[t].here = ops[t].here
            /\ ~ops'[t].alone
       /\ suspect' = (suspect \/ Busy)
  BY <1>7, <1>9, <1>10, BeginsEach
<1>12. N # {}
  BY <1>5, <1>6, FS_EmptySet
<1>13. count' = count + Cardinality(N)
  BY <1>6 DEF FilterUsers
<1>14. StillShaped /\ Begun(N, filter') /\ GoOn(N)
  BY <1>9, <1>11 DEF StillShaped, Begun, GoOn, Working
<1>15. /\ \A s \in N : ops'[s].kind = "loadUsers" /\ ops'[s].pc = "fetch"
       /\ \A t \in Slots \ N : ops'[t].here = ops[t].here
       /\ suspect' = (suspect \/ Busy)
  BY <1>9, <1>11
<1> QED
  BY <1>3, <1>4, <1>12, <1>13, <1>14, <1>15


-----------------------------------------------------------------------------
(* An answer reaches one operation: it returns, or goes on as what it was; *)
(* a change that is followed by a load becomes that load.                  *)
Becomes(kind) ==
    IF kind = "handleRestore" THEN {kind, "loadUsers"}
    ELSE IF kind \in VideoChanges THEN {kind, "fetchVideoList"} ELSE {kind}

OneMoves(s) ==
    /\ Working(s)
    /\ \A t \in Slots \ {s} : ops'[t] = ops[t]
    /\ \/ ops'[s] = NoOp
       \/ /\ ops'[s].pc # "idle" /\ ops'[s].kind \in Becomes(ops[s].kind)
          /\ ops'[s].filter = ops[s].filter
          /\ ops'[s].alone = ops[s].alone /\ ops'[s].here = ops[s].here
    /\ count' = IF ops'[s].pc # "idle" /\ Spins(ops'[s].kind) THEN count
                ELSE Hidden(ops[s].kind)

\* Writing one slot moves that operation alone.
LEMMA OneMovesBy ==
    ASSUME OpsOK, NEW s \in Slots, Working(s), NEW r \in Op, Shaped(r),
           ops' = [ops EXCEPT ![s] = r],
           \/ r = NoOp
           \/ /\ r.pc # "idle" /\ r.kind \in Becomes(ops[s].kind)
              /\ r.filter = ops[s].filter
              /\ r.alone = ops[s].alone /\ r.here = ops[s].here,
           count' = IF r.pc # "idle" /\ Spins(r.kind) THEN count ELSE Hidden(ops[s].kind)
    PROVE  OneMoves(s) /\ StillShaped /\ ops'[s] = r
<1>1. /\ ops \in [Slots -> Op] /\ \A t \in Slots : Shaped(ops[t])
  BY DEF OpsOK
<1>2. ops'[s] = r /\ ops' \in [Slots -> Op] /\ \A t \in Slots \ {s} : ops'[t] = ops[t]
  BY <1>1
<1>3. \A t \in Slots : Shaped(ops'[t])
  BY <1>1, <1>2
<1> QED
  BY <1>2, <1>3 DEF OneMoves, StillShaped

(* It returns.                                                             *)
LEMMA ReturnsEach ==
    ASSUME OpsOK, NEW s \in Slots, Working(s), Returns(s)
    PROVE  OneMoves(s) /\ StillShaped /\ ops'[s] = NoOp
<1>1. NoOp \in Op /\ Shaped(NoOp) /\ NoOp.pc = "idle"
  BY DEF NoOp, Op, NoFilter, Filter, Searches, Kinds, Loads, Shaped
<1>2. ops' = [ops EXCEPT ![s] = NoOp] /\ count' = Hidden(ops[s].kind)
  BY DEF Returns
<1> QED
  BY <1>1, <1>2, OneMovesBy

(* It goes on as what it was.                                              *)
LEMMA GoesOnAs ==
    ASSUME OpsOK, NEW s \in Slots, Working(s), NEW r \in Op, Shaped(r), r.pc # "idle",
           r.kind = ops[s].kind, r.filter = ops[s].filter,
           r.alone = ops[s].alone, r.here = ops[s].here,
           ops' = [ops EXCEPT ![s] = r], count' = count
    PROVE  OneMoves(s) /\ StillShaped /\ ops'[s] = r
<1>1. r.kind \in Becomes(ops[s].kind)
  BY DEF Becomes
<1>2. ~Spins(r.kind) => Hidden(ops[s].kind) = count
  BY DEF Hidden
<1> QED
  BY <1>1, <1>2, OneMovesBy

(* What an answer makes of the operation it reaches.                       *)
LEMMA GoesOnEach ==
    ASSUME OpsOK, NEW s \in Slots, ops[s].pc \in {"fetch", "answer"}, GoesOn(s)
    PROVE  /\ OneMoves(s) /\ StillShaped
           /\ IF ops[s].kind = "toggleTodo" THEN ops'[s].pc = "stats" ELSE ops'[s] = NoOp
<1>1. CASE ops[s].kind = "toggleTodo"
  <2> DEFINE op == ops[s]
             r == [op EXCEPT !.pc = "stats"]
  <2>1. op \in Op /\ op.kind = "toggleTodo" /\ Working(s)
    BY <1>1 DEF OpsOK, Working
  <2>2. ops' = [ops EXCEPT ![s] = r] /\ count' = count
    BY <1>1 DEF GoesOn, OpsOK
  <2> HIDE DEF op
  <2>3. /\ r \in Op /\ r.pc = "stats" /\ r.kind = op.kind /\ r.filter = op.filter
        /\ r.alone = op.alone /\ r.here = op.here
    BY <2>1 DEF Op
  <2> HIDE DEF r
  <2>4. Shaped(r)
    BY <2>1, <2>3 DEF Shaped
  <2>5. OneMoves(s) /\ StillShaped /\ ops'[s] = r
    BY <2>1, <2>2, <2>3, <2>4, GoesOnAs DEF op
  <2> QED
    BY <1>1, <2>3, <2>5
<1>2. CASE ops[s].kind # "toggleTodo"
  BY <1>2, ReturnsEach DEF GoesOn, Working
<1> QED
  BY <1>1, <1>2

\* A call that is sent moves on to wait for its answer.
LEMMA ServedEach ==
    ASSUME OpsOK, NEW s \in Slots, Served(s)
    PROVE  OneMoves(s) /\ StillShaped /\ ops'[s].pc = "sent" /\ ops'[s].kind = ops[s].kind
<1> DEFINE op == ops[s]
           r == [op EXCEPT !.pc = "sent", !.want = FALSE]
<1>1. op \in Op /\ Shaped(op) /\ op.pc = "send" /\ Working(s)
  BY DEF OpsOK, Served, Working
<1>2. ops' = [ops EXCEPT ![s] = r] /\ count' = count
  BY DEF Served, OpsOK
<1> HIDE DEF op
<1>3. /\ r \in Op /\ r.pc = "sent" /\ r.kind = op.kind /\ r.filter = op.filter
      /\ r.alone = op.alone /\ r.here = op.here
  BY <1>1 DEF Op
<1> HIDE DEF r
<1>4. Shaped(r)
  BY <1>1, <1>3 DEF Shaped
<1> QED
  BY <1>1, <1>2, <1>3, <1>4, GoesOnAs DEF op

\* A change of a todo goes on to fetch the list.
LEMMA TodoChangedEach ==
    ASSUME OpsOK, NEW s \in Slots, TodoChanged(s)
    PROVE  OneMoves(s) /\ StillShaped /\ ops'[s].pc = "fetch" /\ ops'[s].kind = ops[s].kind
<1> DEFINE op == ops[s]
           r == [op EXCEPT !.pc = "fetch"]
<1>1. op \in Op /\ Shaped(op) /\ op.pc = "sent" /\ op.kind \in TodoChanges /\ Working(s)
  BY DEF OpsOK, TodoChanged, Working
<1>2. ops' = [ops EXCEPT ![s] = r] /\ count' = count
  BY DEF TodoChanged, OpsOK
<1> HIDE DEF op
<1>3. /\ r \in Op /\ r.pc = "fetch" /\ r.kind = op.kind /\ r.filter = op.filter
      /\ r.alone = op.alone /\ r.here = op.here
  BY <1>1 DEF Op
<1> HIDE DEF r
<1>4. Shaped(r)
  BY <1>1, <1>3 DEF Shaped
<1> QED
  BY <1>1, <1>2, <1>3, <1>4, GoesOnAs DEF op

(* An account that is restored on the list of all is followed by a load,   *)
(* as is every change of the videos.                                       *)
LEMMA LoadFollows ==
    ASSUME OpsOK, NEW s \in Slots, NEW kind \in {"loadUsers", "fetchVideoList"},
           ops[s].pc = "sent", kind \in Becomes(ops[s].kind),
           ops' = [ops EXCEPT ![s].kind = kind, ![s].pc = "fetch"],
           count' = Hidden(ops[s].kind) \/ (Spins(kind) /\ count' = count),
           Spins(kind) => count' = count
    PROVE  OneMoves(s) /\ StillShaped /\ ops'[s].pc = "fetch" /\ ops'[s].kind = kind
<1> DEFINE op == ops[s]
           r == [op EXCEPT !.kind = kind, !.pc = "fetch"]
<1>1. op \in Op /\ Shaped(op) /\ op.pc = "sent" /\ Working(s) /\ kind \in Loads /\ kind \in Kinds
  BY DEF OpsOK, Working, Loads, Kinds
<1>2. ops' = [ops EXCEPT ![s] = r]
  BY DEF OpsOK
<1> HIDE DEF op
<1>3. /\ r \in Op /\ r.pc = "fetch" /\ r.kind = kind /\ r.filter = op.filter
      /\ r.alone = op.alone /\ r.here = op.here
  BY <1>1 DEF Op
<1> HIDE DEF r
<1>4. Shaped(r)
  BY <1>1, <1>3 DEF Shaped
<1>5. count' = IF r.pc # "idle" /\ Spins(r.kind) THEN count ELSE Hidden(ops[s].kind)
  BY <1>3
<1> QED
  BY <1>1, <1>2, <1>3, <1>4, <1>5, OneMovesBy DEF op

\* A restored user is fetched again, unless the deleted ones are listed.
LEMMA UserRestoredEach ==
    ASSUME OpsOK, NEW s \in Slots, UserRestored(s)
    PROVE  /\ OneMoves(s) /\ StillShaped
           /\ IF ops[s].filter.deletedOnly THEN ops'[s] = NoOp ELSE ops'[s].pc = "fetch"
<1>1. ops[s].pc = "sent" /\ ops[s].kind = "handleRestore" /\ Working(s)
  BY DEF UserRestored, Working
<1>2. CASE ops[s].filter.deletedOnly
  BY <1>1, <1>2, ReturnsEach DEF UserRestored
<1>3. CASE ~ops[s].filter.deletedOnly
  <2>1. /\ ops' = [ops EXCEPT ![s].kind = "loadUsers", ![s].pc = "fetch"] /\ count' = count
    BY <1>3 DEF UserRestored
  <2>2. "loadUsers" \in Becomes(ops[s].kind) /\ Spins("loadUsers")
    BY <1>1 DEF Becomes, Spins
  <2> QED
    BY <1>1, <1>3, <2>1, <2>2, LoadFollows
<1> QED
  BY <1>2, <1>3

\* A change of the videos goes on to fetch their list.
LEMMA VideoChangedEach ==
    ASSUME OpsOK, NEW s \in Slots, VideoChanged(s)
    PROVE  OneMoves(s) /\ StillShaped /\ ops'[s].pc = "fetch" /\ ops'[s].kind = "fetchVideoList"
<1>1. ops[s].pc = "sent" /\ ops[s].kind \in VideoChanges
  BY DEF VideoChanged
<1>2. /\ ops' = [ops EXCEPT ![s].kind = "fetchVideoList", ![s].pc = "fetch"]
      /\ count' = Hidden(ops[s].kind)
  BY DEF VideoChanged
<1>3. "fetchVideoList" \in Becomes(ops[s].kind) /\ ~Spins("fetchVideoList")
  BY <1>1 DEF Becomes, Spins, VideoChanges
<1> QED
  BY <1>1, <1>2, <1>3, LoadFollows

(* What a list shows is one of the data.                                   *)
Data == Todo \cup Account \cup {"none", "video"}

\* What the server lists is of the lists' type.
LEMMA ListedIsData ==
    ASSUME store \in Store, NEW kind \in Kinds, NEW f \in Filter
    PROVE  Listed(kind, f) \in Data
BY DEF Listed, Store, Data, Todo, Account

\* An operation that reads carries what the server lists now.
LEMMA ListReadEach ==
    ASSUME OpsOK, NEW s \in Slots, ListRead(s)
    PROVE  /\ OneMoves(s) /\ StillShaped /\ ops'[s].pc = "answer" /\ ops'[s].kind = ops[s].kind
           /\ ops[s].here => ops'[s].data = Listed(ops[s].kind, ops[s].filter)
<1> DEFINE op == ops[s]
           d == IF op.here THEN Listed(op.kind, op.filter) ELSE op.data
           r == [op EXCEPT !.pc = "answer", !.data = d]
<1>1. op \in Op /\ Shaped(op) /\ op.pc = "fetch" /\ Working(s)
  BY DEF OpsOK, ListRead, Working
<1>2. ops' = [ops EXCEPT ![s] = r] /\ count' = count
  BY DEF ListRead, OpsOK
<1>3. d \in Todo \cup Account \cup {"none", "video"}
  BY <1>1, ListedIsData DEF OpsOK, PagesTypeOK, Op, Data
<1> HIDE DEF op, d
<1>4. /\ r \in Op /\ r.pc = "answer" /\ r.kind = op.kind /\ r.filter = op.filter
      /\ r.alone = op.alone /\ r.here = op.here /\ r.data = d
  BY <1>1, <1>3 DEF Op
<1> HIDE DEF r
<1>5. Shaped(r)
  BY <1>1, <1>4 DEF Shaped
<1>6. OneMoves(s) /\ StillShaped /\ ops'[s] = r
  BY <1>1, <1>2, <1>4, <1>5, GoesOnAs DEF op
<1> QED
  BY <1>4, <1>6 DEF op, d

\* A call that fails moves one operation.
LEMMA CallFailsEach ==
    ASSUME OpsOK, NEW s \in Slots, CallFails(s)
    PROVE  OneMoves(s) /\ StillShaped
<1>1. Working(s)
  BY DEF CallFails, Working
<1>2. CASE ops[s].kind = "toggleTodo" /\ ops[s].pc \in {"fetch", "answer"}
  BY <1>2, GoesOnEach DEF CallFails
<1>3. CASE ~(ops[s].kind = "toggleTodo" /\ ops[s].pc \in {"fetch", "answer"})
  BY <1>1, <1>3, ReturnsEach DEF CallFails
<1> QED
  BY <1>2, <1>3


-----------------------------------------------------------------------------
(* The spinner counts the operations that show it.                         *)
LEMMA SpinningCounts ==
    /\ IsFiniteSet(Spinning) /\ Cardinality(Spinning) \in Nat
    /\ SpinnerMatchesWork <=> count = Cardinality(Spinning) + Waiting
    /\ Waiting \in {0, 1}
<1>1. IsFiniteSet(Spinning)
  BY SlotsAssumption, FS_Subset DEF Spinning
<1> QED
  BY <1>1, FS_CardinalityType DEF SpinnerMatchesWork, Spinning, Waiting

\* It is counted once more for each operation that begins with it, ...
LEMMA SpinnerGrows ==
    ASSUME SpinnerMatchesWork, NEW N \in SUBSET Slots,
           \A s \in N : ~Working(s) /\ ops'[s].pc # "idle",
           GoOn(N), confirming' = confirming,
           count' = count + Cardinality({s \in N : Spins(ops'[s].kind)})
    PROVE  SpinnerMatchesWork' /\ count' \in Nat
<1> DEFINE M == {s \in N : Spins(ops'[s].kind)}
<1>1. Spinning' = Spinning \cup M
  <2>1. ASSUME NEW s \in Slots PROVE s \in Spinning' <=> s \in Spinning \cup M
    <3>1. CASE s \in N
      BY <3>1 DEF Spinning, Working
    <3>2. CASE s \notin N
      BY <3>2 DEF Spinning, GoOn
    <3> QED
      BY <3>1, <3>2
  <2>2. Spinning' \subseteq Slots /\ Spinning \cup M \subseteq Slots
    BY DEF Spinning
  <2> QED
    BY <2>1, <2>2
<1>2. Spinning \cap M = {}
  BY DEF Spinning, Working
<1>3. IsFiniteSet(M)
  BY SlotsAssumption, FS_Subset
<1>4. /\ Cardinality(M) \in Nat
      /\ Cardinality(Spinning \cup M) =
           Cardinality(Spinning) + Cardinality(M) - Cardinality(Spinning \cap M)
  BY <1>3, SpinningCounts, FS_Union, FS_CardinalityType
<1>5. Cardinality(Spinning') = Cardinality(Spinning) + Cardinality(M)
  <2>1. Cardinality(Spinning \cap M) = 0
    BY <1>2, FS_EmptySet
  <2> HIDE DEF M
  <2> QED
    BY <1>1, <1>4, <2>1, SpinningCounts
<1>6. /\ count = Cardinality(Spinning) + Waiting /\ Cardinality(Spinning) \in Nat
      /\ count' = count + Cardinality(M) /\ Waiting \in {0, 1} /\ Waiting' = Waiting
  BY SpinningCounts DEF Waiting
<1> HIDE DEF M
<1>7. count' = Cardinality(Spinning') + Waiting' /\ count' \in Nat
  BY <1>4, <1>5, <1>6
<1>8. SpinnerMatchesWork'
  BY <1>7 DEF SpinnerMatchesWork, Spinning, Waiting
<1> QED
  BY <1>7, <1>8

\* ... and once less when one returns; its finally cannot find it at zero.
LEMMA SpinnerMoves ==
    ASSUME SpinnerMatchesWork, NEW s \in Slots, OneMoves(s), confirming' = confirming
    PROVE  SpinnerMatchesWork' /\ count' \in Nat
<1>1. /\ count = Cardinality(Spinning) + Waiting /\ Cardinality(Spinning) \in Nat
      /\ IsFiniteSet(Spinning) /\ Waiting \in {0, 1} /\ Waiting' = Waiting
  BY SpinningCounts DEF Waiting
<1>2. \A t \in Slots \ {s} : t \in Spinning' <=> t \in Spinning
  BY DEF OneMoves, Spinning
<1>3. Spinning' \subseteq Slots /\ Spinning \subseteq Slots
  BY DEF Spinning
<1>4. NoOp.pc = "idle"
  BY DEF NoOp
<1>5. CASE s \in Spinning' 
  <2>1. ops'[s].pc # "idle" /\ Spins(ops'[s].kind) /\ ops'[s].kind \in Becomes(ops[s].kind)
    BY <1>4, <1>5 DEF OneMoves, Spinning
  <2>2. Spins(ops[s].kind)
    BY <2>1 DEF Becomes, Spins, VideoChanges
  <2>3. s \in Spinning
    BY <2>2 DEF OneMoves, Working, Spinning
  <2>4. Spinning' = Spinning
    BY <1>2, <1>3, <1>5, <2>3
  <2>5. count' = count
    BY <2>1 DEF OneMoves
  <2> QED
    <3>1. count' = Cardinality(Spinning') + Waiting' /\ count' \in Nat
      BY <1>1, <2>4, <2>5
    <3> QED
      BY <3>1 DEF SpinnerMatchesWork, Spinning, Waiting
<1>6. CASE s \notin Spinning'
  <2>1. count' = Hidden(ops[s].kind)
    BY <1>6 DEF OneMoves, Spinning
  <2>2. CASE s \in Spinning
    <3>1. Spinning' = Spinning \ {s}
      BY <1>2, <1>3, <1>6
    <3>2. Cardinality(Spinning') = Cardinality(Spinning) - 1 /\ Cardinality(Spinning') \in Nat
      BY <1>1, <2>2, <3>1, FS_RemoveElement, FS_CardinalityType
    <3>3. count' = count - 1
      BY <1>1, <2>1, <2>2, <3>2 DEF Hidden, Spinning
    <3> QED
      <4>1. count' = Cardinality(Spinning') + Waiting' /\ count' \in Nat
        BY <1>1, <3>2, <3>3
      <4> QED
        BY <4>1 DEF SpinnerMatchesWork, Spinning, Waiting
  <2>3. CASE s \notin Spinning
    <3>1. ~Spins(ops[s].kind)
      BY <2>3 DEF OneMoves, Working, Spinning
    <3>2. count' = count
      BY <2>1, <3>1 DEF Hidden
    <3>3. Spinning' = Spinning
      BY <1>2, <1>3, <1>6, <2>3
    <3> QED
      <4>1. count' = Cardinality(Spinning') + Waiting' /\ count' \in Nat
        BY <1>1, <3>2, <3>3
      <4> QED
        BY <4>1 DEF SpinnerMatchesWork, Spinning, Waiting
  <2> QED
    BY <2>2, <2>3
<1> QED
  BY <1>5, <1>6

(* A page that is mounted shows the spinner for what it loads.             *)
LEMMA SpinnerMounts ==
    ASSUME OpsOK, SpinnerMatchesWork, NEW p \in PageNames \ {"login"}, Mounts(p),
           confirming' = confirming
    PROVE  SpinnerMatchesWork' /\ count' \in Nat
<1>1. PICK at \in [OnMount[p] -> Slots] : 
        LET N == {at[k] : k \in OnMount[p]}
        IN  /\ \A k, l \in OnMount[p] : at[k] = at[l] => k = l
            /\ StillShaped
            /\ Begun(N, NoFilter) /\ \A k \in OnMount[p] : ops'[at[k]].kind = k
            /\ \A s \in N : ops'[s].pc = "fetch"
            /\ GoOn(N) /\ \A s \in Slots \ N : ~ops'[s].here
            /\ suspect' = (suspect \/ Busy)
  BY MountsEach
<1> DEFINE N == {at[k] : k \in OnMount[p]}
           M == {s \in N : Spins(ops'[s].kind)}
           K == {k \in OnMount[p] : Spins(k)}
<1>2. N \in SUBSET Slots
  OBVIOUS
<1>3. \A s \in N : ~Working(s) /\ ops'[s].pc # "idle"
  BY <1>1 DEF Begun
<1>4. count' = count + Cardinality(K)
  BY DEF Mounts, Shows
<1>5. M = {at[k] : k \in K}
  BY <1>1
<1>6. Cardinality(K) = Cardinality(M)
  <2>1. CASE p = "todos"
    <3>1. K = {"fetchTodos"}
      BY <2>1 DEF OnMount, Spins
    <3>2. M = {at["fetchTodos"]}
      BY <1>5, <3>1
    <3> QED
      BY <3>1, <3>2, FS_Singleton
  <2>2. CASE p = "admin"
    <3>1. K = {"loadUsers"}
      BY <2>2 DEF OnMount, Spins
    <3>2. M = {at["loadUsers"]}
      BY <1>5, <3>1
    <3> QED
      BY <3>1, <3>2, FS_Singleton
  <2>3. CASE p = "dashboard"
    <3>1. K = {"loadAppDetails"}
      BY <2>3 DEF OnMount, Spins
    <3>2. M = {at["loadAppDetails"]}
      BY <1>5, <3>1
    <3> QED
      BY <3>1, <3>2, FS_Singleton
  <2>4. CASE p = "stream"
    <3>1. K = {}
      BY <2>4 DEF OnMount, Spins
    <3>2. M = {}
      BY <1>5, <3>1
    <3> QED
      BY <3>1, <3>2
  <2> QED
    BY <2>1, <2>2, <2>3, <2>4 DEF PageNames, Guarded
<1>7. GoOn(N)
  BY <1>1
<1>8. count' = count + Cardinality({s \in N : Spins(ops'[s].kind)})
  BY <1>4, <1>6
<1> HIDE DEF N, M, K
<1> QED
  BY <1>2, <1>3, <1>7, <1>8, SpinnerGrows

(* One operation that begins shows it for itself.                          *)
LEMMA SpinnerBegins ==
    ASSUME SpinnerMatchesWork, NEW s \in Slots, Begun({s}, ops'[s].filter), GoOn({s}),
           count' = Shows({ops'[s].kind}), confirming' = confirming
    PROVE  SpinnerMatchesWork' /\ count' \in Nat
<1> DEFINE M == {t \in {s} : Spins(ops'[t].kind)}
           K == {k \in {ops'[s].kind} : Spins(k)}
<1>1. Cardinality(K) = Cardinality(M)
  <2>1. CASE Spins(ops'[s].kind)
    <3>1. K = {ops'[s].kind} /\ M = {s}
      BY <2>1
    <3> QED
      BY <3>1, FS_Singleton
  <2>2. CASE ~Spins(ops'[s].kind)
    <3>1. K = {} /\ M = {}
      BY <2>2
    <3> QED
      BY <3>1
  <2> QED
    BY <2>1, <2>2
<1>2. count' = count + Cardinality({t \in {s} : Spins(ops'[t].kind)})
  BY <1>1 DEF Shows
<1>3. \A t \in {s} : ~Working(t) /\ ops'[t].pc # "idle"
  BY DEF Begun
<1> HIDE DEF M, K
<1>4. {s} \in SUBSET Slots
  OBVIOUS
<1> QED
  BY <1>2, <1>3, <1>4, SpinnerGrows


-----------------------------------------------------------------------------
(* The types of the pages and the spinner hold in every state.             *)
CachesFit ==
    older \subseteq UserLists /\ overtaken \in BOOLEAN /\ ("list" \in older => overtaken)

\* The state but for the operations and the spinner.
PageFits ==
    /\ page \in PageNames /\ isAdmin \in BOOLEAN /\ suspect \in BOOLEAN
    /\ confirming \in BOOLEAN /\ CachesFit
    /\ list \in Data /\ found \in Data
    /\ filter \in Filter /\ store \in Store
    /\ page \in Guarded => isAdmin
    /\ filter # NoFilter => page \in {"todos", "admin"}
    /\ (filter.captured = "none") <=> ~isValidFilter(filter)
    /\ page # "admin" => ~isValidFilter(filter)

\* What the types say apart from the operations.
LEMMA ShownOK == OpsOK => PageFits
BY DEF OpsOK, PagesTypeOK, PageFits, CachesFit, Data

\* Shape, fit and count make the spinner's invariant.
LEMMA SpinnerFromParts ==
    ASSUME StillShaped, PageFits', SpinnerMatchesWork', count' \in Nat
    PROVE  SpinnerIInv'
BY DEF StillShaped, PageFits, CachesFit, SpinnerIInv, OpsOK, PagesTypeOK, Data

\* A page that is mounted shows nothing yet, and what is not for admins is not for others.
LEMMA MountShows ==
    ASSUME OpsOK, NEW p \in PageNames \ {"login"}, Mounts(p), isAdmin' \in BOOLEAN,
           p \in Guarded => isAdmin', UNCHANGED <<confirming, store, caches>>
    PROVE  PageFits'
<1>1. NoFilter \in Filter /\ NoFilter.captured = "none" /\ ~isValidFilter(NoFilter)
  BY DEF NoFilter, Filter, Searches, isValidFilter
<1>2. suspect' \in BOOLEAN
  BY MountsEach
<1>3. page' = p /\ list' = "none" /\ found' = "none" /\ filter' = NoFilter
  BY DEF Mounts
<1>4. ~isValidFilter(filter)'
  BY <1>1, <1>3 DEF isValidFilter
<1> QED
  BY <1>1, <1>2, <1>3, <1>4, ShownOK DEF PageFits, CachesFit, caches, Data

\* A change keeps the store's type.
LEMMA ChangedIsStore ==
    ASSUME store \in Store, NEW kind \in Kinds \ Loads, NEW want \in BOOLEAN
    PROVE  Changed(kind, want) \in Store
<1>1. store.todo \in Todo /\ store.account \in Account /\ store.video \in {"none", "video"}
  BY DEF Store
<1>2. CASE kind \in TodoChanges
  <2>1. ChangedTodo(kind, want) \in Todo
    BY <1>1 DEF ChangedTodo, Todo
  <2>2. Changed(kind, want) = [store EXCEPT !.todo = ChangedTodo(kind, want)]
    BY <1>2 DEF Changed, TodoChanges, UserChanges
  <2> QED
    BY <2>1, <2>2 DEF Store
<1>3. CASE kind \in UserChanges
  <2>1. ChangedAccount(kind) \in Account
    BY <1>1, <1>3 DEF ChangedAccount, UserChanges, Account, Promoted, Demoted, Restored
  <2>2. Changed(kind, want) = [store EXCEPT !.account = ChangedAccount(kind)]
    BY <1>3 DEF Changed, UserChanges, TodoChanges
  <2> QED
    BY <2>1, <2>2 DEF Store
<1>4. CASE kind \in VideoChanges
  BY <1>4 DEF Changed, Store, VideoChanges, TodoChanges, UserChanges
<1> QED
  BY <1>2, <1>3, <1>4 DEF Kinds

\* It empties the caches of the full lists, or they are overtaken.
LEMMA ChangesFit ==
    ASSUME PageFits, NEW kind \in Kinds \ Loads, NEW want \in BOOLEAN, Changes(kind, want)
    PROVE  store' = Changed(kind, want) /\ store' \in Store /\ CachesFit'
<1>1. store' = Changed(kind, want) /\ store' \in Store /\ CachesFit
  BY ChangedIsStore DEF Changes, PageFits
<1>2. CASE UNCHANGED caches
  BY <1>1, <1>2 DEF CachesFit, caches
<1>3. ASSUME NEW late \in BOOLEAN,
             overtaken' = late /\ older' = IF late THEN UserLists ELSE {"search"}
      PROVE  CachesFit'
  <2>1. CASE late
    BY <1>3, <2>1 DEF CachesFit, UserLists
  <2>2. CASE ~late
    BY <1>3, <2>2 DEF CachesFit, UserLists
  <2> QED
    BY <2>1, <2>2
<1>4. CASE store'.account = store.account
  BY <1>1, <1>2, <1>4 DEF Changes
<1>5. CASE store'.account # store.account
  <2>1. \E late \in BOOLEAN :
            overtaken' = late /\ older' = IF late THEN UserLists ELSE {"search"}
    BY <1>5 DEF Changes
  <2> QED
    BY <1>1, <1>3, <2>1
<1> QED
  BY <1>4, <1>5

(* What an answer leaves of the page: the data stay data, the rest stays.  *)
LEMMA AnswerShows ==
    ASSUME OpsOK, NEW s \in Slots, Answered(s)
    PROVE  PageFits' /\ UNCHANGED <<page, isAdmin, filter, confirming>>
<1>1. PageFits /\ ops[s] \in Op /\ Shaped(ops[s])
  BY ShownOK DEF OpsOK
<1>2. CASE Served(s)
  <2>1. ops[s].kind \in Kinds \ Loads /\ ops[s].want \in BOOLEAN
    BY <1>1, <1>2 DEF Served, Shaped, Op
  <2>2. store' \in Store /\ CachesFit'
    BY <1>1, <1>2, <2>1, ChangesFit DEF Served
  <2> QED
    BY <1>1, <1>2, <2>2 DEF Served, PageFits, isValidFilter
<1>3. CASE TodoChanged(s)
  BY <1>1, <1>3 DEF TodoChanged, PageFits, CachesFit, caches, isValidFilter
<1>4. CASE UserChanged(s)
  <2>1. Patched(ops[s].kind) \in Data
    BY <1>1, <1>4 DEF UserChanged, UserChanges, Patched, PageFits, Data, Account, Todo,
                      Promoted, Demoted
  <2> QED
    BY <1>1, <1>4, <2>1 DEF UserChanged, PageFits, CachesFit, caches, isValidFilter
<1>5. CASE UserRestored(s)
  <2>1. list' \in Data /\ found' \in Data
    BY <1>1, <1>5 DEF UserRestored, PageFits, Data
  <2> QED
    BY <1>1, <1>5, <2>1 DEF UserRestored, PageFits, CachesFit, caches, isValidFilter
<1>6. CASE VideoChanged(s)
  BY <1>1, <1>6 DEF VideoChanged, PageFits, CachesFit, caches, isValidFilter
<1>7. CASE ListRead(s)
  BY <1>1, <1>7 DEF ListRead, PageFits, CachesFit, caches, isValidFilter
<1>8. CASE ListShown(s)
  <2>1. ops[s].data \in Data
    BY <1>1 DEF Op, Data
  <2>2. list' \in Data /\ found' \in Data /\ suspect' \in BOOLEAN
    BY <1>1, <1>8, <2>1 DEF ListShown, PageFits
  <2> QED
    BY <1>1, <1>8, <2>2 DEF ListShown, PageFits, CachesFit, caches, isValidFilter
<1>9. CASE StatsLoaded(s)
  BY <1>1, <1>9 DEF StatsLoaded, PageFits, CachesFit, caches, isValidFilter
<1>10. CASE CallFails(s)
  BY <1>1, <1>10 DEF CallFails, PageFits, CachesFit, caches, isValidFilter
<1>11. CASE ListCached(s)
  BY <1>1, <1>11 DEF ListCached, PageFits, CachesFit, caches, isValidFilter
<1> QED
  BY <1>2, <1>3, <1>4, <1>5, <1>6, <1>7, <1>8, <1>9, <1>10, <1>11 DEF Answered

(* Every answer reaches one operation; one of a cache tells that none was  *)
(* alone.                                                                  *)
LEMMA AnswerEach ==
    ASSUME OpsOK, NEW s \in Slots, Answered(s), ~ListCached(s)
    PROVE  OneMoves(s) /\ StillShaped
<1>1. CASE UserChanged(s)
  BY <1>1, ReturnsEach DEF UserChanged, Working
<1>2. CASE ListShown(s)
  BY <1>2, GoesOnEach DEF ListShown
<1>3. CASE StatsLoaded(s)
  BY <1>3, ReturnsEach DEF StatsLoaded, Working
<1> QED
  BY <1>1, <1>2, <1>3, ServedEach, TodoChangedEach, UserRestoredEach, VideoChangedEach,
     ListReadEach, CallFailsEach DEF Answered

\* Operations that stay what they are keep the spinner.
LEMMA SpinnerStays ==
    ASSUME SpinnerMatchesWork, count \in Nat, UNCHANGED <<count, confirming>>,
           \A s \in Slots : /\ (ops'[s].pc = "idle") <=> (ops[s].pc = "idle")
                            /\ ops'[s].kind = ops[s].kind
    PROVE  SpinnerMatchesWork' /\ count' \in Nat
<1>1. Spinning' = Spinning
  BY DEF Spinning
<1> QED
  BY <1>1 DEF SpinnerMatchesWork, Spinning, Waiting

\* A list from a cache is one from before a change: nothing was alone.
LEMMA ListCachedEach ==
    ASSUME OpsOK, NEW s \in Slots, ListCached(s)
    PROVE  /\ StillShaped /\ suspect'
           /\ \A t \in Slots :
                /\ (ops'[t].pc = "idle") <=> (ops[t].pc = "idle")
                /\ ops'[t].kind = ops[t].kind
                /\ ops'[t].here = ops[t].here /\ ~ops'[t].alone
<1> DEFINE known == CachedAs(ops[s].filter) = "search" \/ overtaken
<1>1. ops[s].pc = "fetch" /\ ops[s].kind = "loadUsers" /\ CachedAs(ops[s].filter) \in older
  BY DEF ListCached
<1>2. known
  BY <1>1 DEF CachedAs, OpsOK
<1>3. suspect'
  BY <1>2 DEF ListCached
<1>4. PICK data \in OlderList(ops[s].filter) :
        ops' = [t \in Slots |->
                   IF t = s
                   THEN [ops[t] EXCEPT !.pc = "answer", !.data = data, !.alone = @ /\ ~known]
                   ELSE [ops[t] EXCEPT !.alone = @ /\ ~known]]
  BY DEF ListCached
<1>5. data \in Todo \cup Account \cup {"none", "video"}
  BY DEF OlderList
<1>6. \A t \in Slots : (ops[t].alone /\ ~known) = FALSE
  BY <1>2
<1> HIDE DEF known
<1>7. \A t \in Slots : ops[t] \in Op /\ Shaped(ops[t])
  BY DEF OpsOK
<1> DEFINE op == ops[s]
           r == [op EXCEPT !.pc = "answer", !.data = data, !.alone = FALSE]
<1>8. op \in Op /\ op.pc = "fetch" /\ op.kind = "loadUsers"
  BY <1>1, <1>7
<1>9. ops'[s] = r
  BY <1>4, <1>6
<1> HIDE DEF op
<1>10. /\ r \in Op /\ r.pc = "answer" /\ r.kind = op.kind /\ r.here = op.here /\ ~r.alone
  BY <1>5, <1>8 DEF Op
<1> HIDE DEF r
<1>11. Shaped(r)
  BY <1>8, <1>10 DEF Shaped, Loads
<1>12. ASSUME NEW t \in Slots \ {s}
       PROVE  /\ ops'[t] \in Op /\ Shaped(ops'[t])
              /\ ops'[t].pc = ops[t].pc /\ ops'[t].kind = ops[t].kind
              /\ ops'[t].here = ops[t].here /\ ~ops'[t].alone
  <2>1. ops'[t] = WithAlone(ops[t], FALSE)
    BY <1>4, <1>6 DEF WithAlone
  <2>2. /\ ops'[t] \in Op /\ Shaped(ops'[t])
        /\ ~ops'[t].alone /\ SameOp(ops'[t], ops[t])
    BY <1>7, <2>1, SameButAlone, Zenon
  <2> QED
    BY <2>2 DEF SameOp
<1>13. ops' \in [Slots -> Op] /\ \A t \in Slots : Shaped(ops'[t])
  <2>1. \A t \in Slots : ops'[t] \in Op /\ Shaped(ops'[t])
    BY <1>9, <1>10, <1>11, <1>12
  <2>2. ops' = [t \in Slots |-> ops'[t]]
    BY <1>4
  <2> QED
    BY <2>1, <2>2
<1>14. /\ ops'[s].pc # "idle" /\ ops[s].pc # "idle" /\ ops'[s].kind = ops[s].kind
       /\ ops'[s].here = ops[s].here /\ ~ops'[s].alone
  BY <1>8, <1>9, <1>10 DEF op
<1> QED
  BY <1>3, <1>12, <1>13, <1>14 DEF StillShaped

\* The answer of an operation hides what it showed.
LEMMA SpinnerAnswered ==
    ASSUME SpinnerIInv, NEW s \in Slots, Answered(s)
    PROVE  SpinnerIInv'
<1>1. OpsOK /\ SpinnerMatchesWork /\ count \in Nat
  BY DEF SpinnerIInv, OpsOK, PagesTypeOK
<1>2. PageFits' /\ confirming' = confirming
  BY <1>1, AnswerShows
<1>3. CASE ListCached(s)
  <2>1. StillShaped
    BY <1>1, <1>3, ListCachedEach
  <2>4. \A t \in Slots : /\ (ops'[t].pc = "idle") <=> (ops[t].pc = "idle")
                         /\ ops'[t].kind = ops[t].kind
    BY <1>1, <1>3, ListCachedEach
  <2>2. UNCHANGED <<count, confirming>>
    BY <1>3 DEF ListCached
  <2>3. SpinnerMatchesWork' /\ count' \in Nat
    BY <1>1, <2>4, <2>2, SpinnerStays
  <2> QED
    BY <1>2, <2>1, <2>3, SpinnerFromParts
<1>4. CASE ~ListCached(s)
  BY <1>1, <1>2, <1>4, AnswerEach, SpinnerMoves, SpinnerFromParts
<1> QED
  BY <1>3, <1>4

(* A click begins one operation, a filter of todos one load.               *)
ClickOp(kind) == [Loading(kind, filter) EXCEPT
                    !.pc = "send", !.want = (kind = "toggleTodo" /\ list = "active")]

\* A click begins one operation and counts its spinner.
LEMMA ClickEach ==
    ASSUME OpsOK, NEW s \in Slots, NEW kind \in Kinds \ Loads, Click(s, kind)
    PROVE  /\ StillShaped /\ Begun({s}, filter') /\ GoOn({s})
           /\ ops'[s].kind = kind /\ ops'[s].pc = "send"
           /\ \A t \in Slots \ {s} : ops'[t].here = ops[t].here
           /\ suspect' = (suspect \/ Busy)
           /\ count' = Shows({ops'[s].kind})
           /\ UNCHANGED <<page, isAdmin, list, found, filter, confirming, store, caches>>
<1> DEFINE op == ClickOp(kind)
<1>1. filter \in Filter
  BY ShownOK DEF PageFits
<1>2. Loading(kind, filter) \in Op /\ Loading(kind, filter).here
      /\ Loading(kind, filter).kind = kind /\ Loading(kind, filter).filter = filter
  BY <1>1, LoadingOp
<1>3. op \in Op /\ op.pc = "send" /\ op.kind = kind /\ op.filter = filter /\ op.here
  BY <1>2 DEF ClickOp, Op
<1>4. Begin(s, op) /\ UNCHANGED <<page, isAdmin, list, found, filter, confirming, store, caches>>
  BY DEF Click, ClickOp
<1> HIDE DEF op
<1>5. Shaped(op)
  BY <1>3 DEF Shaped
<1> QED
  BY <1>3, <1>4, <1>5, BeginEach

\* A filter begins one fetch and counts its spinner.
LEMMA FilterTodosEach ==
    ASSUME OpsOK, NEW s \in Slots, NEW f \in {"all", "active", "completed"}, FilterTodos(s, f)
    PROVE  /\ StillShaped /\ Begun({s}, filter') /\ GoOn({s})
           /\ ops'[s].kind = "fetchTodos" /\ ops'[s].pc = "fetch"
           /\ \A t \in Slots \ {s} : ops'[t].here = ops[t].here
           /\ suspect' = (suspect \/ Busy)
           /\ count' = Shows({ops'[s].kind})
           /\ filter' \in Filter /\ filter' = [filter EXCEPT !.todo = f] /\ page = "todos"
           /\ UNCHANGED <<page, isAdmin, list, found, confirming, store, caches>>
<1>1. filter \in Filter
  BY ShownOK DEF PageFits
<1>2. filter' = [filter EXCEPT !.todo = f] /\ filter' \in Filter
  BY <1>1 DEF FilterTodos, Filter
<1>3. "fetchTodos" \in Kinds /\ "fetchTodos" \in Loads
  BY DEF Kinds, Loads
<1> DEFINE op == Loading("fetchTodos", filter')
<1>4. op \in Op /\ op.pc = "fetch" /\ op.kind = "fetchTodos" /\ op.filter = filter' /\ op.here
  BY <1>2, <1>3, LoadingOp
<1>5. Begin(s, op) /\ page = "todos" /\ UNCHANGED <<page, isAdmin, list, found, confirming, store, caches>>
  BY DEF FilterTodos
<1> HIDE DEF op
<1>6. Shaped(op)
  BY <1>3, <1>4 DEF Shaped
<1> QED
  BY <1>2, <1>4, <1>5, <1>6, BeginEach


\* A search, and the switch, load the users anew.
LEMMA UsersFiltered ==
    ASSUME OpsOK, (\E text \in Searches : SearchUsers(text)) \/ ShowDeleted
    PROVE  \E f \in Filter :
            /\ FilterUsers(f)
            /\ f.search # filter.search \/ f.deletedOnly # filter.deletedOnly
<1>1. filter \in Filter
  BY ShownOK DEF PageFits
<1>2. ASSUME NEW text \in Searches, SearchUsers(text)
      PROVE  \E f \in Filter :
              /\ FilterUsers(f)
              /\ f.search # filter.search \/ f.deletedOnly # filter.deletedOnly
  <2> DEFINE f == [filter EXCEPT !.search = text]
  <2>1. f \in Filter /\ f.search = text
    BY <1>1 DEF Filter
  <2>2. FilterUsers(f) /\ text # filter.search
    BY <1>2 DEF SearchUsers
  <2> HIDE DEF f
  <2> QED
    BY <2>1, <2>2
<1>3. ASSUME ShowDeleted
      PROVE  \E f \in Filter :
              /\ FilterUsers(f)
              /\ f.search # filter.search \/ f.deletedOnly # filter.deletedOnly
  <2> DEFINE f == [filter EXCEPT !.deletedOnly = ~@]
  <2>1. f \in Filter /\ f.deletedOnly # filter.deletedOnly
    BY <1>1 DEF Filter
  <2>2. FilterUsers(f)
    BY <1>3 DEF ShowDeleted
  <2> HIDE DEF f
  <2> QED
    BY <2>1, <2>2
<1> QED
  BY <1>2, <1>3

\* A change by others leaves every operation where it is, but not alone.
LEMMA OthersEach ==
    ASSUME OpsOK, NEW kind \in Kinds \ Loads, NEW want \in BOOLEAN, OthersChange(kind, want)
    PROVE  /\ StillShaped /\ PageFits'
           /\ \A s \in Slots :
                /\ ops'[s].pc = ops[s].pc /\ ops'[s].kind = ops[s].kind
                /\ ops'[s].here = ops[s].here /\ ~ops'[s].alone
           /\ suspect' /\ UNCHANGED <<page, isAdmin, list, found, filter, count, confirming>>
<1>1. PageFits /\ ops \in [Slots -> Op] /\ \A s \in Slots : ops[s] \in Op /\ Shaped(ops[s])
  BY ShownOK DEF OpsOK
<1>2. /\ Changes(kind, want) /\ suspect' = TRUE
      /\ ops' = [s \in Slots |-> [ops[s] EXCEPT !.alone = FALSE]]
      /\ UNCHANGED <<page, isAdmin, list, found, filter, count, confirming>>
  BY DEF OthersChange
<1>3. ASSUME NEW s \in Slots
      PROVE  /\ ops'[s] \in Op /\ Shaped(ops'[s])
             /\ ops'[s].pc = ops[s].pc /\ ops'[s].kind = ops[s].kind
             /\ ops'[s].here = ops[s].here /\ ~ops'[s].alone
  <2>1. ops'[s] = WithAlone(ops[s], FALSE)
    BY <1>2 DEF WithAlone
  <2>2. /\ ops'[s] \in Op /\ Shaped(ops'[s])
        /\ ~ops'[s].alone /\ SameOp(ops'[s], ops[s])
    BY <1>1, <2>1, SameButAlone, Zenon
  <2> QED
    BY <2>2 DEF SameOp
<1>4. ops' \in [Slots -> Op]
  BY <1>2, <1>3
<1>5. store' \in Store /\ CachesFit'
  BY <1>1, <1>2, ChangesFit
<1>6. PageFits'
  BY <1>1, <1>2, <1>5 DEF PageFits, isValidFilter
<1> QED
  BY <1>2, <1>3, <1>4, <1>6 DEF StillShaped

\* A page is mounted when somebody enters and by a navigation.
LEMMA MountedBy ==
    ASSUME OpsOK,
           \/ \E admin \in BOOLEAN, p \in PageNames : Enter(admin, p)
           \/ \E p \in PageNames : Navigate(p)
    PROVE  \E p \in PageNames \ {"login"} :
             Mounts(p) /\ PageFits' /\ confirming' = confirming
<1>1. PageFits
  BY ShownOK
<1>2. ASSUME NEW admin \in BOOLEAN, NEW p \in PageNames \ {"login"},
             isAdmin' = admin, Mounts(Routed(p, admin)), UNCHANGED <<confirming, store, caches>>,
             Routed(p, admin) # "login"
      PROVE  \E q \in PageNames \ {"login"} :
               Mounts(q) /\ PageFits' /\ confirming' = confirming
  <2> DEFINE q == Routed(p, admin)
  <2>1. q \in PageNames \ {"login"} /\ (q \in Guarded => isAdmin') /\ isAdmin' \in BOOLEAN
    BY <1>2 DEF Routed, PageNames, Guarded
  <2>2. Mounts(q)
    BY <1>2
  <2> HIDE DEF q
  <2> QED
    BY <1>2, <2>1, <2>2, MountShows
<1>3. ASSUME NEW admin \in BOOLEAN, NEW p \in PageNames, Enter(admin, p)
      PROVE  p # "login" /\ Routed(p, admin) # "login"
  BY <1>3 DEF Enter, Routed
<1>4. ASSUME NEW p \in PageNames, Navigate(p)
      PROVE  p # "login" /\ Routed(p, isAdmin) # "login" /\ isAdmin \in BOOLEAN
  BY <1>1, <1>4 DEF Navigate, Routed, Guarded, PageFits
<1> QED
  BY <1>2, <1>3, <1>4 DEF Enter, Navigate

\* Without a page nothing is shown.
LEMMA LoginFits ==
    ASSUME OpsOK, LoginShown, UNCHANGED <<store, caches, suspect>>, confirming' \in BOOLEAN
    PROVE  PageFits'
<1>1. NoFilter \in Filter /\ NoFilter.captured = "none" /\ NoFilter.search = "none"
  BY DEF NoFilter, Filter, Searches
<1> QED
  BY <1>1, ShownOK DEF LoginShown, PageFits, CachesFit, caches, Data, PageNames, Guarded,
     isValidFilter

\* Logging out leaves the page; what is under way goes on for nobody.
LEMMA LeavesEach ==
    ASSUME OpsOK, LoginShown, ops' = Left, UNCHANGED <<store, caches, suspect>>,
           confirming' \in BOOLEAN
    PROVE  /\ StillShaped /\ PageFits'
           /\ \A s \in Slots :
                /\ ops'[s].pc = ops[s].pc /\ ops'[s].kind = ops[s].kind
                /\ ~ops'[s].here /\ ops'[s].alone = ops[s].alone
           /\ page' = "login" /\ suspect' = suspect
<1>1. \A s \in Slots : /\ ops'[s] \in Op /\ Shaped(ops'[s])
                       /\ ops'[s].pc = ops[s].pc /\ ops'[s].kind = ops[s].kind
                       /\ ~ops'[s].here /\ ops'[s].alone = ops[s].alone
  BY LeftOp
<1>2. ops' \in [Slots -> Op]
  <2>1. ops' = [s \in Slots |-> ops'[s]]
    BY DEF Left
  <2> QED
    BY <1>1, <2>1
<1> QED
  BY <1>1, <1>2, LoginFits DEF LoginShown, StillShaped

\* The modal shows the spinner once more, and hides it again: it finds its own.
LEMMA SpinnerConfirms ==
    ASSUME SpinnerIInv, ModalConfirms
    PROVE  SpinnerMatchesWork' /\ count' \in Nat
<1>1. /\ count = Cardinality(Spinning) + Waiting /\ Cardinality(Spinning) \in Nat
  BY SpinningCounts DEF SpinnerIInv
<1>2. /\ Waiting = 0 /\ Waiting' = 1 /\ count' = count + 1 /\ Spinning' = Spinning
  BY DEF ModalConfirms, Waiting, Spinning
<1>3. count' = Cardinality(Spinning') + Waiting' /\ count' \in Nat
  BY <1>1, <1>2
<1> QED
  BY <1>3 DEF SpinnerMatchesWork, Spinning, Waiting

LEMMA SpinnerReturns ==
    ASSUME SpinnerIInv, NEW refreshed \in BOOLEAN, ModalReturns(refreshed)
    PROVE  SpinnerMatchesWork' /\ count' \in Nat
<1>1. /\ count = Cardinality(Spinning) + Waiting /\ Cardinality(Spinning) \in Nat
  BY SpinningCounts DEF SpinnerIInv
<1>2. Waiting = 1 /\ Waiting' = 0 /\ count' = IF count > 0 THEN count - 1 ELSE 0
  BY DEF ModalReturns, Waiting
<1>3. Spinning' = Spinning
  <2>1. ops' = ops \/ ops' = Left
    BY DEF ModalReturns
  <2> QED
    BY <2>1, LeftOp DEF SpinnerIInv, Spinning
<1>4. count' = Cardinality(Spinning') + Waiting' /\ count' \in Nat
  BY <1>1, <1>2, <1>3
<1> QED
  BY <1>4 DEF SpinnerMatchesWork, Spinning, Waiting

\* A page that is loaded again has neither operations nor a spinner.
LEMMA ReloadedEach ==
    ASSUME OpsOK, PageReloaded
    PROVE  /\ StillShaped /\ PageFits' /\ page' = "login" /\ suspect' = suspect
           /\ \A s \in Slots : ops'[s] = NoOp
           /\ SpinnerMatchesWork' /\ count' \in Nat
<1>1. /\ LoginShown /\ ops' = [s \in Slots |-> NoOp] /\ count' = 0 /\ ~confirming'
      /\ confirming' \in BOOLEAN /\ UNCHANGED <<store, caches, suspect>>
  BY DEF PageReloaded
<1>2. StillShaped /\ \A s \in Slots : ops'[s] = NoOp
  BY <1>1, NoOpIs DEF StillShaped
<1>3. PageFits'
  BY <1>1, LoginFits
<1>4. {s \in Slots : ops'[s].pc # "idle" /\ Spins(ops'[s].kind)} = {}
  BY <1>2, NoOpIs
<1>5. SpinnerMatchesWork'
  BY <1>1, <1>4, FS_EmptySet DEF SpinnerMatchesWork
<1> QED
  BY <1>1, <1>2, <1>3, <1>5 DEF LoginShown

(* Every step of the pages keeps the types and the spinner.                *)
LEMMA SpinnerStep == SpinnerIInv /\ [PagesNext]_pagesVars => SpinnerIInv'
<1> SUFFICES ASSUME SpinnerIInv, [PagesNext]_pagesVars PROVE SpinnerIInv'
  OBVIOUS
<1>0. OpsOK /\ SpinnerMatchesWork /\ PageFits /\ count \in Nat
  BY ShownOK DEF SpinnerIInv, OpsOK, PagesTypeOK
<1>1. CASE \/ \E admin \in BOOLEAN, p \in PageNames : Enter(admin, p)
           \/ \E p \in PageNames : Navigate(p)
  <2>1. PICK p \in PageNames \ {"login"} :
          Mounts(p) /\ PageFits' /\ confirming' = confirming
    BY <1>0, <1>1, MountedBy
  <2>2. StillShaped
    BY <1>0, <2>1, MountsEach
  <2> QED
    BY <1>0, <2>1, <2>2, SpinnerMounts, SpinnerFromParts
<1>2. CASE Logout
  <2>1. LoginShown /\ ops' = Left /\ UNCHANGED <<count, confirming, store, caches, suspect>>
    BY <1>2 DEF Logout
  <2>2. /\ StillShaped /\ PageFits'
        /\ \A s \in Slots : ops'[s].pc = ops[s].pc /\ ops'[s].kind = ops[s].kind
    BY <1>0, <2>1, LeavesEach DEF PageFits
  <2> QED
    BY <1>0, <2>1, <2>2, SpinnerStays, SpinnerFromParts
<1>3. CASE \E s \in Slots, f \in {"all", "active", "completed"} : FilterTodos(s, f)
  <2> PICK s \in Slots, f \in {"all", "active", "completed"} : FilterTodos(s, f)
    BY <1>3
  <2>1. /\ StillShaped /\ Begun({s}, filter') /\ GoOn({s})
        /\ suspect' = (suspect \/ Busy)
        /\ count' = Shows({ops'[s].kind})
        /\ filter' \in Filter /\ filter' = [filter EXCEPT !.todo = f] /\ page = "todos"
        /\ UNCHANGED <<page, isAdmin, list, found, confirming, store, caches>>
    BY <1>0, FilterTodosEach
  <2>2. filter'.search = filter.search /\ filter'.captured = filter.captured
    BY <1>0, <2>1 DEF PageFits, Filter
  <2>3. PageFits'
    BY <1>0, <2>1, <2>2 DEF PageFits, CachesFit, caches, isValidFilter
  <2>4. ops'[s].filter = filter'
    BY <2>1 DEF Begun
  <2> QED
    BY <1>0, <2>1, <2>3, <2>4, SpinnerBegins, SpinnerFromParts
<1>4. CASE (\E text \in Searches : SearchUsers(text)) \/ ShowDeleted
  <2>1. PICK f \in Filter : /\ FilterUsers(f)
                            /\ f.search # filter.search \/ f.deletedOnly # filter.deletedOnly
    BY <1>0, <1>4, UsersFiltered
  <2>2. /\ filter' \in Filter
        /\ (filter'.captured = "none") <=> ~isValidFilter(filter')
        /\ \E N \in SUBSET Slots :
                /\ N # {} /\ count' = count + Cardinality(N)
                /\ StillShaped /\ Begun(N, filter') /\ GoOn(N)
                /\ \A s \in N : ops'[s].kind = "loadUsers" /\ ops'[s].pc = "fetch"
                /\ \A t \in Slots \ N : ops'[t].here = ops[t].here
                /\ suspect' = (suspect \/ Busy)
    BY <1>0, <2>1, FilterUsersEach
  <2>3. PICK N \in SUBSET Slots :
                /\ N # {} /\ count' = count + Cardinality(N)
                /\ StillShaped /\ Begun(N, filter') /\ GoOn(N)
                /\ \A s \in N : ops'[s].kind = "loadUsers" /\ ops'[s].pc = "fetch"
                /\ \A t \in Slots \ N : ops'[t].here = ops[t].here
                /\ suspect' = (suspect \/ Busy)
    BY <2>2
  <2>4. page = "admin" /\ UNCHANGED <<page, isAdmin, list, found, confirming, store, caches>>
    BY <2>1 DEF FilterUsers
  <2>5. PageFits'
    <3>1. CachesFit'
      BY <1>0, <2>4 DEF PageFits, CachesFit, caches
    <3> QED
      BY <1>0, <2>2, <2>3, <2>4, <3>1 DEF PageFits, isValidFilter
  <2>6. {s \in N : Spins(ops'[s].kind)} = N
    BY <2>3 DEF Spins
  <2>7. \A s \in N : ~Working(s) /\ ops'[s].pc # "idle"
    BY <2>3 DEF Begun
  <2>8. count' = count + Cardinality({s \in N : Spins(ops'[s].kind)})
    BY <2>3, <2>6
  <2>9. SpinnerMatchesWork' /\ count' \in Nat
    BY <1>0, <2>3, <2>4, <2>7, <2>8, SpinnerGrows
  <2> QED
    BY <2>3, <2>5, <2>9, SpinnerFromParts
<1>5. CASE \E s \in Slots, kind \in Kinds \ Loads : Click(s, kind)
  <2> PICK s \in Slots, kind \in Kinds \ Loads : Click(s, kind)
    BY <1>5
  <2>1. /\ StillShaped /\ Begun({s}, filter') /\ GoOn({s})
        /\ suspect' = (suspect \/ Busy)
        /\ count' = Shows({ops'[s].kind})
        /\ UNCHANGED <<page, isAdmin, list, found, filter, confirming, store, caches>>
    BY <1>0, ClickEach
  <2>2. PageFits'
    BY <1>0, <2>1 DEF PageFits, CachesFit, caches, isValidFilter
  <2>3. ops'[s].filter = filter'
    BY <2>1 DEF Begun
  <2> QED
    BY <1>0, <2>1, <2>2, <2>3, SpinnerBegins, SpinnerFromParts
<1>6. CASE \E s \in Slots : Answered(s)
  BY <1>6, SpinnerAnswered
<1>7. CASE \E kind \in Kinds \ Loads, want \in BOOLEAN : OthersChange(kind, want)
  BY <1>0, <1>7, OthersEach, SpinnerStays, SpinnerFromParts
<1>8. CASE UNCHANGED pagesVars
  BY <1>8 DEF pagesVars, caches, SpinnerIInv, OpsOK, PagesTypeOK, SpinnerMatchesWork,
              isValidFilter
<1>9. CASE PageReloaded
  BY <1>0, <1>9, ReloadedEach, SpinnerFromParts
<1>10. CASE ModalConfirms
  <2>1. PageFits' /\ StillShaped
    BY <1>0, <1>10 DEF ModalConfirms, PageFits, CachesFit, caches, isValidFilter, OpsOK, StillShaped
  <2> QED
    BY <1>10, <2>1, SpinnerConfirms, SpinnerFromParts
<1>11. CASE \E refreshed \in BOOLEAN : ModalReturns(refreshed)
  <2> PICK refreshed \in BOOLEAN : ModalReturns(refreshed)
    BY <1>11
  <2>1. ~confirming' /\ confirming' \in BOOLEAN /\ UNCHANGED <<store, caches, suspect>>
    BY DEF ModalReturns
  <2>2. CASE LoginShown /\ ops' = Left
    BY <1>0, <2>1, <2>2, LeavesEach, SpinnerReturns, SpinnerFromParts
  <2>3. CASE UNCHANGED <<page, isAdmin, list, found, filter, ops>>
    <3>1. PageFits' /\ StillShaped
      BY <1>0, <2>1, <2>3 DEF PageFits, CachesFit, caches, isValidFilter, OpsOK, StillShaped
    <3> QED
      BY <3>1, SpinnerReturns, SpinnerFromParts
  <2> QED
    BY <2>2, <2>3 DEF ModalReturns
<1>12. CASE \E lists \in UserLists : CacheExpires(lists)
  <2> PICK lists \in UserLists : CacheExpires(lists)
    BY <1>12
  <2>1. PageFits' /\ StillShaped
    BY <1>0 DEF CacheExpires, PageFits, CachesFit, isValidFilter, OpsOK, StillShaped
  <2>2. UNCHANGED <<count, confirming, ops>>
    BY DEF CacheExpires
  <2> QED
    BY <1>0, <2>1, <2>2, SpinnerStays, SpinnerFromParts
<1> QED
  BY <1>1, <1>2, <1>3, <1>4, <1>5, <1>6, <1>7, <1>8, <1>9, <1>10, <1>11, <1>12
     DEF PagesNext, PagesStep, SessionStep, PageStep

\* At first nothing is under way.
LEMMA SpinnerInit == PagesInit => SpinnerIInv
<1> SUFFICES ASSUME PagesInit PROVE SpinnerIInv
  OBVIOUS
<1>1. NoOp \in Op /\ Shaped(NoOp) /\ NoOp.pc = "idle"
  BY DEF NoOp, Op, NoFilter, Filter, Searches, Kinds, Loads, Shaped
<1>2. ops \in [Slots -> Op] /\ \A s \in Slots : ops[s] = NoOp /\ Shaped(ops[s])
  BY <1>1 DEF PagesInit
<1>3. NoFilter \in Filter /\ NoFilter.captured = "none" /\ ~isValidFilter(NoFilter)
  BY DEF NoFilter, Filter, Searches, isValidFilter
<1>4. store \in Store
  BY DEF PagesInit, Store, Todo, Account
<1>5. OpsOK
  BY <1>2, <1>3, <1>4 DEF PagesInit, OpsOK, PagesTypeOK, PageNames, Guarded, isValidFilter
<1>6. Spinning = {}
  BY <1>1, <1>2 DEF Spinning
<1>7. SpinnerMatchesWork
  <2>1. count = 0 /\ Waiting = 0
    BY DEF PagesInit, Waiting
  <2>2. Cardinality(Spinning) = 0
    BY <1>6, FS_EmptySet
  <2>3. count = Cardinality(Spinning) + Waiting
    BY <2>1, <2>2
  <2> QED
    BY <2>3, SpinningCounts
<1> QED
  BY <1>5, <1>7 DEF SpinnerIInv

(* The pages have the types they are meant to have, and an operation is at *)
(* an await that its handler has.                                          *)
THEOREM PagesTypeCorrect == PagesSpec => []PagesTypeOK
<1>1. SpinnerIInv => PagesTypeOK
  BY DEF SpinnerIInv, OpsOK
<1> QED
  BY <1>1, SpinnerInit, SpinnerStep, PTL DEF PagesSpec

(* The spinner turns exactly while an operation that showed it is under    *)
(* way or the modal waits for its refresh, whatever pages are left         *)
(* meanwhile and however operations end (LoadingProvider.tsx:17-20,        *)
(* TokenRefreshModal.tsx:16-26).                                           *)
THEOREM SpinnerNeverSticks == PagesSpec => []SpinnerMatchesWork
<1>1. SpinnerIInv => SpinnerMatchesWork
  BY DEF SpinnerIInv
<1> QED
  BY <1>1, SpinnerInit, SpinnerStep, PTL DEF PagesSpec

-----------------------------------------------------------------------------
(* The pages: what they show.  The page of an operation.                   *)
PageOf(kind) ==
    CASE kind \in TodoChanges \cup {"fetchTodos"} -> "todos"
      [] kind \in UserChanges \cup {"loadUsers"} -> "admin"
      [] kind \in {"loadAppDetails", "loadStats"} -> "dashboard"
      [] kind \in VideoChanges \cup {"fetchVideoList"} -> "stream"

\* Operations that are alone are one, or the loads that began together.
AloneTogether ==
    \A s, t \in Slots : s # t /\ ops[s].alone /\ Working(s) /\ Working(t) =>
        /\ ops[t].alone /\ ops[t].here = ops[s].here
        /\ ops[s].kind \in Loads

\* An operation whose page is shown is one of that page.
HereIsPage == \A s \in Slots : Working(s) /\ ops[s].here => page = PageOf(ops[s].kind)

\* One that is alone goes by the filter of the page, and what it has read is still so.
AloneCurrent ==
    \A s \in Slots : Working(s) /\ ops[s].alone /\ ops[s].here =>
        /\ ops[s].filter = filter
        /\ ops[s].pc = "answer" => ops[s].data = Listed(ops[s].kind, ops[s].filter)

\* Without suspicion all operations are alone, and of the page shown; ...
Undisturbed ==
    ~suspect => \A s \in Slots : Working(s) =>
        /\ ops[s].alone
        /\ page # "login" => ops[s].here

\* ... if none has anything to fetch or to patch, the page is up to date; ...
AllDone == \A s \in Slots : Working(s) => ops[s].pc = "stats"
DoneCurrent ==
    ~suspect /\ page \in {"todos", "admin", "stream"} /\ AllDone => Displayed = PageList

\* ... and a change of a user begins on a page that is, and can be patched into it.
PatchRight ==
    ~suspect => \A s \in Slots : ops[s].here /\ ops[s].kind \in UserChanges =>
        /\ ops[s].pc = "send" =>
            /\ Displayed = Listed("loadUsers", filter)
            /\ ops[s].kind = "handleDelete" => Displayed = "user"
        /\ ops[s].pc = "sent" =>
            IF ops[s].kind = "handleRestore" THEN ~Deleted(store.account)
            ELSE ~isValidFilter(filter) => Patched(ops[s].kind) = Listed("loadUsers", filter)

Current ==
    /\ AloneTogether /\ HereIsPage /\ AloneCurrent
    /\ Undisturbed /\ DoneCurrent /\ PatchRight

PagesIInv == SpinnerIInv /\ Current


-----------------------------------------------------------------------------
(* Where operations belong.                                                *)
LEMMA PageOfKinds ==
    /\ \A kind \in TodoChanges \cup {"fetchTodos"} : PageOf(kind) = "todos"
    /\ \A kind \in UserChanges \cup {"loadUsers"} : PageOf(kind) = "admin"
    /\ \A kind \in {"loadAppDetails", "loadStats"} : PageOf(kind) = "dashboard"
    /\ \A kind \in VideoChanges \cup {"fetchVideoList"} : PageOf(kind) = "stream"
    /\ \A kind \in Loads \cup TodoChanges :
         /\ PageOf(kind) = "todos" => kind \in TodoChanges \cup {"fetchTodos"}
         /\ PageOf(kind) = "admin" => kind = "loadUsers"
         /\ PageOf(kind) = "stream" => kind = "fetchVideoList"
BY DEF PageOf, Loads, TodoChanges, UserChanges, VideoChanges

(* A step that begins the operations of N on the page shown.  They are     *)
(* alone if there were no others.                                          *)
BeginsHere(N) ==
    /\ N \in SUBSET Slots /\ N # {}
    /\ Begun(N, filter') /\ GoOn(N)
    /\ \A s \in N : PageOf(ops'[s].kind) = page'
    /\ \A s \in N, t \in N : s # t => ops'[s].kind \in Loads
    /\ \/ \A t \in Slots \ N : ~ops'[t].here
       \/ page' = page /\ \A t \in Slots \ N : ops'[t].here = ops[t].here
    /\ suspect' = (suspect \/ Busy)

\* Operations that begin on a page are alone together, or disturb each other.
LEMMA BegunCurrent ==
    ASSUME HereIsPage, StillShaped, NEW N, BeginsHere(N)
    PROVE  /\ AloneTogether' /\ HereIsPage' /\ AloneCurrent'
           /\ Undisturbed' /\ DoneCurrent'
           /\ ~suspect' => ~suspect /\ \A s \in Slots : ops'[s].pc # "idle" => s \in N
<1>1. \A s \in N : /\ s \in Slots /\ ~Working(s) /\ ops'[s].pc \in {"fetch", "send"}
                   /\ ops'[s].filter = filter' /\ ops'[s].here
                   /\ (ops'[s].alone <=> ~Busy) /\ PageOf(ops'[s].kind) = page'
  BY DEF BeginsHere, Begun
<1>2. \A t \in Slots \ N : /\ ops'[t].pc = ops[t].pc /\ ops'[t].kind = ops[t].kind
                           /\ ~ops'[t].alone
  BY DEF BeginsHere, GoOn
<1>3. ~Busy => \A s \in Slots : ops'[s].pc # "idle" => s \in N
  BY <1>2 DEF Busy
<1>4. AloneTogether'
  <2> SUFFICES ASSUME NEW s \in Slots, NEW t \in Slots, s # t, ops'[s].alone,
                      ops'[s].pc # "idle", ops'[t].pc # "idle"
               PROVE  ops'[t].alone /\ ops'[t].here = ops'[s].here /\ ops'[s].kind \in Loads
    BY DEF AloneTogether, Working
  <2>1. s \in N
    BY <1>2
  <2>2. ~Busy
    BY <1>1, <2>1
  <2>3. t \in N
    BY <1>3, <2>2
  <2>4. ops'[s].kind \in Loads
    BY <2>1, <2>3 DEF BeginsHere
  <2>5. ops'[t].alone /\ ops'[t].here /\ ops'[s].here
    BY <1>1, <2>1, <2>2, <2>3
  <2>6. ops'[t].here \in BOOLEAN /\ ops'[s].here \in BOOLEAN
    BY DEF StillShaped, Op
  <2> QED
    BY <2>4, <2>5, <2>6
<1>5. HereIsPage'
  BY <1>1, <1>2 DEF HereIsPage, BeginsHere, Working, PageOf
<1>6. AloneCurrent'
  BY <1>1, <1>2 DEF AloneCurrent, Working
<1>7. ~suspect' => ~suspect /\ ~Busy
  BY DEF BeginsHere
<1>8. Undisturbed'
  BY <1>1, <1>3, <1>7 DEF Undisturbed, Working
<1>9. DoneCurrent'
  BY <1>1 DEF DoneCurrent, AllDone, Working, BeginsHere
<1> QED
  BY <1>3, <1>4, <1>5, <1>6, <1>7, <1>8, <1>9


-----------------------------------------------------------------------------
(* An answer reaches one operation.  While nothing is suspect every        *)
(* operation is alone and of the page shown.                               *)
Calm == \A t \in Slots : Working(t) => ops[t].alone /\ (page # "login" => ops[t].here)

\* Beside a change there is then nothing else.
LEMMA NoneBeside ==
    ASSUME AloneTogether, Calm, NEW s \in Slots, Working(s), NEW t \in Slots \ {s}, Working(t)
    PROVE  ops[s].kind \in Loads /\ ops[t].kind \in Loads
BY DEF AloneTogether, Calm

\* A change becomes a load of the same page.
LEMMA BecomesPage ==
    ASSUME NEW kind \in Kinds, NEW next \in Becomes(kind)
    PROVE  /\ PageOf(next) = PageOf(kind)
           /\ next = kind \/ kind \notin Loads
           /\ next \in UserChanges \cup TodoChanges => next = kind
BY DEF Becomes, PageOf, Loads, TodoChanges, UserChanges, VideoChanges

\* An operation that moves on leaves alone who was alone.
LEMMA MovesTogether ==
    ASSUME OpsOK, AloneTogether, HereIsPage, NEW s \in Slots, OneMoves(s), page' = page
    PROVE  AloneTogether' /\ HereIsPage'
<1>1. /\ \A t \in Slots \ {s} : ops'[t] = ops[t]
      /\ ops'[s].pc # "idle" =>
           /\ ops'[s].kind \in Becomes(ops[s].kind)
           /\ ops'[s].alone = ops[s].alone /\ ops'[s].here = ops[s].here
      /\ ops[s].pc # "idle" /\ ops[s].kind \in Kinds
  BY DEF OneMoves, Working, NoOp, OpsOK, Op
<1>2. ops'[s].pc # "idle" => PageOf(ops'[s].kind) = PageOf(ops[s].kind)
                             /\ (ops[s].kind \in Loads => ops'[s].kind \in Loads)
  BY <1>1, BecomesPage
<1>3. AloneTogether'
  <2> SUFFICES ASSUME NEW a \in Slots, NEW b \in Slots, a # b, ops'[a].alone,
                      ops'[a].pc # "idle", ops'[b].pc # "idle"
               PROVE  ops'[b].alone /\ ops'[b].here = ops'[a].here /\ ops'[a].kind \in Loads
    BY DEF AloneTogether, Working
  <2>1. /\ ops[a].pc # "idle" /\ ops'[a].alone = ops[a].alone /\ ops'[a].here = ops[a].here
        /\ ops[a].kind \in Loads => ops'[a].kind \in Loads
    BY <1>1, <1>2
  <2>2. ops[b].pc # "idle" /\ ops'[b].alone = ops[b].alone /\ ops'[b].here = ops[b].here
    BY <1>1
  <2> QED
    BY <2>1, <2>2 DEF AloneTogether, Working
<1>4. HereIsPage'
  <2> SUFFICES ASSUME NEW a \in Slots, ops'[a].pc # "idle", ops'[a].here
               PROVE  page = PageOf(ops'[a].kind)
    BY DEF HereIsPage, Working, PageOf
  <2> QED
    BY <1>1, <1>2 DEF HereIsPage, Working
<1> QED
  BY <1>3, <1>4

\* What an operation has read stays so while the data do.
LEMMA MovesCurrent ==
    ASSUME AloneCurrent, NEW s \in Slots, OneMoves(s), filter' = filter, store' = store,
           ops'[s].pc = "answer" /\ ops'[s].here =>
                ops'[s].data = Listed(ops'[s].kind, ops'[s].filter)
    PROVE  AloneCurrent'
<1>1. ASSUME NEW t \in Slots, ops'[t].pc # "idle", ops'[t].alone, ops'[t].here
      PROVE  /\ ops'[t].filter = filter'
             /\ ops'[t].pc = "answer" => ops'[t].data = Listed(ops'[t].kind, ops'[t].filter)
  <2>1. CASE t = s
    <3>1. ops'[s].filter = ops[s].filter /\ ops[s].alone /\ ops[s].here /\ Working(s)
      BY <1>1, <2>1 DEF OneMoves, NoOp
    <3> QED
      BY <1>1, <2>1, <3>1 DEF AloneCurrent
  <2>2. CASE t # s
    <3>1. ops'[t] = ops[t]
      BY <2>2 DEF OneMoves
    <3> QED
      BY <1>1, <3>1 DEF AloneCurrent, Working
  <2> QED
    BY <2>1, <2>2
<1> QED
  BY <1>1 DEF AloneCurrent, Working, Listed

\* A calm page stays calm, and has nothing to patch unless a change is on its way.
LEMMA MovesCalm ==
    ASSUME AloneTogether, NEW s \in Slots, OneMoves(s), page' = page, ~suspect' => Calm
    PROVE  /\ Undisturbed'
           /\ ops'[s].pc \in {"fetch", "answer"} => DoneCurrent'
           /\ ops'[s].pc \notin {"send", "sent"} => PatchRight'
<1>1. /\ \A t \in Slots \ {s} : ops'[t] = ops[t]
      /\ ops'[s].pc # "idle" =>
           ops'[s].alone = ops[s].alone /\ ops'[s].here = ops[s].here
      /\ ops[s].pc # "idle"
  BY DEF OneMoves, Working, NoOp
<1>2. Undisturbed'
  BY <1>1 DEF Undisturbed, Calm, Working
<1>3. ops'[s].pc \in {"fetch", "answer"} => DoneCurrent'
  BY DEF DoneCurrent, AllDone, Working
<1>4. ASSUME ops'[s].pc \notin {"send", "sent"}, ~suspect', NEW t \in Slots,
             ops'[t].here, ops'[t].kind \in UserChanges
      PROVE  ops'[t].pc \notin {"send", "sent"}
  <2>1. CASE t = s
    BY <1>4, <2>1
  <2>2. CASE t # s
    <3>1. ops'[t] = ops[t] /\ Working(s)
      BY <1>1, <2>2 DEF Working
    <3>2. ops[t].kind \notin Loads
      BY <1>4, <3>1 DEF UserChanges, Loads
    <3>3. ~Working(t)
      BY <1>4, <2>2, <3>1, <3>2, NoneBeside
    <3> QED
      BY <3>1, <3>3 DEF Working
  <2> QED
    BY <2>1, <2>2
<1>5. ops'[s].pc \notin {"send", "sent"} => PatchRight'
  BY <1>4 DEF PatchRight
<1> QED
  BY <1>2, <1>3, <1>5


\* What the admin page shows of the account is what the server has.
LEMMA AccountListed ==
    ASSUME filter \in Filter
    PROVE  Listed("loadUsers", filter) =
             IF Deleted(store.account) = filter.deletedOnly /\ filter.captured # "miss"
             THEN store.account ELSE "none"
BY DEF Listed, TodoChanges

(* The server makes a change: what can be patched is what it has made.     *)
LEMMA ServedPatch ==
    ASSUME PageFits, NEW kind \in UserChanges, Accepts(kind),
           store' = [store EXCEPT !.account = ChangedAccount(kind)],
           UNCHANGED <<list, found, filter>>,
           Displayed = Listed("loadUsers", filter),
           kind = "handleDelete" => Displayed = "user"
    PROVE  IF kind = "handleRestore" THEN ~Deleted(store'.account)
           ELSE ~isValidFilter(filter') => Patched(kind)' = Listed("loadUsers", filter)'
<1>1. /\ store.account \in Account /\ store'.account = ChangedAccount(kind)
      /\ filter \in Filter
  BY DEF PageFits, Store
<1>2. CASE kind = "handleRestore"
  BY <1>1, <1>2 DEF ChangedAccount, Restored, Account, Deleted
<1>3. CASE kind # "handleRestore" /\ ~isValidFilter(filter)
  <2>1. list = Listed("loadUsers", filter) /\ filter.captured = "none"
    BY <1>3 DEF Displayed, PageFits
  <2>2. list = IF Deleted(store.account) = filter.deletedOnly THEN store.account ELSE "none"
    BY <1>1, <2>1, AccountListed
  <2>3. Listed("loadUsers", filter)' =
            IF Deleted(store'.account) = filter.deletedOnly THEN store'.account ELSE "none"
    BY <2>1 DEF Listed, TodoChanges, Deleted
  <2>4. "none" \notin Account
    BY DEF Account
  <2>5. CASE kind = "handlePromote"
    <3>1. store'.account = Promoted[store.account]
      BY <1>1, <2>5 DEF ChangedAccount
    <3>2. Patched(kind)' = IF list \notin Account THEN list ELSE Promoted[list]
      BY <2>5 DEF Patched
    <3> QED
      BY <1>1, <2>2, <2>3, <2>4, <3>1, <3>2, <2>5 DEF Promoted, Account, Deleted
  <2>6. CASE kind = "handleDemote"
    <3>1. store'.account = Demoted[store.account]
      BY <1>1, <2>6 DEF ChangedAccount
    <3>2. Patched(kind)' = IF list \notin Account THEN list ELSE Demoted[list]
      BY <2>6 DEF Patched
    <3> QED
      BY <1>1, <2>2, <2>3, <2>4, <3>1, <3>2, <2>6 DEF Demoted, Account, Deleted
  <2>7. CASE kind = "handleDelete"
    <3>1. store'.account = "deletedUser"
      BY <1>1, <2>7 DEF ChangedAccount
    <3>2. list = "user"
      BY <1>3, <2>7 DEF Displayed
    <3>3. Patched(kind)' = "none"
      BY <2>7, <3>2 DEF Patched, Account
    <3> QED
      BY <2>2, <2>3, <2>7, <3>1, <3>2, <3>3 DEF Deleted
  <2> QED
    BY <1>3, <2>5, <2>6, <2>7 DEF UserChanges
<1> QED
  BY <1>2, <1>3

\* A call that is sent keeps the lists current.
LEMMA ServedCurrent ==
    ASSUME PagesIInv, NEW s \in Slots, Served(s)
    PROVE  Current'
<1>1. OpsOK /\ PageFits /\ Current
  BY ShownOK DEF PagesIInv, SpinnerIInv
<1>2. OneMoves(s) /\ StillShaped /\ ops'[s].pc = "sent" /\ ops'[s].kind = ops[s].kind
  BY <1>1, ServedEach
<1>3. UNCHANGED <<page, isAdmin, list, found, filter, count, suspect>>
  BY DEF Served
<1>4. ops[s].pc = "send" /\ ops[s].kind \in Kinds \ Loads /\ Working(s)
  BY <1>1 DEF Served, OpsOK, Shaped, Working
<1>5. AloneTogether' /\ HereIsPage'
  BY <1>1, <1>2, <1>3, MovesTogether DEF Current
<1>6. AloneCurrent'
  <2>1. ASSUME NEW t \in Slots, ops'[t].pc # "idle", ops'[t].alone, ops'[t].here
        PROVE  t = s
    <3> SUFFICES ASSUME t # s PROVE FALSE
      OBVIOUS
    <3>1. ops'[t] = ops[t] /\ Working(t)
      BY <1>2, <2>1 DEF OneMoves, Working
    <3>2. ops[s].alone /\ ops[s].kind \in Loads
      BY <1>1, <1>4, <2>1, <3>1 DEF Current, AloneTogether
    <3> QED
      BY <1>4, <3>2
  <2>2. ops'[s].alone /\ ops'[s].here => ops'[s].filter = filter'
    <3>1. /\ ops'[s].filter = ops[s].filter
          /\ ops'[s].alone = ops[s].alone /\ ops'[s].here = ops[s].here
      BY <1>2 DEF OneMoves, NoOp
    <3> QED
      BY <1>1, <1>3, <1>4, <3>1 DEF Current, AloneCurrent
  <2> QED
    BY <1>2, <2>1, <2>2 DEF AloneCurrent, Working
<1>7. ~suspect' => Calm
  BY <1>1, <1>3 DEF Current, Undisturbed, Calm
<1>8. Undisturbed'
  BY <1>1, <1>2, <1>3, <1>7, MovesCalm DEF Current
<1>9. DoneCurrent'
  BY <1>2 DEF DoneCurrent, AllDone, Working
<1>10. PatchRight'
  <2>1. ASSUME ~suspect', ops'[s].here, ops'[s].kind \in UserChanges
        PROVE  IF ops'[s].kind = "handleRestore" THEN ~Deleted(store'.account)
               ELSE ~isValidFilter(filter') => Patched(ops[s].kind)' = Listed("loadUsers", filter)'
    <3>1. PICK kind \in UserChanges : kind = ops[s].kind /\ kind = ops'[s].kind
      BY <1>2, <2>1
    <3>2. /\ Displayed = Listed("loadUsers", filter)
          /\ kind = "handleDelete" => Displayed = "user"
      <4>1. ops[s].here /\ ~suspect /\ ops[s].kind = kind /\ kind \in UserChanges
        <5>1. ops'[s].here = ops[s].here
          BY <1>2 DEF OneMoves, NoOp
        <5> QED
          BY <1>3, <2>1, <3>1, <5>1
      <4> QED
        BY <1>1, <1>4, <4>1 DEF Current, PatchRight
    <3>3. Accepts(kind) /\ store' = Changed(kind, ops[s].want)
      BY <3>1 DEF Served, Changes
    <3>4. store' = [store EXCEPT !.account = ChangedAccount(kind)]
      BY <3>1, <3>3 DEF Changed, UserChanges, TodoChanges
    <3>5. UNCHANGED <<list, found, filter>>
      BY <1>3
    <3>6. IF kind = "handleRestore" THEN ~Deleted(store'.account)
          ELSE ~isValidFilter(filter') => Patched(kind)' = Listed("loadUsers", filter)'
      BY <1>1, <3>1, <3>2, <3>3, <3>4, <3>5, ServedPatch
    <3> QED
      BY <3>1, <3>6 DEF Patched
  <2>2. ASSUME ~suspect', NEW t \in Slots, ops'[t].here, ops'[t].kind \in UserChanges, t # s
        PROVE  ops'[t].pc \notin {"send", "sent"}
    <3>1. ops'[t] = ops[t]
      BY <1>2, <2>2 DEF OneMoves
    <3>2. ~Working(t)
      BY <1>1, <1>4, <1>7, <2>2, NoneBeside DEF Current
    <3> QED
      BY <3>1, <3>2 DEF Working
  <2> QED
    BY <1>2, <2>1, <2>2 DEF PatchRight, Patched, Deleted, isValidFilter
<1> QED
  BY <1>5, <1>6, <1>8, <1>9, <1>10 DEF Current


(* A step that fetches next, or reads a list.                              *)
LEMMA FetchesCurrent ==
    ASSUME PagesIInv, NEW s \in Slots, OneMoves(s), ops'[s].pc \in {"fetch", "answer"},
           UNCHANGED <<page, filter, store, suspect>>,
           ops'[s].pc = "answer" /\ ops'[s].here =>
                ops'[s].data = Listed(ops'[s].kind, ops'[s].filter)
    PROVE  Current'
<1>1. OpsOK /\ Current
  BY DEF PagesIInv, SpinnerIInv
<1>2. AloneTogether' /\ HereIsPage'
  BY <1>1, MovesTogether DEF Current
<1>3. AloneCurrent'
  BY <1>1, MovesCurrent DEF Current
<1>4. ~suspect' => Calm
  BY <1>1 DEF Current, Undisturbed, Calm
<1>5. Undisturbed' /\ DoneCurrent' /\ PatchRight'
  BY <1>1, <1>4, MovesCalm DEF Current
<1> QED
  BY <1>2, <1>3, <1>5 DEF Current

\* Going on to fetch, and reading, keep them current.
LEMMA FetchingCurrent ==
    ASSUME PagesIInv, NEW s \in Slots,
           \/ TodoChanged(s) \/ VideoChanged(s) \/ ListRead(s)
           \/ UserRestored(s) /\ ~ops[s].filter.deletedOnly
    PROVE  Current'
<1>1. OpsOK
  BY DEF PagesIInv, SpinnerIInv
<1>2. CASE TodoChanged(s)
  BY <1>1, <1>2, TodoChangedEach, FetchesCurrent DEF TodoChanged
<1>3. CASE VideoChanged(s)
  BY <1>1, <1>3, VideoChangedEach, FetchesCurrent DEF VideoChanged
<1>4. CASE ListRead(s)
  <2>1. OneMoves(s) /\ ops'[s].pc = "answer" /\ ops'[s].kind = ops[s].kind
        /\ (ops[s].here => ops'[s].data = Listed(ops[s].kind, ops[s].filter))
    BY <1>1, <1>4, ListReadEach
  <2>2. ops'[s].filter = ops[s].filter /\ ops'[s].here = ops[s].here
    BY <2>1 DEF OneMoves, NoOp
  <2> QED
    BY <1>4, <2>1, <2>2, FetchesCurrent DEF ListRead
<1>5. CASE UserRestored(s) /\ ~ops[s].filter.deletedOnly
  BY <1>1, <1>5, UserRestoredEach, FetchesCurrent DEF UserRestored
<1> QED
  BY <1>2, <1>3, <1>4, <1>5

(* A handler that returns, or goes on with the statistics: what the page   *)
(* shows is current if that is so whenever it was of the page, by itself   *)
(* or in step with it.                                                     *)
LEMMA FinishesCurrent ==
    ASSUME PagesIInv, NEW s \in Slots, OneMoves(s), ops'[s].pc \in {"idle", "stats"},
           UNCHANGED <<page, filter, store>>,
           ~suspect' => Calm,
           ~suspect' /\ page \in {"todos", "admin", "stream"} /\ ops[s].here
             /\ (\A t \in Slots \ {s} : Working(t) => ops[t].pc = "stats")
             => Displayed' = PageList
    PROVE  Current'
<1>1. OpsOK /\ Current
  BY DEF PagesIInv, SpinnerIInv
<1>2. AloneTogether' /\ HereIsPage'
  BY <1>1, MovesTogether DEF Current
<1>3. AloneCurrent'
  BY <1>1, MovesCurrent DEF Current
<1>4. Undisturbed' /\ PatchRight'
  BY <1>1, MovesCalm DEF Current
<1>5. DoneCurrent'
  <2> SUFFICES ASSUME ~suspect', page \in {"todos", "admin", "stream"}, AllDone'
               PROVE  Displayed' = PageList
    BY DEF DoneCurrent, PageList, Listed, Displayed
  <2>1. Calm /\ Working(s)
    BY DEF OneMoves
  <2>2. ops[s].here
    BY <2>1 DEF Calm
  <2>3. \A t \in Slots \ {s} : Working(t) => ops[t].pc = "stats"
    BY DEF AllDone, OneMoves, Working
  <2> QED
    BY <2>2, <2>3
<1> QED
  BY <1>2, <1>3, <1>4, <1>5 DEF Current

\* Patching the list of users keeps it current, or makes it suspect.
LEMMA UserChangedCurrent ==
    ASSUME PagesIInv, NEW s \in Slots, UserChanged(s)
    PROVE  Current'
<1>1. OpsOK /\ Current
  BY DEF PagesIInv, SpinnerIInv
<1>2. /\ ops[s].pc = "sent" /\ ops[s].kind \in UserChanges \ {"handleRestore"} /\ Working(s)
      /\ list' = IF ops[s].here THEN Patched(ops[s].kind) ELSE list
      /\ suspect' = (suspect \/ isValidFilter(filter)) /\ Returns(s)
      /\ UNCHANGED <<page, isAdmin, found, filter, store>>
  BY DEF UserChanged, Working
<1>3. OneMoves(s) /\ ops'[s].pc = "idle"
  BY <1>1, <1>2, ReturnsEach DEF NoOp
<1>4. ~suspect' => Calm
  BY <1>1, <1>2 DEF Current, Undisturbed, Calm
<1>5. ASSUME ~suspect', ops[s].here PROVE Displayed' = PageList
  <2>1. ~suspect /\ ~isValidFilter(filter)
    BY <1>2, <1>5
  <2>2. Patched(ops[s].kind) = Listed("loadUsers", filter)
    BY <1>1, <1>2, <1>5, <2>1 DEF Current, PatchRight
  <2>3. page = "admin"
    BY <1>1, <1>2, <1>5, PageOfKinds DEF Current, HereIsPage
  <2>4. Displayed' = list'
    BY <1>2, <2>1 DEF Displayed, isValidFilter
  <2> QED
    BY <1>2, <1>5, <2>2, <2>3, <2>4 DEF PageList
<1> QED
  BY <1>2, <1>3, <1>4, <1>5, FinishesCurrent

\* Patching the list of deleted users keeps it current.
LEMMA UserRestoredCurrent ==
    ASSUME PagesIInv, NEW s \in Slots, UserRestored(s), ops[s].filter.deletedOnly
    PROVE  Current'
<1>1. OpsOK /\ Current /\ PageFits
  BY ShownOK DEF PagesIInv, SpinnerIInv
<1>2. /\ ops[s].pc = "sent" /\ ops[s].kind = "handleRestore" /\ Working(s)
      /\ ops[s].here => list' = "none" /\ found' = "none"
      /\ UNCHANGED <<page, isAdmin, filter, store, suspect>>
  BY DEF UserRestored, Working
<1>3. OneMoves(s) /\ ops'[s].pc = "idle"
  BY <1>1, UserRestoredEach DEF NoOp
<1>4. ~suspect' => Calm
  BY <1>1, <1>2 DEF Current, Undisturbed, Calm
<1>5. ASSUME ~suspect', ops[s].here PROVE Displayed' = PageList
  <2>1. Displayed' = "none"
    BY <1>2, <1>5 DEF Displayed
  <2>2. ~Deleted(store.account)
    <3>1. ops[s].kind \in UserChanges /\ ~suspect
      BY <1>2, <1>5 DEF UserChanges
    <3> QED
      BY <1>1, <1>2, <1>5, <3>1 DEF Current, PatchRight
  <2>3. page = "admin"
    BY <1>1, <1>2, <1>5, PageOfKinds DEF Current, HereIsPage, UserChanges
  <2>4. ops[s].filter = filter
    BY <1>1, <1>2, <1>4, <1>5 DEF Current, AloneCurrent, Calm
  <2>5. Listed("loadUsers", filter) = "none"
    BY <1>1, <2>2, <2>4, AccountListed DEF PageFits, Deleted
  <2> QED
    BY <2>1, <2>3, <2>5 DEF PageList
<1> QED
  BY <1>2, <1>3, <1>4, <1>5, FinishesCurrent

(* A list that is shown while nothing is suspect, or by an operation that  *)
(* was alone, is the one the page asks for.                                *)
LEMMA ListShownCurrent ==
    ASSUME PagesIInv, NEW s \in Slots, ListShown(s)
    PROVE  Current'
<1>1. OpsOK /\ Current /\ PageFits /\ Shaped(ops[s])
  BY ShownOK DEF PagesIInv, SpinnerIInv, OpsOK
<1> DEFINE search == ops[s].kind = "loadUsers" /\ isValidFilter(ops[s].filter)
<1>2. /\ ops[s].pc = "answer" /\ Working(s)
      /\ list' = IF ops[s].here /\ ~search THEN ops[s].data ELSE list
      /\ found' = IF ops[s].here /\ search THEN ops[s].data ELSE found
      /\ suspect' = (suspect /\ ~(ops[s].alone /\ ops[s].here))
      /\ GoesOn(s)
      /\ UNCHANGED <<page, isAdmin, filter, store>>
  BY DEF ListShown, Working
<1>3. OneMoves(s) /\ ops'[s].pc \in {"idle", "stats"}
  BY <1>1, <1>2, GoesOnEach DEF NoOp
<1>4. ~suspect' => Calm
  <2>1. CASE ~suspect
    BY <1>1, <2>1 DEF Current, Undisturbed, Calm
  <2>2. CASE ops[s].alone /\ ops[s].here
    BY <1>1, <1>2, <2>2 DEF Current, AloneTogether, Calm
  <2> QED
    BY <1>2, <2>1, <2>2
<1>5. ASSUME ~suspect', page \in {"todos", "admin", "stream"}, ops[s].here,
             \A t \in Slots \ {s} : Working(t) => ops[t].pc = "stats"
      PROVE  Displayed' = PageList
  <2>1. ops[s].alone
    BY <1>2, <1>4, <1>5 DEF Calm
  <2>2. ops[s].filter = filter /\ ops[s].data = Listed(ops[s].kind, filter)
    BY <1>1, <1>2, <1>5, <2>1 DEF Current, AloneCurrent
  <2>3. page = PageOf(ops[s].kind) /\ ops[s].kind \in Loads \cup TodoChanges
    BY <1>1, <1>2, <1>5 DEF Current, HereIsPage, Shaped
  <2>4. isValidFilter(filter)' = isValidFilter(filter)
    BY <1>2 DEF isValidFilter
  <2>5. CASE page = "todos"
    <3>1. ops[s].kind \in TodoChanges \cup {"fetchTodos"}
      BY <2>3, <2>5, PageOfKinds
    <3>2. ~search /\ ~isValidFilter(filter)
      <4>1. ops[s].kind # "loadUsers"
        BY <3>1 DEF TodoChanges
      <4> QED
        BY <1>1, <2>5, <4>1 DEF PageFits
    <3>3. Listed(ops[s].kind, filter) = Listed("fetchTodos", filter)
      BY <3>1 DEF Listed, TodoChanges
    <3> QED
      BY <1>2, <1>5, <2>2, <2>4, <2>5, <3>2, <3>3 DEF Displayed, PageList
  <2>6. CASE page = "admin"
    <3>1. ops[s].kind = "loadUsers"
      BY <2>3, <2>6, PageOfKinds
    <3>2. search <=> isValidFilter(filter)
      BY <2>2, <3>1 DEF isValidFilter
    <3> QED
      BY <1>2, <1>5, <2>2, <2>4, <2>6, <3>1, <3>2 DEF Displayed, PageList
  <2>7. CASE page = "stream"
    <3>1. ops[s].kind = "fetchVideoList"
      BY <2>3, <2>7, PageOfKinds
    <3>2. ~search /\ ~isValidFilter(filter)
      BY <1>1, <2>7, <3>1 DEF PageFits
    <3> QED
      BY <1>2, <1>5, <2>2, <2>4, <2>7, <3>1, <3>2 DEF Displayed, PageList
  <2> QED
    BY <1>5, <2>5, <2>6, <2>7
<1> QED
  BY <1>2, <1>3, <1>4, <1>5, FinishesCurrent

\* The statistics' answer keeps them current.
LEMMA StatsLoadedCurrent ==
    ASSUME PagesIInv, NEW s \in Slots, StatsLoaded(s)
    PROVE  Current'
<1>1. OpsOK /\ Current
  BY DEF PagesIInv, SpinnerIInv
<1>2. /\ ops[s].pc = "stats" /\ Working(s) /\ Returns(s)
      /\ UNCHANGED <<page, isAdmin, list, found, filter, store, suspect>>
  BY DEF StatsLoaded, Working
<1>3. OneMoves(s) /\ ops'[s].pc = "idle"
  BY <1>1, <1>2, ReturnsEach DEF NoOp
<1>4. ~suspect' => Calm
  BY <1>1, <1>2 DEF Current, Undisturbed, Calm
<1>5. ASSUME ~suspect', page \in {"todos", "admin", "stream"},
             \A t \in Slots \ {s} : Working(t) => ops[t].pc = "stats"
      PROVE  Displayed' = PageList
  <2>1. AllDone /\ ~suspect
    BY <1>2, <1>5 DEF AllDone
  <2>2. Displayed = PageList
    BY <1>1, <1>5, <2>1 DEF Current, DoneCurrent
  <2> QED
    BY <1>2, <2>2 DEF Displayed, isValidFilter
<1> QED
  BY <1>2, <1>3, <1>4, <1>5, FinishesCurrent

\* A call that fails keeps them current, or makes them suspect.
LEMMA CallFailsCurrent ==
    ASSUME PagesIInv, NEW s \in Slots, CallFails(s)
    PROVE  Current'
<1>1. OpsOK /\ Current
  BY DEF PagesIInv, SpinnerIInv
<1>2. OneMoves(s) /\ StillShaped /\ suspect' = TRUE
      /\ UNCHANGED <<page, isAdmin, list, found, filter, confirming, store, caches>>
  BY <1>1, CallFailsEach DEF CallFails
<1>3. AloneTogether' /\ HereIsPage'
  BY <1>1, <1>2, MovesTogether DEF Current
<1>4. ops'[s].pc # "answer"
  <2>1. ops'[s] = NoOp \/ ops'[s].pc = "stats"
    BY <1>1, GoesOnEach, ReturnsEach DEF CallFails, Working
  <2> QED
    BY <2>1 DEF NoOp
<1>5. AloneCurrent'
  BY <1>1, <1>2, <1>4, MovesCurrent DEF Current
<1> QED
  BY <1>2, <1>3, <1>5 DEF Current, Undisturbed, DoneCurrent, PatchRight


(* A step that begins loads only, on the page shown.                       *)
LEMMA LoadsCurrent ==
    ASSUME PagesIInv, StillShaped, NEW N, BeginsHere(N), \A s \in N : ops'[s].kind \in Loads
    PROVE  Current'
<1>1. /\ AloneTogether' /\ HereIsPage' /\ AloneCurrent'
      /\ Undisturbed' /\ DoneCurrent'
      /\ ~suspect' => ~suspect /\ \A s \in Slots : ops'[s].pc # "idle" => s \in N
  BY BegunCurrent DEF PagesIInv, Current
<1>2. PatchRight'
  BY <1>1 DEF PatchRight, UserChanges, Loads
<1> QED
  BY <1>1, <1>2 DEF Current

\* Mounting a page keeps them current.
LEMMA MountedCurrent ==
    ASSUME PagesIInv, NEW p \in PageNames \ {"login"}, Mounts(p)
    PROVE  Current'
<1>1. OpsOK
  BY DEF PagesIInv, SpinnerIInv
<1>2. PICK at \in [OnMount[p] -> Slots] : 
        LET N == {at[k] : k \in OnMount[p]}
        IN  /\ \A k, l \in OnMount[p] : at[k] = at[l] => k = l
            /\ StillShaped
            /\ Begun(N, NoFilter) /\ \A k \in OnMount[p] : ops'[at[k]].kind = k
            /\ \A s \in N : ops'[s].pc = "fetch"
            /\ GoOn(N) /\ \A s \in Slots \ N : ~ops'[s].here
            /\ suspect' = (suspect \/ Busy)
  BY <1>1, MountsEach
<1> DEFINE N == {at[k] : k \in OnMount[p]}
<1>3. /\ OnMount[p] # {} /\ OnMount[p] \subseteq Loads
      /\ \A k \in OnMount[p] : PageOf(k) = p
  BY DEF OnMount, PageNames, Guarded, PageOf, Loads, TodoChanges, UserChanges, VideoChanges
<1>4. page' = p /\ filter' = NoFilter
  BY DEF Mounts
<1>5. N # {} /\ N \in SUBSET Slots
  BY <1>3
<1>6. \A s \in N : ops'[s].kind \in Loads /\ PageOf(ops'[s].kind) = page'
  BY <1>2, <1>3, <1>4
<1>7. Begun(N, filter')
  BY <1>2, <1>4
<1>8. GoOn(N) /\ (\A s \in Slots \ N : ~ops'[s].here) /\ suspect' = (suspect \/ Busy)
  BY <1>2
<1>9. StillShaped
  BY <1>2
<1> HIDE DEF N
<1>10. BeginsHere(N)
  BY <1>5, <1>6, <1>7, <1>8 DEF BeginsHere
<1> QED
  BY <1>6, <1>9, <1>10, LoadsCurrent

(* A click on what the page shows; what it shows of the account is current *)
(* if there was nothing under way.                                         *)
LEMMA ClickCurrent ==
    ASSUME PagesIInv, NEW s \in Slots, NEW kind \in Kinds \ Loads, Click(s, kind)
    PROVE  Current'
<1>1. OpsOK /\ Current
  BY DEF PagesIInv, SpinnerIInv
<1>2. /\ StillShaped /\ Begun({s}, filter') /\ GoOn({s})
      /\ ops'[s].kind = kind /\ ops'[s].pc = "send"
      /\ \A t \in Slots \ {s} : ops'[t].here = ops[t].here
      /\ suspect' = (suspect \/ Busy)
      /\ UNCHANGED <<page, isAdmin, list, found, filter, confirming, store, caches>>
  BY <1>1, ClickEach
<1>3. Clickable(kind)
  BY DEF Click
<1>4. page = PageOf(kind)
  BY <1>3 DEF Clickable, PageOf, TodoChanges, UserChanges, VideoChanges
<1>5. BeginsHere({s})
  <2>1. {s} \in SUBSET Slots /\ {s} # {}
    OBVIOUS
  <2>2. /\ \A t \in {s} : PageOf(ops'[t].kind) = page'
        /\ \A t \in {s}, u \in {s} : t # u => ops'[t].kind \in Loads
    BY <1>2, <1>4
  <2> QED
    BY <1>2, <2>1, <2>2 DEF BeginsHere
<1>6. /\ AloneTogether' /\ HereIsPage' /\ AloneCurrent'
      /\ Undisturbed' /\ DoneCurrent'
      /\ ~suspect' => ~suspect /\ \A t \in Slots : ops'[t].pc # "idle" => t \in {s}
  BY <1>1, <1>2, <1>5, BegunCurrent DEF Current
<1>7. ASSUME ~suspect', kind \in UserChanges
      PROVE  /\ Displayed' = Listed("loadUsers", filter)'
             /\ kind = "handleDelete" => Displayed' = "user"
  <2>1. page = "admin"
    BY <1>4, <1>7, PageOfKinds
  <2>2. ~suspect /\ AllDone
    BY <1>2, <1>7 DEF Busy, AllDone, Working
  <2>3. Displayed = Listed("loadUsers", filter)
    BY <1>1, <2>1, <2>2 DEF Current, DoneCurrent, PageList
  <2>4. Displayed' = Displayed /\ Listed("loadUsers", filter)' = Listed("loadUsers", filter)
    BY <1>2 DEF Displayed, isValidFilter, Listed
  <2>5. kind = "handleDelete" => Displayed = "user"
    BY <1>3 DEF Clickable, TodoChanges
  <2> QED
    BY <2>3, <2>4, <2>5
<1>8. PatchRight'
  <2>1. \A t \in Slots : ops'[t].pc \in {"send", "sent"} /\ ~suspect' => t = s
    BY <1>6
  <2> QED
    BY <1>2, <1>7, <2>1 DEF PatchRight
<1> QED
  BY <1>6, <1>8 DEF Current

\* Leaving the page keeps them current.
LEMMA LeavesCurrent ==
    ASSUME PagesIInv, LoginShown, ops' = Left, UNCHANGED <<store, caches, suspect>>,
           confirming' \in BOOLEAN
    PROVE  Current'
<1>0. OpsOK /\ Current
  BY DEF PagesIInv, SpinnerIInv
<1>1. /\ \A s \in Slots :
           /\ ops'[s].pc = ops[s].pc /\ ops'[s].kind = ops[s].kind
           /\ ~ops'[s].here /\ ops'[s].alone = ops[s].alone
      /\ page' = "login" /\ suspect' = suspect /\ StillShaped
  BY <1>0, LeavesEach
<1>2. AloneTogether' /\ HereIsPage' /\ AloneCurrent'
  <2>1. AloneTogether'
    <3>1. \A s, t \in Slots : ops'[s].here = ops'[t].here
      BY <1>1 DEF StillShaped, Op
    <3> QED
      BY <1>0, <1>1, <3>1 DEF Current, AloneTogether, Working
  <2>2. HereIsPage' /\ AloneCurrent'
    BY <1>1 DEF HereIsPage, AloneCurrent
  <2> QED
    BY <2>1, <2>2
<1>3. Undisturbed' /\ DoneCurrent' /\ PatchRight'
  BY <1>0, <1>1 DEF Current, Undisturbed, DoneCurrent, PatchRight, Working
<1> QED
  BY <1>2, <1>3 DEF Current

\* While the operations, the data and the filter stay, so does what the page shows.
LEMMA NothingMoves ==
    ASSUME Current, UNCHANGED <<page, list, found, filter, ops, store, suspect>>
    PROVE  Current'
<1>1. AloneTogether' /\ HereIsPage'
  BY DEF Current, AloneTogether, HereIsPage, Working
<1>2. AloneCurrent'
  BY DEF Current, AloneCurrent, Working, Listed
<1>3. Undisturbed'
  BY DEF Current, Undisturbed, Working
<1>4. DoneCurrent'
  BY DEF Current, DoneCurrent, AllDone, Working, Displayed, PageList, Listed, isValidFilter
<1>5. PatchRight'
  BY DEF Current, PatchRight, Displayed, Patched, Listed, isValidFilter
<1> QED
  BY <1>1, <1>2, <1>3, <1>4, <1>5 DEF Current

\* When nothing is alone and all is suspect, nothing is promised.
LEMMA SuspectCurrent ==
    ASSUME Current, suspect', page' = page,
           \A s \in Slots : /\ (ops'[s].pc = "idle") <=> (ops[s].pc = "idle")
                            /\ ops'[s].kind = ops[s].kind
                            /\ ops'[s].here = ops[s].here /\ ~ops'[s].alone
    PROVE  Current'
<1>1. AloneTogether' /\ HereIsPage' /\ AloneCurrent'
  BY DEF Current, AloneTogether, HereIsPage, AloneCurrent, Working, PageOf
<1>2. Undisturbed' /\ DoneCurrent' /\ PatchRight'
  BY DEF Undisturbed, DoneCurrent, PatchRight
<1> QED
  BY <1>1, <1>2 DEF Current

(* Every step of the pages keeps what they show.                           *)
LEMMA CurrentStep == PagesIInv /\ [PagesNext]_pagesVars => Current'
<1> SUFFICES ASSUME PagesIInv, [PagesNext]_pagesVars PROVE Current'
  OBVIOUS
<1>0. OpsOK /\ Current /\ PageFits
  BY ShownOK DEF PagesIInv, SpinnerIInv
<1>1. CASE \/ \E admin \in BOOLEAN, p \in PageNames : Enter(admin, p)
           \/ \E p \in PageNames : Navigate(p)
  BY <1>0, <1>1, MountedBy, MountedCurrent
<1>2. CASE Logout
  BY <1>0, <1>2, LeavesCurrent DEF Logout, PageFits
<1>3. CASE \E s \in Slots, f \in {"all", "active", "completed"} : FilterTodos(s, f)
  <2> PICK s \in Slots, f \in {"all", "active", "completed"} : FilterTodos(s, f)
    BY <1>3
  <2>1. /\ StillShaped /\ Begun({s}, filter') /\ GoOn({s})
        /\ ops'[s].kind = "fetchTodos"
        /\ \A t \in Slots \ {s} : ops'[t].here = ops[t].here
        /\ suspect' = (suspect \/ Busy)
        /\ page = "todos" /\ page' = page
    BY <1>0, FilterTodosEach
  <2>2. PageOf("fetchTodos") = "todos" /\ "fetchTodos" \in Loads
    BY PageOfKinds DEF Loads
  <2>3. /\ {s} \in SUBSET Slots /\ {s} # {}
        /\ \A t \in {s} : ops'[t].kind \in Loads /\ PageOf(ops'[t].kind) = page'
    BY <2>1, <2>2
  <2>4. BeginsHere({s})
    BY <2>1, <2>3 DEF BeginsHere
  <2> QED
    BY <2>1, <2>3, <2>4, LoadsCurrent
<1>4. CASE (\E text \in Searches : SearchUsers(text)) \/ ShowDeleted
  <2>1. PICK f \in Filter : /\ FilterUsers(f)
                            /\ f.search # filter.search \/ f.deletedOnly # filter.deletedOnly
    BY <1>0, <1>4, UsersFiltered
  <2>2. PICK N \in SUBSET Slots :
                /\ N # {} /\ count' = count + Cardinality(N)
                /\ StillShaped /\ Begun(N, filter') /\ GoOn(N)
                /\ \A s \in N : ops'[s].kind = "loadUsers" /\ ops'[s].pc = "fetch"
                /\ \A t \in Slots \ N : ops'[t].here = ops[t].here
                /\ suspect' = (suspect \/ Busy)
    BY <1>0, <2>1, FilterUsersEach
  <2>3. page = "admin" /\ page' = page
    BY <2>1 DEF FilterUsers
  <2>4. PageOf("loadUsers") = "admin" /\ "loadUsers" \in Loads
    BY PageOfKinds DEF Loads
  <2>5. \A s \in N : ops'[s].kind \in Loads /\ PageOf(ops'[s].kind) = page'
    BY <2>2, <2>3, <2>4
  <2>6. BeginsHere(N)
    BY <2>2, <2>3, <2>5 DEF BeginsHere
  <2> QED
    BY <2>2, <2>5, <2>6, LoadsCurrent
<1>5. CASE \E s \in Slots, kind \in Kinds \ Loads : Click(s, kind)
  BY <1>5, ClickCurrent
<1>6. CASE \E s \in Slots : Answered(s)
  <2> PICK s \in Slots : Answered(s)
    BY <1>6
  <2> QED
    <3>1. CASE ListCached(s)
      <4>1. page' = page
        BY <3>1 DEF ListCached
      <4> QED
        BY <1>0, <3>1, <4>1, ListCachedEach, SuspectCurrent
    <3> QED
      BY <3>1, ServedCurrent, FetchingCurrent, UserChangedCurrent, UserRestoredCurrent,
         ListShownCurrent, StatsLoadedCurrent, CallFailsCurrent DEF Answered
<1>7. CASE \E kind \in Kinds \ Loads, want \in BOOLEAN : OthersChange(kind, want)
  <2>1. /\ \A s \in Slots :
             /\ ops'[s].pc = ops[s].pc /\ ops'[s].kind = ops[s].kind
             /\ ops'[s].here = ops[s].here /\ ~ops'[s].alone
        /\ suspect' /\ page' = page
    BY <1>0, <1>7, OthersEach
  <2> QED
    BY <1>0, <2>1, SuspectCurrent
<1>8. CASE UNCHANGED pagesVars
  BY <1>0, <1>8, NothingMoves DEF pagesVars
<1>9. CASE PageReloaded
  <2>1. page' = "login" /\ \A s \in Slots : ops'[s] = NoOp
    BY <1>0, <1>9, ReloadedEach
  <2> QED
    BY <2>1, NoOpIs DEF Current, AloneTogether, HereIsPage, AloneCurrent, Undisturbed,
       DoneCurrent, PatchRight, Working
<1>10. CASE ModalConfirms
  BY <1>0, <1>10, NothingMoves DEF ModalConfirms
<1>11. CASE \E refreshed \in BOOLEAN : ModalReturns(refreshed)
  <2> PICK refreshed \in BOOLEAN : ModalReturns(refreshed)
    BY <1>11
  <2>1. confirming' \in BOOLEAN /\ UNCHANGED <<store, caches, suspect>>
    BY DEF ModalReturns
  <2>2. CASE LoginShown /\ ops' = Left
    BY <2>1, <2>2, LeavesCurrent
  <2>3. CASE UNCHANGED <<page, isAdmin, list, found, filter, ops>>
    BY <1>0, <2>1, <2>3, NothingMoves
  <2> QED
    BY <2>2, <2>3 DEF ModalReturns
<1>12. CASE \E lists \in UserLists : CacheExpires(lists)
  BY <1>0, <1>12, NothingMoves DEF CacheExpires
<1> QED
  BY <1>1, <1>2, <1>3, <1>4, <1>5, <1>6, <1>7, <1>8, <1>9, <1>10, <1>11, <1>12
     DEF PagesNext, PagesStep, SessionStep, PageStep

\* At first nothing is listed.
LEMMA CurrentInit == PagesInit => PagesIInv
<1> SUFFICES ASSUME PagesInit PROVE PagesIInv
  OBVIOUS
<1>1. \A s \in Slots : ops[s] = NoOp
  BY DEF PagesInit
<1>2. NoOp.pc = "idle" /\ ~NoOp.here
  BY DEF NoOp
<1>3. AloneTogether /\ HereIsPage /\ AloneCurrent /\ Undisturbed
  BY <1>1, <1>2 DEF AloneTogether, HereIsPage, AloneCurrent, Undisturbed, Working
<1>4. DoneCurrent /\ PatchRight
  BY <1>1, <1>2 DEF PagesInit, DoneCurrent, PatchRight
<1> QED
  BY <1>3, <1>4, SpinnerInit DEF PagesIInv, Current

-----------------------------------------------------------------------------
(* What operations know of the page and of one another holds in every      *)
(* state.                                                                  *)
THEOREM PagesInvariant == PagesSpec => []PagesIInv
<1>1. PagesIInv /\ [PagesNext]_pagesVars => PagesIInv'
  BY SpinnerStep, CurrentStep DEF PagesIInv
<1> QED
  BY <1>1, CurrentInit, PTL DEF PagesSpec

(* With nothing under way and nothing suspect, the page shows the server's *)
(* data as its filter asks, whether its list was fetched, searched or      *)
(* patched (TodosPage.tsx:57-145, AdminPage.tsx:31-137,                    *)
(* StreamPage.tsx:25-70), and though the server answers from its cache     *)
(* (admin.service.ts:39-46, 221-227).                                      *)
THEOREM ListsAreCurrent == PagesSpec => []UndisturbedListCurrent
<1>1. PagesIInv => UndisturbedListCurrent
  BY DEF PagesIInv, Current, DoneCurrent, AllDone, Working, Busy, UndisturbedListCurrent
<1> QED
  BY <1>1, PagesInvariant, PTL

-----------------------------------------------------------------------------
(* The statistics: what a call has found.                                  *)
StatsStates == {"idle", "stats", "details"} \cup Series \cup Totals

\* The awaits that have answered at each point.
Gathered == [p \in StatsStates |->
    CASE p = "completed" -> {"created"}
      [] p = "deleted" -> {"created", "completed"}
      [] p = "stats" -> Series
      [] p = "totalCompleted" -> {"total"}
      [] p = "totalActive" -> {"total", "totalCompleted"}
      [] p = "totalDeleted" -> {"total", "totalCompleted", "totalActive"}
      [] p = "details" -> Totals
      [] OTHER -> {}]

StatsShape ==
    /\ todos \in [Todos -> TodoDoc] /\ now \in Moments
    /\ stats = [pc |-> stats.pc, today |-> stats.today, got |-> stats.got]
    /\ stats.pc \in StatsStates /\ stats.today \in Moments /\ stats.today <= now
    /\ DOMAIN stats.got = Gathered[stats.pc]
    /\ removed \in [Todos -> Moments \cup {Never}]
    /\ touched \subseteq Todos /\ since \subseteq Todos /\ odd \subseteq Todos

\* What is known of a todo: no date lies ahead, one that is not there yet has none of its
\* own, and one that was only deleted was last written when it was.
TodoKnown(t) ==
    /\ ~todos[t].exists => ~todos[t].deleted
    /\ todos[t].createdAt <= now /\ todos[t].updatedAt <= now /\ todos[t].completedAt <= now
    /\ removed[t] <= now
    /\ todos[t].deleted <=> removed[t] # Never
    /\ todos[t].deleted /\ t \notin touched => todos[t].updatedAt = removed[t]

TodosKnown == \A t \in Todos : TodoKnown(t)

\* What was not written to since the call began is no younger than the call.
Settled(t) ==
    /\ todos[t].createdAt <= stats.today /\ todos[t].completedAt <= stats.today
    /\ removed[t] <= stats.today

OthersSettled == stats.pc # "idle" => \A t \in Existing \ since : Settled(t)

\* An update works on a todo that is there; unless the todo is odd, it is the only one, and
\* has read the todo as it still is.
UpdatesKnown ==
    /\ update \in [Updates -> Update]
    /\ \A u \in Updates : update[u].todo # NoTodo =>
        /\ update[u].todo \in Existing /\ update[u].at <= now
        /\ update[u].todo \notin odd =>
            /\ \A v \in Updates : update[v].todo = update[u].todo => v = u
            /\ update[u].wish # "title" => (update[u].open <=> ~todos[update[u].todo].completed)

\* A number lies between what must be counted and what may be.
Between(low, shown, high) == Cardinality(low) <= shown /\ shown <= Cardinality(high)

WindowDays == StartDay(stats.today)..Day(stats.today)
NoHourSkipped == SpringForward \cap StartDay(stats.today)..(Day(stats.today) - 1) = {}

\* A series that was found stays right while todos are written.
SeriesRight(series) ==
    /\ \A d \in WindowDays : /\ Shown(series, d) \in Nat
                            /\ Between(Must(series, d), Shown(series, d), May(series, d))
    /\ DOMAIN stats.got[series] \subseteq WindowDays
    /\ NoHourSkipped => DOMAIN stats.got[series] = WindowDays

SeriesKept == \A series \in Series \cap DOMAIN stats.got : SeriesRight(series)

\* So do the totals, if nothing is written.
TotalsKept ==
    since = {} => \A which \in Totals \cap DOMAIN stats.got : stats.got[which] = Count(which)

StatsIInv ==
    /\ StatsShape /\ TodosKnown /\ UpdatesKnown /\ CompletionsDated
    /\ OthersSettled /\ SeriesKept /\ TotalsKept

\* A later moment is on the same day or a later one.
LEMMA DayMonotonic ==
    ASSUME NEW a \in Int, NEW b \in Int, a <= b
    PROVE  Day(a) \in Int /\ Day(b) \in Int /\ Day(a) <= Day(b)
<1> DEFINE n == DayLength
           p == a \div n
           q == b \div n
<1>1. n \in Nat /\ n > 0
  BY CalendarAssumption
<1>2. p \in Int /\ q \in Int /\ n * p <= a /\ b < n * q + n
  BY <1>1
<1>3. ASSUME p > q PROVE FALSE
  <2>1. p >= q + 1
    BY <1>2, <1>3
  <2> HIDE DEF p, q, n
  <2>2. n * p >= n * (q + 1)
    BY <1>1, <1>2, <2>1
  <2>3. n * (q + 1) = n * q + n
    BY <1>1, <1>2
  <2> QED
    BY <1>1, <1>2, <2>2, <2>3
<1> QED
  BY <1>2, <1>3 DEF Day

\* What each await finds, and those that have answered before it.
LEMMA GatheredAt ==
    /\ Gathered["idle"] = {} /\ Gathered["created"] = {} /\ Gathered["total"] = {}
    /\ Gathered["completed"] = {"created"} /\ Gathered["deleted"] = {"created", "completed"}
    /\ Gathered["stats"] = Series
    /\ Gathered["totalCompleted"] = {"total"}
    /\ Gathered["totalActive"] = {"total", "totalCompleted"}
    /\ Gathered["totalDeleted"] = {"total", "totalCompleted", "totalActive"}
    /\ Gathered["details"] = Totals
BY DEF Gathered, StatsStates, Series, Totals

\* After an answer comes the next question, with one answer more gathered.
LEMMA AfterGathers ==
    ASSUME NEW pc \in Series \cup Totals
    PROVE  /\ After[pc] \in StatsStates
           /\ Gathered[After[pc]] = Gathered[pc] \cup {pc}
           /\ pc \in Series => Gathered[pc] \subseteq Series /\ pc \notin Gathered[pc]
           /\ pc \in Totals => Gathered[pc] \subseteq Totals /\ pc \notin Gathered[pc]
BY GatheredAt DEF After, StatsStates, Series, Totals

(***************************************************************************)
(* Writes.  A todo that another write touches stays as it is; the one that *)
(* is written to stays there, with its dates of creation and of deletion.  *)
(***************************************************************************)
TodoKept(t) ==
    /\ todos[t].exists => todos'[t].exists /\ todos'[t].createdAt = todos[t].createdAt
    /\ removed[t] # Never => removed'[t] = removed[t]

\* The collection after any write.
TodosMoved(written) ==
    /\ todos' \in [Todos -> TodoDoc] /\ removed' \in [Todos -> Moments \cup {Never}]
    /\ touched \subseteq touched' /\ touched' \subseteq Todos /\ now' = now
    /\ odd' \subseteq Todos
    /\ \A t \in Todos : TodoKept(t)
    /\ \A t \in Todos \ {written} : todos'[t] = todos[t] /\ removed'[t] = removed[t]

\* Moments and Never are numbers.
LEMMA MomentsAreNumbers ==
    /\ \A m \in Moments : m \in Int /\ m # Never /\ Never <= m
    /\ Never \in Int /\ 0 \in Moments
BY CalendarAssumption DEF Moments, Never

\* What a write leaves alone stays known.
LEMMA OthersKnown ==
    ASSUME StatsShape, TodosKnown, NEW t \in Todos, TodosMoved(t),
           touched' \subseteq touched \cup {t}, TodoKnown(t)'
    PROVE  TodosKnown'
<1>1. ASSUME NEW u \in Todos \ {t} PROVE TodoKnown(u)'
  <2>1. /\ TodoKnown(u) /\ todos'[u] = todos[u] /\ removed'[u] = removed[u] /\ now' = now
        /\ u \in touched' <=> u \in touched
    BY DEF TodosKnown, TodosMoved
  <2> QED
    BY <2>1 DEF TodoKnown
<1> QED
  BY <1>1 DEF TodosKnown

\* Creating a todo.
LEMMA CreateMoves ==
    ASSUME StatsIInv, NEW t \in Todos, NEW completed \in BOOLEAN, NEW deleted \in BOOLEAN,
           CreateTodo(t, completed, deleted)
    PROVE  TodosMoved(t) /\ TodosKnown' /\ UpdatesKnown' /\ CompletionsDated'
<1> DEFINE new == [Unborn EXCEPT !.exists = TRUE, !.completed = completed, !.deleted = deleted,
                                 !.createdAt = now, !.updatedAt = now]
<1>0. StatsShape /\ TodosKnown
  BY DEF StatsIInv
<1>1. /\ new \in TodoDoc /\ new.exists /\ (new.completed <=> completed)
      /\ (new.deleted <=> deleted)
      /\ new.createdAt = now /\ new.updatedAt = now /\ new.completedAt = Never
  BY <1>0, CalendarAssumption DEF StatsShape, Unborn, TodoDoc, Moments
<1> HIDE DEF new
<1>2. /\ todos' = [todos EXCEPT ![t] = new] /\ now' = now /\ update' = update
      /\ removed' = [removed EXCEPT ![t] = IF deleted THEN now ELSE Never]
      /\ touched' = IF todos[t].deleted THEN touched \cup {t} ELSE touched
      /\ odd' = IF completed THEN odd \cup {t} ELSE odd
      /\ ~todos[t].exists
  BY DEF CreateTodo, Writes, new
<1>3. ~todos[t].deleted /\ removed[t] = Never
  BY <1>0, <1>2 DEF TodosKnown, TodoKnown
<1>4. /\ todos' \in [Todos -> TodoDoc] /\ todos'[t] = new /\ touched' = touched
      /\ \A u \in Todos \ {t} : todos'[u] = todos[u] /\ removed'[u] = removed[u]
      /\ removed' \in [Todos -> Moments \cup {Never}]
      /\ removed'[t] = IF deleted THEN now ELSE Never
      /\ odd \subseteq odd' /\ odd' \subseteq odd \cup {t} /\ odd' \subseteq Todos
  BY <1>0, <1>1, <1>2, <1>3 DEF StatsShape
<1>5. TodosMoved(t)
  <2>1. \A u \in Todos : TodoKept(u)
    BY <1>2, <1>3, <1>4 DEF TodoKept
  <2> QED
    BY <1>0, <1>2, <1>4, <2>1 DEF TodosMoved, StatsShape
<1>6. TodoKnown(t)'
  BY <1>0, <1>1, <1>2, <1>4, MomentsAreNumbers DEF TodoKnown, StatsShape
<1>7. TodosKnown'
  BY <1>0, <1>4, <1>5, <1>6, OthersKnown
<1>8. UpdatesKnown'
  <2>1. ASSUME NEW u \in Updates, update[u].todo # NoTodo
        PROVE  update[u].todo \in Todos \ {t}
    BY <1>2, <2>1 DEF StatsIInv, UpdatesKnown, Existing
  <2>2. \A u \in Todos \ {t} : todos'[u] = todos[u] /\ (u \in odd' <=> u \in odd)
    BY <1>4
  <2> QED
    BY <1>2, <2>1, <2>2 DEF StatsIInv, UpdatesKnown, Existing
<1>9. CompletionsDated'
  <2>1. ASSUME NEW u \in Todos \ {t}, todos'[u].exists, u \notin odd'
        PROVE  todos'[u].completed <=> todos'[u].completedAt # Never
    BY <1>4, <2>1 DEF StatsIInv, CompletionsDated, Existing
  <2>2. ASSUME t \notin odd' PROVE ~todos'[t].completed /\ todos'[t].completedAt = Never
    BY <1>1, <1>2, <1>4, <2>2
  <2> QED
    BY <2>1, <2>2 DEF CompletionsDated, Existing
<1> QED
  BY <1>5, <1>7, <1>8, <1>9

\* Deleting one.
LEMMA DeleteMoves ==
    ASSUME StatsIInv, NEW t \in Todos, DeleteTodo(t)
    PROVE  TodosMoved(t) /\ TodosKnown' /\ UpdatesKnown' /\ CompletionsDated'
<1> DEFINE old == todos[t]
           new == [old EXCEPT !.deleted = TRUE, !.updatedAt = now]
<1>0. StatsShape /\ TodosKnown
  BY DEF StatsIInv
<1>1. /\ new \in TodoDoc /\ new.deleted /\ (new.exists <=> old.exists)
      /\ (new.completed <=> old.completed) /\ new.createdAt = old.createdAt
      /\ new.updatedAt = now /\ new.completedAt = old.completedAt
  BY <1>0 DEF StatsShape, TodoDoc
<1> HIDE DEF new
<1>2. /\ todos' = [todos EXCEPT ![t] = new] /\ now' = now /\ update' = update /\ odd' = odd
      /\ touched' = IF todos[t].deleted THEN touched \cup {t} ELSE touched
      /\ todos[t].exists
      /\ removed' = IF todos[t].deleted THEN removed ELSE [removed EXCEPT ![t] = now]
  BY DEF DeleteTodo, Writes, new
<1>3. /\ todos' \in [Todos -> TodoDoc] /\ todos'[t] = new
      /\ \A u \in Todos \ {t} : todos'[u] = todos[u] /\ removed'[u] = removed[u]
      /\ removed' \in [Todos -> Moments \cup {Never}]
      /\ removed'[t] = IF todos[t].deleted THEN removed[t] ELSE now
      /\ touched' \subseteq touched \cup {t} /\ touched \subseteq touched'
      /\ touched' \subseteq Todos
  BY <1>0, <1>1, <1>2 DEF StatsShape
<1>4. TodosMoved(t)
  <2>1. \A u \in Todos : TodoKept(u)
    BY <1>0, <1>1, <1>2, <1>3 DEF TodoKept, TodosKnown, TodoKnown
  <2> QED
    BY <1>0, <1>2, <1>3, <2>1 DEF TodosMoved, StatsShape
<1>5. TodoKnown(t)'
  <2>1. TodoKnown(t) /\ now \in Moments
    BY <1>0 DEF TodosKnown, StatsShape
  <2> QED
    BY <1>1, <1>2, <1>3, <2>1, MomentsAreNumbers DEF TodoKnown
<1>6. TodosKnown'
  BY <1>0, <1>3, <1>4, <1>5, OthersKnown
<1>7. ASSUME NEW u \in Todos
      PROVE  /\ todos'[u].exists <=> todos[u].exists
             /\ todos'[u].completed <=> todos[u].completed
             /\ todos'[u].completedAt = todos[u].completedAt
  BY <1>1, <1>3
<1>8. UpdatesKnown'
  BY <1>2, <1>7 DEF StatsIInv, UpdatesKnown, Existing
<1>9. CompletionsDated'
  BY <1>2, <1>7 DEF StatsIInv, CompletionsDated, Existing
<1> QED
  BY <1>4, <1>6, <1>8, <1>9

\* The date of completion after the write of an update.
LEMMA DatedRight ==
    ASSUME NEW r \in Update, NEW at \in Moments \cup {Never}
    PROVE  /\ Dated(r, at) \in {at, r.at, Never}
           /\ r.wish = "title" => Dated(r, at) = at
           /\ r.wish = "complete" /\ (at # Never \/ r.open) => Dated(r, at) # Never
           /\ r.wish = "reopen" /\ (at = Never \/ ~r.open) => Dated(r, at) = Never
BY MomentsAreNumbers DEF Dated, Update

\* The write of an update.
LEMMA UpdateMoves ==
    ASSUME StatsIInv, NEW u \in Updates, UpdateWrite(u), NEW r, r = update[u],
           NEW t, t = r.todo
    PROVE  t \in Todos /\ TodosMoved(t) /\ TodosKnown' /\ UpdatesKnown' /\ CompletionsDated'
<1> DEFINE old == todos[t]
           completed == IF r.wish = "title" THEN old.completed ELSE r.wish = "complete"
           at == Dated(r, old.completedAt)
           new == [old EXCEPT !.completed = completed, !.completedAt = at, !.updatedAt = r.at]
<1>0. StatsShape /\ TodosKnown
  BY DEF StatsIInv
<1>1. /\ t \in Todos /\ old.exists /\ r \in Update /\ r.at \in Moments /\ r.at <= now
      /\ old \in TodoDoc /\ t # NoTodo
  BY <1>0 DEF UpdateWrite, StatsIInv, UpdatesKnown, Existing, Update, StatsShape
<1>2. /\ completed \in BOOLEAN /\ old.completedAt \in Moments \cup {Never}
      /\ at \in {old.completedAt, r.at, Never}
  BY <1>1, DatedRight DEF TodoDoc
<1>3. /\ todos' = [todos EXCEPT ![t] = new] /\ now' = now /\ removed' = removed /\ odd' = odd
      /\ touched' = IF old.deleted THEN touched \cup {t} ELSE touched
      /\ update' = [update EXCEPT ![u] = NoUpdate]
  BY DEF UpdateWrite, Writes
<1> HIDE DEF at, completed
<1>4. /\ new \in TodoDoc /\ (new.deleted <=> old.deleted) /\ (new.exists <=> old.exists)
      /\ (new.completed <=> completed) /\ new.createdAt = old.createdAt
      /\ new.updatedAt = r.at /\ new.completedAt = at
  BY <1>1, <1>2 DEF TodoDoc
<1> HIDE DEF new
<1>5. /\ todos' \in [Todos -> TodoDoc] /\ todos'[t] = new
      /\ \A v \in Todos \ {t} : todos'[v] = todos[v] /\ removed'[v] = removed[v]
      /\ touched' \subseteq touched \cup {t} /\ touched \subseteq touched'
      /\ touched' \subseteq Todos
  BY <1>0, <1>1, <1>3, <1>4 DEF StatsShape
<1>6. TodosMoved(t)
  <2>1. \A v \in Todos : TodoKept(v)
    BY <1>1, <1>3, <1>4, <1>5 DEF TodoKept
  <2> QED
    BY <1>0, <1>3, <1>5, <2>1 DEF TodosMoved, StatsShape
<1>7. TodoKnown(t)'
  <2>1. TodoKnown(t) /\ now \in Moments
    BY <1>0, <1>1 DEF TodosKnown, StatsShape
  <2>2. at <= now
    BY <1>1, <1>2, <2>1, MomentsAreNumbers DEF TodoKnown
  <2> QED
    BY <1>1, <1>3, <1>4, <1>5, <2>1, <2>2 DEF TodoKnown
<1>8. TodosKnown'
  BY <1>0, <1>1, <1>5, <1>6, <1>7, OthersKnown
<1>9. UpdatesKnown'
  <2>1. update' \in [Updates -> Update] /\ update'[u].todo = NoTodo
        /\ \A v \in Updates \ {u} : update'[v] = update[v]
    BY <1>3, CalendarAssumption DEF StatsIInv, UpdatesKnown, NoUpdate, Update, Wishes, Moments
  <2>2. \A v \in Todos : todos'[v].exists <=> todos[v].exists
    BY <1>4, <1>5
  <2>3. ASSUME NEW v \in Updates, v # u, update[v].todo # NoTodo, update[v].todo \notin odd
        PROVE  todos'[update[v].todo] = todos[update[v].todo]
    <3>1. update[v].todo \in Todos /\ update[v].todo # t
      BY <1>1, <2>3 DEF StatsIInv, UpdatesKnown, Existing
    <3> QED
      BY <1>5, <3>1
  <2>4. ASSUME NEW v \in Updates, update'[v].todo # NoTodo
        PROVE  /\ v # u /\ update'[v] = update[v]
               /\ update[v].todo \in Existing' /\ update[v].at <= now'
    BY <1>3, <2>1, <2>2, <2>4 DEF StatsIInv, UpdatesKnown, Existing
  <2>5. ASSUME NEW v \in Updates, update'[v].todo # NoTodo, update'[v].todo \notin odd'
        PROVE  /\ \A w \in Updates : update'[w].todo = update'[v].todo => w = v
               /\ update'[v].wish # "title" =>
                       (update'[v].open <=> ~todos'[update'[v].todo].completed)
    BY <1>3, <2>1, <2>3, <2>4, <2>5 DEF StatsIInv, UpdatesKnown
  <2> QED
    BY <2>1, <2>4, <2>5 DEF UpdatesKnown
<1>10. CompletionsDated'
  <2>1. ASSUME NEW v \in Todos \ {t}, todos'[v].exists, v \notin odd'
        PROVE  todos'[v].completed <=> todos'[v].completedAt # Never
    BY <1>3, <1>5, <2>1 DEF StatsIInv, CompletionsDated, Existing
  <2>2. ASSUME t \notin odd' PROVE completed <=> at # Never
    <3>1. /\ old.completed <=> old.completedAt # Never
          /\ r.wish # "title" => (r.open <=> ~old.completed)
      BY <1>1, <1>3, <2>2 DEF StatsIInv, CompletionsDated, UpdatesKnown, Existing
    <3>2. r.wish \in Wishes
      BY <1>1 DEF Update
    <3> QED
      BY <1>1, <1>2, <3>1, <3>2, DatedRight DEF completed, at, Wishes
  <2> QED
    BY <1>4, <1>5, <2>1, <2>2 DEF CompletionsDated, Existing
<1> QED
  BY <1>1, <1>6, <1>8, <1>9, <1>10

\* A write under way takes no todo from those that a day may count, and adds none that it
\* must.
LEMMA WritesSurround ==
    ASSUME stats' = stats, NEW t \in Todos, TodosMoved(t), since' = since \cup {t},
           NEW series \in Series, NEW d \in Int
    PROVE  Must(series, d)' \subseteq Must(series, d) /\ May(series, d) \subseteq May(series, d)'
<1>1. ASSUME NEW u \in Todos, u \notin since'
      PROVE  u \notin since /\ todos'[u] = todos[u] /\ removed'[u] = removed[u]
  BY <1>1 DEF TodosMoved
<1>2. ASSUME NEW u \in Todos
      PROVE  TodoKept(u) /\ (u \in since' \/ todos'[u] = todos[u])
  BY DEF TodosMoved
<1>3. /\ stats'.today = stats.today
      /\ \A u : u \in since => u \in since'
      /\ \A u : u \in touched => u \in touched'
  BY DEF TodosMoved
<1>4. Must(series, d)' \subseteq Must(series, d)
  <2> SUFFICES ASSUME NEW u \in Must(series, d)' PROVE u \in Must(series, d)
    OBVIOUS
  <2>1. /\ u \in Todos /\ u \notin since' /\ todos'[u].exists
        /\ u \in touched => u \in touched'
    BY <1>3 DEF Must, Existing
  <2>2. u \notin since /\ todos'[u] = todos[u] /\ removed'[u] = removed[u]
    BY <1>1, <2>1
  <2>3. CASE series = "created"
    BY <2>1, <2>2, <2>3 DEF Must, Existing, On, Day
  <2>4. CASE series = "completed"
    BY <2>1, <2>2, <2>4 DEF Must, Existing, On, Day
  <2>5. CASE series = "deleted"
    BY <2>1, <2>2, <2>5 DEF Must, Existing, On, Day
  <2> QED
    BY <2>3, <2>4, <2>5 DEF Series
<1>5. May(series, d) \subseteq May(series, d)'
  <2> SUFFICES ASSUME NEW u \in May(series, d) PROVE u \in May(series, d)'
    OBVIOUS
  <2>1. /\ u \in Todos /\ todos[u].exists
        /\ todos'[u].exists /\ todos'[u].createdAt = todos[u].createdAt
        /\ removed[u] # Never => removed'[u] = removed[u]
        /\ u \in since' \/ todos'[u].completedAt = todos[u].completedAt
    BY <1>2 DEF May, Existing, TodoKept
  <2>2. CASE series = "created"
    BY <1>3, <2>1, <2>2 DEF May, Existing, UpTo, On, Day
  <2>3. CASE series = "completed"
    BY <1>3, <2>1, <2>3 DEF May, Existing, UpTo, On, Day
  <2>4. CASE series = "deleted"
    BY <1>3, <2>1, <2>4 DEF May, Existing, UpTo, On, Day
  <2> QED
    BY <2>2, <2>3, <2>4 DEF Series
<1> QED
  BY <1>4, <1>5

\* Wider bounds hold as well.
LEMMA BetweenWider ==
    ASSUME NEW low \in SUBSET Todos, NEW lower \in SUBSET low, NEW n \in Int,
           NEW higher \in SUBSET Todos, NEW high \in SUBSET higher, Between(low, n, high)
    PROVE  Between(lower, n, higher)
<1>1. IsFiniteSet(low) /\ IsFiniteSet(higher)
  BY FS_Subset, TodosAssumption
<1>2. Cardinality(lower) <= Cardinality(low) /\ Cardinality(high) <= Cardinality(higher)
  BY <1>1, FS_Subset
<1>3. /\ Cardinality(lower) \in Nat /\ Cardinality(low) \in Nat
      /\ Cardinality(high) \in Nat /\ Cardinality(higher) \in Nat
  BY <1>1, FS_Subset, FS_CardinalityType
<1> QED
  BY <1>2, <1>3 DEF Between

\* Todos that move forwards keep a series right.
LEMMA SeriesStays ==
    ASSUME StatsShape, stats' = stats, NEW t \in Todos, TodosMoved(t), since' = since \cup {t},
           NEW series \in Series, SeriesRight(series)
    PROVE  SeriesRight(series)'
<1>1. /\ WindowDays' = WindowDays /\ (NoHourSkipped' <=> NoHourSkipped)
      /\ stats'.got = stats.got
      /\ \A d : Shown(series, d)' = Shown(series, d)
  BY DEF WindowDays, NoHourSkipped, Shown
<1>2. ASSUME NEW d \in WindowDays
      PROVE  Between(Must(series, d), Shown(series, d), May(series, d))'
  <2>1. d \in Int
    BY DEF WindowDays
  <2>2. Must(series, d)' \subseteq Must(series, d) /\ May(series, d) \subseteq May(series, d)'
    BY <2>1, WritesSurround
  <2>3. Must(series, d) \subseteq Todos /\ May(series, d)' \subseteq Todos
    BY DEF Must, May, Existing
  <2>4. Shown(series, d) \in Nat /\ Between(Must(series, d), Shown(series, d), May(series, d))
    BY DEF SeriesRight
  <2> DEFINE n == Shown(series, d)
             low == Must(series, d)
             lower == Must(series, d)'
             high == May(series, d)
             higher == May(series, d)'
  <2>5. Shown(series, d)' = n
    BY <1>1
  <2> HIDE DEF n, low, lower, high, higher
  <2>6. Between(lower, n, higher)
    BY <2>2, <2>3, <2>4, BetweenWider DEF n, low, lower, high, higher
  <2> QED
    BY <2>5, <2>6 DEF n, lower, higher, Between
<1> QED
  BY <1>1, <1>2 DEF SeriesRight

(***************************************************************************)
(* The days of a new series.                                               *)
(***************************************************************************)
LEMMA WindowOf ==
    ASSUME NEW today \in Moments
    PROVE  /\ StartDay(today) \in Int /\ Day(today) \in Int
           /\ Day(today) = StartDay(today) + (Window - 1)
           /\ Window - 1 \in Nat
<1>1. today \in Int
  BY CalendarAssumption DEF Moments
<1>2. Day(today) \in Int
  BY <1>1, DayMonotonic
<1> QED
  BY <1>2, CalendarAssumption DEF StartDay

\* The keys are days of the window.
LEMMA KeysInWindow ==
    ASSUME NEW today \in Moments
    PROVE  Keys(today) \subseteq StartDay(today)..Day(today)
<1> DEFINE start == StartDay(today)
<1>1. /\ start \in Int /\ Day(today) = start + (Window - 1) /\ Window - 1 \in Nat
  BY WindowOf
<1> HIDE DEF start
<1>2. ASSUME NEW i \in 0..(Window - 1)
      PROVE  Key(start, i) \in start..Day(today)
  <2>1. CASE \E d \in SpringForward : start <= d /\ d < start + i
    BY <1>1, <2>1, CalendarAssumption DEF Key
  <2>2. CASE ~\E d \in SpringForward : start <= d /\ d < start + i
    BY <1>1, <2>2 DEF Key
  <2> QED
    BY <2>1, <2>2
<1> QED
  BY <1>2 DEF Keys, start

\* Without a change to summer time every day of the window has its key.
LEMMA KeysFillWindow ==
    ASSUME NEW today \in Moments,
           SpringForward \cap StartDay(today)..(Day(today) - 1) = {}
    PROVE  Keys(today) = StartDay(today)..Day(today)
<1> DEFINE start == StartDay(today)
<1>1. /\ start \in Int /\ Day(today) = start + (Window - 1) /\ Window - 1 \in Nat
      /\ SpringForward \cap start..(Day(today) - 1) = {}
  BY WindowOf
<1> HIDE DEF start
<1>2. ASSUME NEW i \in 0..(Window - 1)
      PROVE  Key(start, i) = start + i
  <2>1. ~\E d \in SpringForward : start <= d /\ d < start + i
    <3> SUFFICES ASSUME NEW d \in SpringForward, start <= d, d < start + i PROVE FALSE
      OBVIOUS
    <3>1. d \in start..(Day(today) - 1)
      BY <1>1, CalendarAssumption
    <3> QED
      BY <1>1, <3>1
  <2> QED
    BY <2>1 DEF Key
<1>3. Keys(today) \subseteq start..Day(today)
  BY KeysInWindow DEF start
<1>4. ASSUME NEW d \in start..Day(today) PROVE d \in Keys(today)
  <2>1. d - start \in 0..(Window - 1) /\ start + (d - start) = d
    BY <1>1
  <2>2. Key(start, d - start) = d
    BY <1>2, <2>1
  <2> QED
    BY <2>1, <2>2 DEF Keys, start
<1> QED
  BY <1>3, <1>4 DEF start

\* What an aggregate has in its group of day d.
Counted(series, today, d) ==
    {t \in Todos : /\ Selects(series, t) /\ Matches(Stamp(series, t), today)
                   /\ Day(Stamp(series, t)) = d}

\* A bucket holds the number of todos that its aggregate counts on its day.
LEMMA BucketCounts ==
    ASSUME NEW series \in Series, NEW today \in Moments,
           NEW d \in StartDay(today)..Day(today)
    PROVE  LET buckets == Buckets(Aggregate(series, today), today)
           IN  (IF d \in DOMAIN buckets THEN buckets[d] ELSE 0)
                   = Cardinality(Counted(series, today, d))
<1> DEFINE matched == {t \in Todos : Selects(series, t) /\ Matches(Stamp(series, t), today)}
           days == {Day(Stamp(series, t)) : t \in matched}
           agg == Aggregate(series, today)
<1>1. /\ DOMAIN agg = days
      /\ \A e \in days : agg[e] = Cardinality({t \in matched : Day(Stamp(series, t)) = e})
  BY DEF Aggregate
<1>2. {t \in matched : Day(Stamp(series, t)) = d} = Counted(series, today, d)
  BY DEF Counted
<1>3. d \notin days => Counted(series, today, d) = {}
  BY DEF Counted
<1>4. Cardinality({}) = 0
  BY FS_EmptySet
<1> HIDE DEF matched, days, agg
<1>5. IF d \in days THEN agg[d] = Cardinality(Counted(series, today, d))
                    ELSE Cardinality(Counted(series, today, d)) = 0
  BY <1>1, <1>2, <1>3, <1>4
<1> QED
  BY <1>1, <1>5 DEF Buckets, agg

\* What is counted lies between what must be and what may be.
LEMMA CountedBounds ==
    ASSUME StatsShape, TodosKnown, OthersSettled, stats.pc # "idle",
           NEW series \in Series, NEW d \in WindowDays
    PROVE  /\ Must(series, d) \subseteq Counted(series, stats.today, d)
           /\ Counted(series, stats.today, d) \subseteq May(series, d)
<1>1. StartDay(stats.today) <= d /\ stats.today \in Int
  BY WindowOf, MomentsAreNumbers DEF StatsShape, WindowDays
<1>2. ASSUME NEW t \in Todos, todos[t].exists
      PROVE  /\ todos[t].createdAt # Never
             /\ todos[t].deleted => removed[t] # Never
             /\ removed[t] # Never => todos[t].deleted
             /\ todos[t].deleted /\ t \notin touched =>
                    todos[t].updatedAt = removed[t]
             /\ t \notin since => Settled(t)
  BY <1>2, MomentsAreNumbers DEF StatsShape, TodoDoc, TodosKnown, TodoKnown, OthersSettled,
     Existing
<1>3. Must(series, d) \subseteq Counted(series, stats.today, d)
  <2> SUFFICES ASSUME NEW t \in Must(series, d) PROVE t \in Counted(series, stats.today, d)
    OBVIOUS
  <2>1. t \in Todos /\ todos[t].exists /\ Settled(t)
    BY <1>2 DEF Must, Existing
  <2> QED
    BY <1>1, <1>2, <2>1 DEF Must, Counted, Selects, Matches, Stamp, On, Settled, Series
<1>4. Counted(series, stats.today, d) \subseteq May(series, d)
  <2> SUFFICES ASSUME NEW t \in Counted(series, stats.today, d) PROVE t \in May(series, d)
    OBVIOUS
  <2>1. t \in Todos /\ todos[t].exists
    BY DEF Counted, Selects
  <2> QED
    BY <1>1, <1>2, <2>1 DEF May, Existing, Counted, Selects, Matches, Stamp, On, UpTo, Series
<1> QED
  BY <1>3, <1>4

\* A series is right when its aggregate is answered.
LEMMA FoundRight ==
    ASSUME StatsShape, TodosKnown, OthersSettled, NEW series \in Series, Awaited, stats.pc = series
    PROVE  SeriesRight(series)'
<1> DEFINE today == stats.today
           buckets == Buckets(Aggregate(series, today), today)
<1>1. /\ stats'.got[series] = buckets /\ stats'.today = today
      /\ UNCHANGED <<todos, now, removed, touched, since>> /\ stats.pc # "idle"
  BY DEF Awaited, Found, StatsShape, Series
<1>2. /\ today \in Moments
      /\ WindowDays' = WindowDays /\ (NoHourSkipped' <=> NoHourSkipped)
      /\ \A d : Must(series, d)' = Must(series, d) /\ May(series, d)' = May(series, d)
  BY <1>1 DEF StatsShape, WindowDays, NoHourSkipped, Must, May, Existing, On, UpTo,
     StartDay, Day
<1>3. DOMAIN Aggregate(series, today) \subseteq StartDay(today)..Day(today)
  <2> SUFFICES ASSUME NEW t \in Todos, Selects(series, t), Matches(Stamp(series, t), today)
               PROVE  Day(Stamp(series, t)) \in StartDay(today)..Day(today)
    BY DEF Aggregate
  <2>1. Stamp(series, t) \in Int /\ today \in Int
    BY <1>2, CalendarAssumption DEF StatsShape, Stamp, TodoDoc, Moments, Never, Series
  <2> QED
    BY <1>2, <2>1, DayMonotonic, WindowOf DEF Matches
<1>4. DOMAIN buckets = Keys(today) \cup DOMAIN Aggregate(series, today)
  BY DEF Buckets
<1>5. /\ DOMAIN buckets \subseteq WindowDays
      /\ NoHourSkipped => DOMAIN buckets = WindowDays
  BY <1>2, <1>3, <1>4, KeysInWindow, KeysFillWindow DEF WindowDays, NoHourSkipped
<1>6. ASSUME NEW d \in WindowDays
      PROVE  /\ Shown(series, d)' \in Nat
             /\ Between(Must(series, d), Shown(series, d)', May(series, d))
  <2>1. (IF d \in DOMAIN buckets THEN buckets[d] ELSE 0)
            = Cardinality(Counted(series, today, d))
    BY <1>2, BucketCounts DEF WindowDays
  <2> DEFINE counted == Counted(series, today, d)
             must == Must(series, d)
             may == May(series, d)
  <2>2. Shown(series, d)' = Cardinality(counted)
    BY <1>1, <2>1 DEF Shown
  <2>3. must \subseteq counted /\ counted \subseteq may /\ may \subseteq Todos
    BY <1>1, CountedBounds DEF May, Existing
  <2> HIDE DEF counted, must, may
  <2>4. IsFiniteSet(may) /\ IsFiniteSet(counted)
    BY <2>3, TodosAssumption, FS_Subset
  <2>5. Cardinality(counted) \in Nat /\ Cardinality(must) <= Cardinality(counted)
        /\ Cardinality(counted) <= Cardinality(may)
    BY <2>3, <2>4, FS_Subset, FS_CardinalityType
  <2>6. Between(must, Cardinality(counted), may)
    BY <2>5 DEF Between
  <2> QED
    BY <2>2, <2>5, <2>6 DEF must, may
<1> HIDE DEF buckets
<1>7. ASSUME NEW d \in WindowDays
      PROVE  /\ Shown(series, d)' \in Nat
             /\ Between(Must(series, d), Shown(series, d), May(series, d))'
  BY <1>2, <1>6 DEF Between
<1> QED
  BY <1>1, <1>2, <1>5, <1>7 DEF SeriesRight

(***************************************************************************)
(* The invariant of the statistics, step by step.                          *)
(***************************************************************************)
\* An answer that has gone leaves nothing to be right about.
LEMMA GoneKeeps ==
    ASSUME StatsIInv, stats' = NoStats, StatsShape', TodosKnown', UpdatesKnown',
           CompletionsDated'
    PROVE  StatsIInv'
<1>1. DOMAIN stats'.got = {} /\ stats'.pc = "idle"
  BY DEF NoStats
<1> QED
  BY <1>1 DEF StatsIInv, OthersSettled, SeriesKept, TotalsKept

\* The statistics gather series or totals, never both.
LEMMA SeriesOrTotals ==
    ASSUME NEW pc \in Series \cup Totals
    PROVE  /\ pc \in StatsStates /\ pc # "idle"
           /\ pc \in Series => Gathered[pc] \cap Totals = {}
           /\ pc \in Totals => Gathered[pc] \cap Series = {}
BY GatheredAt DEF Series, Totals, StatsStates

\* Without a call there is nothing to find.
LEMMA NoStatsShape ==
    /\ NoStats = [pc |-> NoStats.pc, today |-> NoStats.today, got |-> NoStats.got]
    /\ NoStats.pc = "idle" /\ NoStats.pc \in StatsStates
    /\ NoStats.today = 0 /\ NoStats.today \in Moments
    /\ DOMAIN NoStats.got = Gathered[NoStats.pc]
BY GatheredAt, CalendarAssumption DEF NoStats, StatsStates, Moments

\* Writes to todos keep the statistics' invariant.
LEMMA WritesKeep ==
    ASSUME StatsIInv, NEW t \in Todos, TodosMoved(t), Elapses({t}), TodosKnown', UpdatesKnown',
           CompletionsDated'
    PROVE  StatsIInv'
<1>1. StatsShape /\ TodosKnown
  BY DEF StatsIInv
<1>2. CASE UnderWay
  <2>1. stats' = stats /\ since' = since \cup {t}
    BY <1>2 DEF Elapses
  <2>2. StatsShape'
    BY <1>1, <2>1 DEF StatsShape, TodosMoved
  <2>3. SeriesKept'
    BY <1>1, <2>1, SeriesStays DEF StatsIInv, SeriesKept
  <2>4. TotalsKept'
    BY <2>1 DEF TotalsKept
  <2>5. OthersSettled'
    <3>1. ASSUME NEW u \in Existing', u \notin since', stats.pc # "idle" PROVE Settled(u)'
      <4>1. u \in Todos \ {t} /\ todos'[u] = todos[u] /\ removed'[u] = removed[u]
        BY <2>1, <3>1 DEF Existing, TodosMoved
      <4>2. u \in Existing \ since
        BY <2>1, <3>1, <4>1 DEF Existing
      <4> QED
        BY <2>1, <3>1, <4>1, <4>2 DEF StatsIInv, OthersSettled, Settled
    <3> QED
      BY <2>1, <3>1 DEF OthersSettled
  <2> QED
    BY <2>2, <2>3, <2>4, <2>5 DEF StatsIInv
<1>3. CASE ~UnderWay
  <2>1. stats' = NoStats /\ since' = {}
    BY <1>3 DEF Elapses
  <2>2. StatsShape'
    BY <1>1, <2>1, NoStatsShape DEF StatsShape, TodosMoved, Moments
  <2> QED
    BY <2>1, <2>2, GoneKeeps
<1> QED
  BY <1>2, <1>3

\* A step that leaves the todos alone leaves a series right.
LEMMA SeriesSame ==
    ASSUME UNCHANGED <<todos, removed, touched, since>>, stats'.today = stats.today, NEW series,
           stats'.got[series] = stats.got[series], SeriesRight(series)
    PROVE  SeriesRight(series)'
<1>1. /\ WindowDays' = WindowDays /\ (NoHourSkipped' <=> NoHourSkipped)
      /\ \A d : Must(series, d)' = Must(series, d) /\ May(series, d)' = May(series, d)
      /\ \A d : Shown(series, d)' = Shown(series, d)
  BY DEF WindowDays, NoHourSkipped, Must, May, Existing, On, UpTo, Shown
<1> QED
  BY <1>1 DEF SeriesRight, Between

\* While the todos stay, time and the updates under way may go on.
LEMMA ElapsesKeeps ==
    ASSUME StatsIInv, UNCHANGED <<todos, removed, touched>>, Elapses({}), now <= now',
           now' \in Moments, odd' \subseteq Todos, TodosKnown', UpdatesKnown', CompletionsDated'
    PROVE  StatsIInv'
<1>1. StatsShape
  BY DEF StatsIInv
<1>2. CASE UnderWay
  <2>1. stats' = stats /\ since' = since
    BY <1>2 DEF Elapses
  <2>2. StatsShape'
    BY <1>1, <2>1, MomentsAreNumbers DEF StatsShape
  <2>3. SeriesKept'
    BY <2>1, SeriesSame DEF StatsIInv, SeriesKept
  <2>4. TotalsKept'
    BY <2>1 DEF StatsIInv, TotalsKept, Count, Existing
  <2>5. OthersSettled'
    BY <2>1 DEF StatsIInv, OthersSettled, Existing, Settled
  <2> QED
    BY <2>2, <2>3, <2>4, <2>5 DEF StatsIInv
<1>3. CASE ~UnderWay
  <2>1. stats' = NoStats /\ since' = {}
    BY <1>3 DEF Elapses
  <2>2. StatsShape'
    BY <1>1, <2>1, NoStatsShape DEF StatsShape, Moments
  <2> QED
    BY <2>1, <2>2, GoneKeeps
<1> QED
  BY <1>2, <1>3

\* What is known of the todos and their dates depends on them alone.
LEMMA TodosStay ==
    ASSUME StatsIInv, UNCHANGED <<todos, now, removed, touched>>, odd \subseteq odd'
    PROVE  TodosKnown' /\ CompletionsDated'
BY DEF StatsIInv, TodosKnown, TodoKnown, CompletionsDated, Existing

\* The clock keeps it.
LEMMA ClockKeeps == ASSUME StatsIInv, ClockAdvances PROVE StatsIInv'
<1>1. StatsShape /\ TodosKnown /\ UpdatesKnown /\ CompletionsDated
  BY DEF StatsIInv
<1>2. /\ now' = now + 1 /\ now' \in Moments /\ now \in Int /\ now <= now' /\ Elapses({})
      /\ UNCHANGED <<todos, removed, touched, odd, update>>
  BY <1>1, CalendarAssumption DEF ClockAdvances, StatsShape, Moments
<1>3. TodosKnown'
  <2>1. ASSUME NEW t \in Todos PROVE TodoKnown(t)'
    <3>1. TodoKnown(t) /\ todos[t] \in TodoDoc /\ removed[t] \in Moments \cup {Never}
      BY <1>1 DEF TodosKnown, StatsShape
    <3>2. /\ todos[t].createdAt \in Int /\ todos[t].updatedAt \in Int
          /\ todos[t].completedAt \in Int /\ removed[t] \in Int
      BY <3>1, MomentsAreNumbers DEF TodoDoc
    <3> QED
      BY <1>2, <3>1, <3>2 DEF TodoKnown
  <2> QED
    BY <2>1 DEF TodosKnown
<1>4. UpdatesKnown'
  <2>1. ASSUME NEW u \in Updates, update[u].todo # NoTodo PROVE update[u].at <= now'
    <3>1. update[u].at \in Int /\ update[u].at <= now
      BY <1>1, <2>1, MomentsAreNumbers DEF UpdatesKnown, Update
    <3> QED
      BY <1>2, <3>1
  <2> QED
    BY <1>1, <1>2, <2>1 DEF UpdatesKnown, Existing
<1>5. CompletionsDated' /\ odd' \subseteq Todos
  BY <1>1, <1>2 DEF CompletionsDated, Existing, StatsShape
<1> QED
  BY <1>2, <1>3, <1>4, <1>5, ElapsesKeeps

\* An update that reads its todo keeps it.
LEMMA FindKeeps ==
    ASSUME StatsIInv, NEW u \in Updates, NEW t \in Todos, NEW wish \in Wishes,
           UpdateFind(u, t, wish)
    PROVE  StatsIInv'
<1> DEFINE new == [todo |-> t, wish |-> wish, open |-> wish = "title" \/ ~todos[t].completed,
                   at |-> now]
<1>1. StatsShape /\ UpdatesKnown
  BY DEF StatsIInv
<1>2. /\ update' = [update EXCEPT ![u] = new] /\ update[u].todo = NoTodo
      /\ odd' = IF \E v \in Updates : update[v].todo = t THEN odd \cup {t} ELSE odd
      /\ todos[t].exists /\ t # NoTodo
      /\ UNCHANGED <<todos, now, removed, touched>> /\ Elapses({})
  BY TodosAssumption DEF UpdateFind
<1>3. new \in Update
  BY <1>1 DEF Update, StatsShape
<1>4. /\ new.todo = t /\ new.wish = wish /\ new.at = now
      /\ wish # "title" => (new.open <=> ~todos[t].completed)
  OBVIOUS
<1> HIDE DEF new
<1>5. /\ update' \in [Updates -> Update] /\ update'[u] = new
      /\ \A v \in Updates \ {u} : update'[v] = update[v]
      /\ odd \subseteq odd' /\ odd' \subseteq Todos
  BY <1>1, <1>2, <1>3 DEF UpdatesKnown, StatsShape
<1>6. UpdatesKnown'
  <2>1. ASSUME NEW v \in Updates, update'[v].todo # NoTodo
        PROVE  update'[v].todo \in Existing' /\ update'[v].at <= now'
    <3>1. CASE v = u
      BY <1>1, <1>2, <1>4, <1>5, <3>1, MomentsAreNumbers DEF Existing, StatsShape
    <3>2. CASE v # u
      BY <1>1, <1>2, <1>5, <2>1, <3>2 DEF UpdatesKnown, Existing
    <3> QED
      BY <3>1, <3>2
  <2>2. ASSUME NEW v \in Updates, update'[v].todo # NoTodo, update'[v].todo \notin odd'
        PROVE  \A w \in Updates : update'[w].todo = update'[v].todo => w = v
    <3>1. CASE update'[v].todo = t
      <4>1. ~\E w \in Updates : update[w].todo = t
        BY <1>2, <2>2, <3>1
      <4> QED
        BY <1>4, <1>5, <3>1, <4>1
    <3>2. CASE update'[v].todo # t
      BY <1>1, <1>4, <1>5, <2>2, <3>2 DEF UpdatesKnown
    <3> QED
      BY <3>1, <3>2
  <2>3. ASSUME NEW v \in Updates, update'[v].todo # NoTodo, update'[v].todo \notin odd',
               update'[v].wish # "title"
        PROVE  update'[v].open <=> ~todos'[update'[v].todo].completed
    <3>1. CASE v = u
      BY <1>2, <1>4, <1>5, <2>3, <3>1
    <3>2. CASE v # u
      BY <1>1, <1>2, <1>5, <2>3, <3>2 DEF UpdatesKnown
    <3> QED
      BY <3>1, <3>2
  <2> QED
    BY <1>5, <2>1, <2>2, <2>3 DEF UpdatesKnown
<1>7. now <= now' /\ now' \in Moments
  BY <1>1, <1>2, MomentsAreNumbers DEF StatsShape
<1> QED
  BY <1>2, <1>5, <1>6, <1>7, TodosStay, ElapsesKeeps

\* So does one that fails.
LEMMA FailsKeeps ==
    ASSUME StatsIInv, NEW u \in Updates, UpdateFails(u)
    PROVE  StatsIInv'
<1>1. StatsShape /\ UpdatesKnown
  BY DEF StatsIInv
<1>2. /\ update' = [update EXCEPT ![u] = NoUpdate]
      /\ UNCHANGED <<todos, now, removed, touched, odd>> /\ Elapses({})
  BY DEF UpdateFails
<1>3. NoUpdate \in Update /\ NoUpdate.todo = NoTodo
  BY CalendarAssumption DEF NoUpdate, Update, Wishes, Moments
<1>4. /\ update' \in [Updates -> Update] /\ update'[u].todo = NoTodo
      /\ \A v \in Updates \ {u} : update'[v] = update[v]
  BY <1>1, <1>2, <1>3 DEF UpdatesKnown
<1>5. UpdatesKnown'
  BY <1>1, <1>2, <1>4 DEF UpdatesKnown, Existing
<1>6. now <= now' /\ now' \in Moments /\ odd \subseteq odd' /\ odd' \subseteq Todos
  BY <1>1, <1>2, MomentsAreNumbers DEF StatsShape
<1> QED
  BY <1>2, <1>5, <1>6, TodosStay, ElapsesKeeps

\* A call that begins keeps it.
LEMMA BeginCallKeeps ==
    ASSUME StatsIInv, NEW first \in {"created", "total"}, BeginCall(first)
    PROVE  StatsIInv'
<1>1. /\ stats'.pc = first /\ stats'.today = now /\ DOMAIN stats'.got = {}
      /\ stats' = [pc |-> stats'.pc, today |-> stats'.today, got |-> stats'.got]
      /\ since' = {} /\ UNCHANGED <<todos, now, update, removed, touched, odd>>
  BY DEF BeginCall, NoStats
<1>2. StatsShape' /\ TodosKnown'
  BY <1>1, GatheredAt, MomentsAreNumbers DEF StatsIInv, StatsShape, TodosKnown, TodoKnown,
     StatsStates, Series, Totals
<1>3. UpdatesKnown' /\ CompletionsDated'
  BY <1>1 DEF StatsIInv, UpdatesKnown, CompletionsDated, Existing
<1>4. OthersSettled'
  BY <1>1 DEF StatsIInv, OthersSettled, Settled, Existing, TodosKnown, TodoKnown
<1> QED
  BY <1>1, <1>2, <1>3, <1>4 DEF StatsIInv, SeriesKept, TotalsKept

\* An answer keeps it.
LEMMA AwaitedKeeps == ASSUME StatsIInv, Awaited PROVE StatsIInv'
<1> DEFINE pc == stats.pc
           got == stats.got
<1>1. /\ pc \in Series \cup Totals /\ pc # "idle" /\ StatsShape /\ TodosKnown /\ OthersSettled
      /\ UNCHANGED <<todos, now, update, removed, touched, since, odd>>
      /\ DOMAIN got = Gathered[pc]
  BY SeriesOrTotals DEF Awaited, UnderWay, StatsIInv, StatsShape
<1>2. /\ stats'.pc = After[pc] /\ stats'.today = stats.today
      /\ DOMAIN stats'.got = DOMAIN got \cup {pc}
      /\ stats'.got[pc] = Found(pc)
      /\ \A s \in DOMAIN got \ {pc} : stats'.got[s] = got[s]
      /\ stats' = [pc |-> stats'.pc, today |-> stats'.today, got |-> stats'.got]
  BY DEF Awaited, StatsIInv, StatsShape
<1>3. /\ After[pc] \in StatsStates /\ Gathered[After[pc]] = Gathered[pc] \cup {pc}
      /\ pc \in Series => Gathered[pc] \subseteq Series /\ pc \notin Gathered[pc]
      /\ pc \in Totals => Gathered[pc] \subseteq Totals /\ pc \notin Gathered[pc]
      /\ Series \cap Totals = {}
  BY <1>1, AfterGathers DEF Series, Totals
<1>4. StatsShape' /\ TodosKnown'
  BY <1>1, <1>2, <1>3 DEF StatsShape, TodosKnown, TodoKnown
<1>5. SeriesKept'
  <2>1. SUFFICES ASSUME NEW s \in Series, s \in DOMAIN got \cup {pc} PROVE SeriesRight(s)'
    BY <1>2 DEF SeriesKept
  <2>2. CASE s = pc
    BY <1>1, <2>2, FoundRight
  <2>3. CASE s # pc
    <3>1. s \in DOMAIN got /\ stats'.got[s] = got[s] /\ SeriesRight(s)
      BY <1>2, <2>1, <2>3 DEF StatsIInv, SeriesKept
    <3> QED
      BY <1>1, <1>2, <3>1, SeriesSame
  <2> QED
    BY <2>2, <2>3
<1>6. TotalsKept'
  <2>1. \A which : Count(which)' = Count(which)
    BY <1>1 DEF Count, Existing
  <2>2. \A which \in Totals : Found(which) = Count(which)
    BY <1>3 DEF Found
  <2> QED
    BY <1>1, <1>2, <1>3, <2>1, <2>2 DEF StatsIInv, TotalsKept
<1>7. OthersSettled' /\ UpdatesKnown' /\ CompletionsDated'
  BY <1>1, <1>2 DEF StatsIInv, OthersSettled, Settled, UpdatesKnown, CompletionsDated, Existing
<1> QED
  BY <1>4, <1>5, <1>6, <1>7 DEF StatsIInv

\* A call that fails keeps it.
LEMMA AwaitFailsKeeps == ASSUME StatsIInv, AwaitFails PROVE StatsIInv'
<1>1. StatsShape /\ stats' = NoStats /\ UNCHANGED <<todos, now, update, removed, touched, since, odd>>
  BY DEF AwaitFails, StatsIInv
<1>2. StatsShape'
  BY <1>1, NoStatsShape DEF StatsShape, Moments
<1>3. UpdatesKnown'
  BY <1>1 DEF StatsIInv, UpdatesKnown, Existing
<1> QED
  BY <1>1, <1>2, <1>3, TodosStay, GoneKeeps

\* Every step keeps it.
LEMMA StatsStep == StatsIInv /\ [StatsNext]_statsVars => StatsIInv'
<1> SUFFICES ASSUME StatsIInv, [StatsNext]_statsVars PROVE StatsIInv'
  OBVIOUS
<1>1. ASSUME NEW t \in Todos, NEW completed \in BOOLEAN, NEW deleted \in BOOLEAN,
             CreateTodo(t, completed, deleted)
      PROVE  StatsIInv'
  <2>1. Elapses({t})
    BY <1>1 DEF CreateTodo, Writes
  <2>2. TodosMoved(t) /\ TodosKnown' /\ UpdatesKnown' /\ CompletionsDated'
    BY <1>1, CreateMoves
  <2> QED
    BY <2>1, <2>2, WritesKeep
<1>2. ASSUME NEW t \in Todos, DeleteTodo(t) PROVE StatsIInv'
  <2>1. Elapses({t})
    BY <1>2 DEF DeleteTodo, Writes
  <2> QED
    BY <1>2, <2>1, DeleteMoves, WritesKeep
<1>3. ASSUME NEW u \in Updates, UpdateWrite(u) PROVE StatsIInv'
  <2>1. PICK t : t = update[u].todo
    OBVIOUS
  <2>2. t \in Todos /\ TodosMoved(t) /\ TodosKnown' /\ UpdatesKnown' /\ CompletionsDated'
    BY <1>3, <2>1, UpdateMoves
  <2>3. Elapses({t})
    BY <1>3, <2>1 DEF UpdateWrite, Writes
  <2> QED
    BY <2>2, <2>3, WritesKeep
<1>4. ASSUME NEW u \in Updates, NEW t \in Todos, NEW wish \in Wishes, UpdateFind(u, t, wish)
      PROVE  StatsIInv'
  BY <1>4, FindKeeps
<1>5. ASSUME NEW u \in Updates, UpdateFails(u) PROVE StatsIInv'
  BY <1>5, FailsKeeps
<1>6. CASE ClockAdvances
  BY <1>6, ClockKeeps
<1>7. CASE BeginStats \/ BeginDetails
  BY <1>7, BeginCallKeeps DEF BeginStats, BeginDetails
<1>8. CASE Awaited
  BY <1>8, AwaitedKeeps
<1>9. CASE AwaitFails
  BY <1>9, AwaitFailsKeeps
<1>10. CASE UNCHANGED statsVars
  <2>1. UNCHANGED <<todos, now, update, stats, removed, touched, since, odd>>
    BY <1>10 DEF statsVars
  <2>2. StatsShape' /\ TodosKnown' /\ UpdatesKnown' /\ CompletionsDated' /\ OthersSettled'
    BY <2>1 DEF StatsIInv, StatsShape, TodosKnown, TodoKnown, UpdatesKnown, CompletionsDated,
       OthersSettled, Settled, Existing
  <2>3. SeriesKept'
    BY <2>1, SeriesSame DEF StatsIInv, SeriesKept
  <2>4. TotalsKept'
    BY <2>1 DEF StatsIInv, TotalsKept, Count, Existing
  <2> QED
    BY <2>2, <2>3, <2>4 DEF StatsIInv
<1> QED
  BY <1>1, <1>2, <1>3, <1>4, <1>5, <1>6, <1>7, <1>8, <1>9, <1>10 DEF StatsNext

\* At first nothing is gathered.
LEMMA StatsInitHolds == StatsInit => StatsIInv
<1> SUFFICES ASSUME StatsInit PROVE StatsIInv
  OBVIOUS
<1>1. /\ stats = NoStats /\ DOMAIN stats.got = {} /\ stats.pc = "idle"
      /\ \A t \in Todos : todos[t] = Unborn /\ removed[t] = Never
      /\ now = 0 /\ 0 \in Moments
  BY MomentsAreNumbers DEF StatsInit, NoStats
<1>2. Unborn \in TodoDoc /\ NoUpdate \in Update
  BY <1>1 DEF Unborn, TodoDoc, NoUpdate, Update, Wishes
<1>3. StatsShape
  BY <1>1, <1>2, NoStatsShape DEF StatsInit, StatsShape, Moments
<1>4. TodosKnown /\ CompletionsDated
  BY <1>1, MomentsAreNumbers DEF StatsInit, TodosKnown, TodoKnown, Unborn, CompletionsDated,
     Existing
<1>5. UpdatesKnown
  BY <1>2 DEF StatsInit, UpdatesKnown, NoUpdate
<1> QED
  BY <1>1, <1>3, <1>4, <1>5 DEF StatsIInv, OthersSettled, SeriesKept, TotalsKept

\* The invariant contains the types.
LEMMA StatsTyped == StatsIInv => StatsTypeOK
<1> SUFFICES ASSUME StatsIInv PROVE StatsTypeOK
  OBVIOUS
<1>1. DOMAIN stats.got \subseteq Series \/ DOMAIN stats.got \subseteq Totals
  BY GatheredAt DEF StatsIInv, StatsShape, StatsStates, Series, Totals
<1> QED
  BY <1>1 DEF StatsIInv, StatsShape, UpdatesKnown, StatsTypeOK, StatsStates

\* Complete series lie in the window, are aligned and count right.
LEMMA SeriesAreExact == StatsIInv => SeriesExact /\ SeriesInWindow /\ SeriesAligned
<1> SUFFICES ASSUME StatsIInv, stats.pc = "stats"
             PROVE  SeriesExact /\ SeriesInWindow /\ SeriesAligned
  BY DEF SeriesExact, SeriesInWindow, SeriesAligned
<1>1. ASSUME NEW s \in Series PROVE SeriesRight(s)
  BY GatheredAt DEF StatsIInv, StatsShape, SeriesKept
<1>2. SeriesInWindow /\ SeriesAligned
  BY <1>1 DEF SeriesRight, SeriesInWindow, SeriesAligned, WindowDays, NoHourSkipped
<1>3. SeriesExact
  BY <1>1 DEF SeriesExact, SeriesRight, Between, WindowDays
<1> QED
  BY <1>2, <1>3

\* Disjoint sets add up.
LEMMA TwoKinds ==
    ASSUME NEW S, NEW T, IsFiniteSet(S), IsFiniteSet(T), S \cap T = {}
    PROVE  IsFiniteSet(S \cup T) /\ Cardinality(S \cup T) = Cardinality(S) + Cardinality(T)
<1>1. /\ IsFiniteSet(S \cup T)
      /\ Cardinality(S \cup T) = Cardinality(S) + Cardinality(T) - Cardinality({})
  BY FS_Union
<1>2. Cardinality({}) = 0 /\ Cardinality(S) \in Nat /\ Cardinality(T) \in Nat
  BY FS_EmptySet, FS_CardinalityType
<1> QED
  BY <1>1, <1>2

\* Complete totals add up.
LEMMA TotalsDoAddUp == StatsIInv => TotalsAddUp
<1> SUFFICES ASSUME StatsIInv, stats.pc = "details", since = {}
             PROVE  stats.got["total"] = stats.got["totalCompleted"] + stats.got["totalActive"]
                                         + stats.got["totalDeleted"]
  BY DEF TotalsAddUp
<1> DEFINE C == {t \in Existing : todos[t].completed /\ ~todos[t].deleted}
           A == {t \in Existing : ~todos[t].completed /\ ~todos[t].deleted}
           D == {t \in Existing : todos[t].deleted}
<1>1. \A which \in Totals : stats.got[which] = Count(which)
  BY GatheredAt DEF StatsIInv, StatsShape, TotalsKept
<1>2. /\ Count("total") = Cardinality(Existing)
      /\ Count("totalCompleted") = Cardinality(C)
      /\ Count("totalActive") = Cardinality(A)
      /\ Count("totalDeleted") = Cardinality(D)
  BY DEF Count
<1>3. Existing = (C \cup A) \cup D /\ C \cap A = {} /\ (C \cup A) \cap D = {}
  OBVIOUS
<1>4. IsFiniteSet(C) /\ IsFiniteSet(A) /\ IsFiniteSet(D)
  <2>1. C \subseteq Todos /\ A \subseteq Todos /\ D \subseteq Todos
    BY DEF Existing
  <2> QED
    BY <2>1, TodosAssumption, FS_Subset
<1> HIDE DEF C, A, D
<1>5. Cardinality(C) \in Nat /\ Cardinality(A) \in Nat /\ Cardinality(D) \in Nat
  BY <1>4, FS_CardinalityType
<1>6. Cardinality(C \cup A) = Cardinality(C) + Cardinality(A) /\ IsFiniteSet(C \cup A)
  BY <1>3, <1>4, TwoKinds
<1>7. Cardinality((C \cup A) \cup D) = Cardinality(C \cup A) + Cardinality(D)
  BY <1>3, <1>4, <1>6, TwoKinds
<1> QED
  BY <1>1, <1>2, <1>3, <1>5, <1>6, <1>7 DEF Totals

\* The statistics' invariant holds always.
LEMMA StatsInvariant == StatsSpec => []StatsIInv
BY StatsInitHolds, StatsStep, PTL DEF StatsSpec

(***************************************************************************)
(* A series of the statistics holds, for each day of the window and no     *)
(* other, the todos of that day as they were when the call began, whatever *)
(* is written while the three aggregates run, and the four totals add up   *)
(* when nothing is (getLast14DaysStats, todos.service.ts:217-346,          *)
(* getApplicationDetails, admin.service.ts:297-300).  A todo has a date of *)
(* completion while it is completed, unless it was created as completed or *)
(* two updates worked on it at once (todos.service.ts:78-81, 99-132).      *)
(***************************************************************************)
THEOREM StatisticsAreTrue == StatsSpec => []StatsTruthful
<1>1. StatsIInv => StatsTruthful
  BY SeriesAreExact, TotalsDoAddUp DEF StatsTruthful, StatsIInv
<1> QED
  BY <1>1, StatsInvariant, PTL

\* The collection, the clock and the call under way have their types.
THEOREM StatsTypeCorrect == StatsSpec => []StatsTypeOK
BY StatsTyped, StatsInvariant, PTL

-----------------------------------------------------------------------------
(* The tab.  What AuthContext and the pages do together is a step of each. *)
LEMMA EntrySteps ==
    ASSUME LogsIn
    PROVE  Next /\ PagesNext
<1> PICK r \in Requests, admin \in BOOLEAN :
        \/ \E token \in Tokens : LoginSucceeds(r, token) /\ Enter(admin, "todos")
        \/ /\ request[r].kind = "me" /\ Succeeds(r)
           /\ \E p \in PageNames : Enter(admin, p)
  BY DEF LogsIn
<1>1. "todos" \in PageNames
  BY DEF PageNames
<1>2. \E p \in PageNames : Enter(admin, p)
  BY <1>1
<1>3. Settles(r)
  BY DEF Settles
<1> QED
  BY <1>2, <1>3 DEF Next, PagesNext, PagesStep, SessionStep

LEMMA ExitSteps ==
    ASSUME LogsOut
    PROVE  Next /\ (PagesNext \/ UNCHANGED pagesVars)
<1>1. Next
  BY DEF LogsOut, Next, Delivered
<1>2. Logout \/ UNCHANGED pagesVars
  BY DEF LogsOut
<1> QED
  BY <1>1, <1>2 DEF PagesNext, PagesStep, SessionStep

LEMMA ModalSteps ==
    ASSUME ModalStep
    PROVE  Next /\ PagesNext
BY DEF ModalStep, Next, Delivered, PagesNext, PagesStep, SessionStep

LEMMA AuthSteps ==
    ASSUME AuthStep
    PROVE  Next /\ UNCHANGED pagesVars
<1>1. CASE \E r \in Requests :
              \/ Send(r) \/ (SendLogin(r) /\ ~Entering)
              \/ request[r].kind # "me" /\ Succeeds(r)
              \/ Rejected(r) \/ Waits(r) \/ Refreshes(r) \/ RequestFails(r)
              \/ InterceptorRefreshed(r)
  BY <1>1 DEF AuthStep, Next, Settles, Delivered
<1>2. CASE \E c \in Callers : Handled(c)
  BY <1>2 DEF AuthStep, Next
<1> QED
  BY <1>1, <1>2 DEF AuthStep, Next, Delivered

LEMMA AppStepIsPartStep ==
    ASSUME [AppNext]_appVars
    PROVE  [Next]_vars /\ [PagesNext]_pagesVars
<1>1. CASE UNCHANGED appVars
  BY <1>1 DEF appVars
<1>2. CASE PageStep(Kinds \ Loads) /\ UNCHANGED vars
  BY <1>2 DEF PagesNext, PagesStep
<1>3. CASE Reload /\ PageReloaded
  BY <1>3 DEF Next, PagesNext, PagesStep, SessionStep
<1> QED
  BY <1>1, <1>2, <1>3, EntrySteps, ExitSteps, ModalSteps, AuthSteps DEF AppNext, AppStep

(* The tab keeps AuthContext and the pages each as they are by themselves, *)
(* through the logins, logouts and refreshes that they make together       *)
(* (App.tsx, AuthContext.tsx:212-222, TokenRefreshModal.tsx:16-26).        *)
THEOREM AppImplementsParts == AppSpec => Spec /\ PagesSpec
<1>1. AppInit => Init /\ PagesInit
  BY DEF AppInit
<1> QED
  BY <1>1, AppStepIsPartStep, PTL DEF AppSpec, Spec, PagesSpec

(* In the tab a request that waits has a refresh to wait for, nobody is    *)
(* logged out without a cause, the spinner turns while there is work, and  *)
(* a page left in peace is up to date (axios.ts:95-142,                    *)
(* LoadingProvider.tsx:17-20, AdminPage.tsx:31-137).                       *)
THEOREM AppSafe ==
    AppSpec => /\ []QueueHasRefresh /\ []KickedForCause
               /\ []SpinnerMatchesWork /\ []UndisturbedListCurrent
BY AppImplementsParts, QueueAnswered, NobodyKickedAlone, SpinnerNeverSticks, ListsAreCurrent, PTL

-----------------------------------------------------------------------------
(* The tab is of one mind about who is logged in.  That needs that one at  *)
(* most is logging somebody in, and only while nobody is: initAuth by its  *)
(* refresh and the question that follows it, or the form by its request.   *)
Enters(c) ==
    IF c = "refresh" THEN InFlight(c) /\ call[c].by = "init"
    ELSE request[c].pc # "idle" /\ request[c].kind # "data"

EntersAlone ==
    /\ user => \A c \in Refreshers : ~Enters(c)
    /\ \A c, d \in Refreshers : Enters(c) /\ Enters(d) => c = d

AppIInv == Linked /\ EntersAlone

\* A request that stays a request of its kind, or ends.
OfItsKind(r) ==
    request'[r].pc # "idle" => request[r].pc # "idle" /\ request'[r].kind = request[r].kind

\* The refresh of AuthContext stays under way for whom it was, or stays away.
RefreshStays ==
    /\ InFlight("refresh")' <=> InFlight("refresh")
    /\ call'["refresh"].by = call["refresh"].by

LEMMA RefreshIsNoRequest ==
    "refresh" \notin Requests /\ "refresh" \in Refreshers /\ "refresh" \in Callers
BY CallersAssumption DEF AuthContext, Refreshers, Callers

\* When none begins, those that log somebody in stay alone.
LEMMA NoneBegins ==
    ASSUME EntersAlone, user' => user,
           \A r \in Requests : OfItsKind(r),
           Enters("refresh")' => Enters("refresh")
    PROVE  EntersAlone'
<1>1. ASSUME NEW c \in Refreshers, Enters(c)' PROVE Enters(c)
  <2>1. CASE c = "refresh"
    BY <1>1, <2>1
  <2>2. CASE c # "refresh"
    BY <1>1, <2>2, RefreshIsNoRequest DEF Enters, OfItsKind, Refreshers
  <2> QED
    BY <2>1, <2>2
<1> QED
  BY <1>1 DEF EntersAlone

\* A refresh that stays keeps the modal waiting or not.
LEMMA RefreshKept ==
    ASSUME RefreshStays
    PROVE  (ModalAwaits' <=> ModalAwaits) /\ (Enters("refresh")' => Enters("refresh"))
BY DEF RefreshStays, ModalAwaits, Enters

-----------------------------------------------------------------------------
(* What the steps of AuthContext and the interceptor leave of requests.    *)
LEMMA RequestGoesOn ==
    ASSUME TypeOK, NEW r \in Requests,
           \/ Rejected(r) \/ Waits(r) \/ RequestFails(r)
           \/ request[r].kind # "me" /\ Succeeds(r)
    PROVE  /\ \A s \in Requests : OfItsKind(s)
           /\ RefreshStays /\ user' = user /\ modal' = modal
<1>1. request \in [Requests -> Request] /\ user \in BOOLEAN
  BY DEF TypeOK
<1>2. call' = call /\ modal' = modal
  BY DEF Rejected, Waits, RequestFails, Succeeds, client
<1>3. user' = user
  BY <1>1 DEF Rejected, Waits, RequestFails, Succeeds, client
<1>4. Waits(r) => \A s \in Requests : OfItsKind(s)
  BY <1>1 DEF Waits, Unauthorized, OfItsKind, Request
<1>5. request' = [request EXCEPT ![r] = IdleRequest] => \A s \in Requests : OfItsKind(s)
  BY <1>1 DEF OfItsKind, IdleRequest
<1>6. \A s \in Requests : OfItsKind(s)
  BY <1>4, <1>5 DEF Rejected, RequestFails, Succeeds
<1> QED
  BY <1>2, <1>3, <1>6 DEF RefreshStays, InFlight

LEMMA RefreshGoesOn ==
    ASSUME TypeOK, NEW r \in Requests, Refreshes(r) \/ InterceptorRefreshed(r)
    PROVE  /\ \A s \in Requests : OfItsKind(s)
           /\ RefreshStays /\ user' = user /\ modal' = modal
<1>1. /\ request \in [Requests -> Request] /\ call \in [Callers -> Call]
      /\ r \in Callers /\ r # "refresh" /\ "refresh" \in Callers
  BY RefreshIsNoRequest DEF TypeOK, Callers
<1>2. CASE Refreshes(r)
  <2>1. \A s \in Requests : OfItsKind(s)
    BY <1>1, <1>2 DEF Refreshes, Unauthorized, OfItsKind, Request
  <2>2. call'["refresh"] = call["refresh"] /\ user' = user /\ modal' = modal
    BY <1>1, <1>2 DEF Refreshes, Sends
  <2> QED
    BY <2>1, <2>2 DEF RefreshStays, InFlight
<1>3. CASE InterceptorRefreshed(r)
  <2>1. InFlight(r) /\ request[r].pc = "refreshing"
    BY <1>3 DEF InterceptorRefreshed, InFlight, TypeOK
  <2>2. \A s \in Requests : OfItsKind(s)
    <3>1. request' = [Processed(TRUE) EXCEPT ![r] = Sent(TRUE, @)]
      BY <1>3 DEF InterceptorRefreshed
    <3>2. Processed(TRUE)[r] = request[r]
      BY <1>1, <2>1, ProcessedTyped
    <3>3. \A s \in Requests : request[s].pc = "idle" => Processed(TRUE)[s] = request[s]
      BY <1>1, ProcessedTyped
    <3>4. \A s \in Requests : Processed(TRUE)[s].kind = request[s].kind
      BY <1>1, RecordsTyped DEF Processed
    <3>5. Processed(TRUE) \in [Requests -> Request]
      BY <1>1, ProcessedTyped
    <3> HIDE DEF Processed
    <3>6. request'[r] = Sent(TRUE, request[r])
      BY <3>1, <3>2, <3>5
    <3>7. \A s \in Requests \ {r} : request'[s] = Processed(TRUE)[s]
      BY <3>1, <3>5
    <3>10. request[r] \in Request /\ Sent(TRUE, request[r]).kind = request[r].kind
      BY <1>1, RecordsTyped
    <3>8. OfItsKind(r)
      BY <1>1, <2>1, <3>6, <3>10 DEF OfItsKind
    <3>9. \A s \in Requests \ {r} : OfItsKind(s)
      BY <3>3, <3>4, <3>7 DEF OfItsKind
    <3> QED
      BY <3>8, <3>9
  <2>3. call'["refresh"] = call["refresh"] /\ user' = user /\ modal' = modal
    BY <1>1, <1>3 DEF InterceptorRefreshed
  <2> QED
    BY <2>2, <2>3 DEF RefreshStays, InFlight
<1> QED
  BY <1>2, <1>3

\* The calls, the button, the modal's opening, the passing of time.
LEMMA CallGoesOn ==
    ASSUME TypeOK,
           \/ \E c \in Callers : Handled(c)
           \/ LogoutHandled \/ ClickLogout \/ SessionDies
    PROVE  /\ \A s \in Requests : OfItsKind(s)
           /\ RefreshStays /\ user' = user /\ modal' = modal
<1>1. call \in [Callers -> Call] /\ "refresh" \in Callers
  BY RefreshIsNoRequest DEF TypeOK
<1>2. request' = request /\ user' = user /\ modal' = modal
  BY DEF Handled, RefreshHandled, RefreshRefused, CallLost, LogoutHandled, ClickLogout,
         SessionDies, client
<1>3. \A s \in Requests : OfItsKind(s)
  BY <1>2 DEF OfItsKind
<1>4. CASE \E c \in Callers : Handled(c)
  <2> PICK c \in Callers : Handled(c)
    BY <1>4
  <2>1. call[c].pc \in {"sent", "done"}
    BY DEF Handled, RefreshHandled, RefreshRefused, CallLost
  <2>2. PICK pc \in {"done", "failed"}, token \in Tokens \cup {None} :
            call' = [call EXCEPT ![c].pc = pc, ![c].token = token]
    BY DEF Handled, RefreshHandled, RefreshRefused, CallLost
  <2>3. call'["refresh"].by = call["refresh"].by
    BY <1>1, <2>2 DEF Call
  <2>4. call'["refresh"].pc = "none" <=> call["refresh"].pc = "none"
    BY <1>1, <2>1, <2>2 DEF Call
  <2> QED
    BY <1>2, <1>3, <2>3, <2>4 DEF RefreshStays, InFlight
<1>5. CASE LogoutHandled \/ ClickLogout \/ SessionDies
  <2>1. call'["refresh"] = call["refresh"]
    BY <1>1, <1>5 DEF LogoutHandled, ClickLogout, Sends, SessionDies
  <2> QED
    BY <1>2, <1>3, <2>1 DEF RefreshStays, InFlight
<1> QED
  BY <1>4, <1>5

LEMMA TimeGoesOn ==
    ASSUME TypeOK, TokenExpiring \/ AccessExpires
    PROVE  /\ \A s \in Requests : OfItsKind(s)
           /\ RefreshStays /\ user' = user /\ (modal' => modal \/ user)
<1>1. request \in [Requests -> Request]
  BY DEF TypeOK
<1>2. call' = call /\ user' = user /\ (modal' => modal \/ user)
  BY DEF TokenExpiring, AccessExpires, client
<1>3. CASE TokenExpiring
  BY <1>2, <1>3 DEF TokenExpiring, OfItsKind, RefreshStays, InFlight
<1>4. CASE AccessExpires
  <2>1. ASSUME NEW s \in Requests PROVE OfItsKind(s)
    <3>1. request'[s] = [request[s] EXCEPT !.valid = FALSE] /\ request[s] \in Request
      BY <1>1, <1>4 DEF AccessExpires
    <3>2. request'[s].pc = request[s].pc /\ request'[s].kind = request[s].kind
      BY <3>1 DEF Request
    <3> QED
      BY <3>2 DEF OfItsKind
  <2> QED
    BY <1>2, <2>1 DEF RefreshStays, InFlight
<1> QED
  BY <1>3, <1>4

\* Such a step keeps the tab of one mind, if the pages do nothing.
LEMMA GoesOnLinked ==
    ASSUME AppIInv, \A s \in Requests : OfItsKind(s), RefreshStays,
           user' = user, modal' => modal \/ user,
           UNCHANGED <<page, confirming>>
    PROVE  AppIInv'
<1>1. (ModalAwaits' <=> ModalAwaits) /\ (Enters("refresh")' => Enters("refresh"))
  BY RefreshKept
<1>2. EntersAlone'
  BY <1>1, NoneBegins DEF AppIInv
<1>3. Linked'
  BY <1>1 DEF AppIInv, Linked
<1> QED
  BY <1>2, <1>3 DEF AppIInv

-----------------------------------------------------------------------------
(* A request that somebody sends: a page only when somebody is logged in,  *)
(* the form only when nobody is or is being logged in.                     *)
LEMMA SendLinked ==
    ASSUME TypeOK, AppIInv, NEW r \in Requests, Send(r) \/ (SendLogin(r) /\ ~Entering),
           UNCHANGED <<page, confirming>>
    PROVE  AppIInv'
<1>1. request \in [Requests -> Request]
  BY DEF TypeOK
<1>2. call' = call /\ user' = user /\ modal' = modal
  BY DEF Send, SendLogin, client
<1>3. \A s \in Requests \ {r} : request'[s] = request[s]
  BY <1>1 DEF Send, SendLogin
<1>4. RefreshStays
  BY <1>2 DEF RefreshStays, InFlight
<1>5. Linked'
  BY <1>2, <1>4, RefreshKept DEF AppIInv, Linked
<1>6. CASE Send(r)
  <2>1. user /\ request'[r].kind = "data"
    BY <1>1, <1>6 DEF Send, Sent, IdleRequest
  <2>2. \A c \in Refreshers : ~Enters(c)
    BY <2>1 DEF AppIInv, EntersAlone
  <2>3. ASSUME NEW c \in Refreshers PROVE ~Enters(c)'
    BY <1>2, <1>3, <2>1, <2>2, RefreshIsNoRequest DEF Enters, InFlight, Refreshers
  <2> QED
    BY <1>5, <2>3 DEF AppIInv, EntersAlone
<1>7. CASE SendLogin(r) /\ ~Entering
  <2>1. ~user'
    BY <1>2, <1>7 DEF SendLogin
  <2>2. ASSUME NEW c \in Refreshers, c # r PROVE ~Enters(c)'
    BY <1>2, <1>3, <1>7, <2>2, RefreshIsNoRequest DEF Entering, Enters, InFlight, Refreshers
  <2> QED
    BY <1>5, <2>1, <2>2 DEF AppIInv, EntersAlone
<1> QED
  BY <1>6, <1>7

(* initAuth hands over to the request that asks who is logged in.          *)
LEMMA InitLinked ==
    ASSUME TypeOK, AppIInv, InitRefreshed, UNCHANGED <<page, confirming>>
    PROVE  AppIInv'
<1>1. /\ request \in [Requests -> Request] /\ call \in [Callers -> Call]
      /\ "refresh" \in Callers /\ "refresh" \in Refreshers
  BY RefreshIsNoRequest DEF TypeOK
<1>2. /\ Enters("refresh") /\ ~ModalAwaits
  BY DEF InitRefreshed, Enters, InFlight, ModalAwaits
<1>3. call'["refresh"] = NoCall /\ user' = user /\ modal' = modal
  BY <1>1 DEF InitRefreshed, client
<1>4. ~Enters("refresh")' /\ ~ModalAwaits'
  BY <1>3, RecordsTyped DEF Enters, InFlight, ModalAwaits
<1>5. Linked'
  BY <1>2, <1>3, <1>4 DEF AppIInv, Linked
<1>6. ~user' /\ \A c \in Refreshers \ {"refresh"} : ~Enters(c)
  BY <1>1, <1>2, <1>3 DEF AppIInv, EntersAlone
<1>7. CASE UNCHANGED request
  <2>1. ASSUME NEW c \in Refreshers PROVE ~Enters(c)'
    BY <1>4, <1>6, <1>7 DEF Enters
  <2> QED
    BY <1>5, <2>1 DEF AppIInv, EntersAlone
<1>8. CASE \E r \in Requests, q \in Request : request' = [request EXCEPT ![r] = q]
  <2> PICK r \in Requests, q \in Request : request' = [request EXCEPT ![r] = q]
    BY <1>8
  <2>1. \A s \in Requests \ {r} : request'[s] = request[s]
    BY <1>1
  <2>2. ASSUME NEW c \in Refreshers, c # r PROVE ~Enters(c)'
    BY <1>4, <1>6, <2>1, <2>2, RefreshIsNoRequest DEF Enters, Refreshers
  <2> QED
    BY <1>5, <1>6, <2>2 DEF AppIInv, EntersAlone
<1>9. [IdleRequest EXCEPT !.kind = "me"] \in Request
  BY DEF IdleRequest, Request
<1>10. Sent(TRUE, [IdleRequest EXCEPT !.kind = "me"]) \in Request
  BY <1>9, RecordsTyped
<1> QED
  BY <1>7, <1>8, <1>10 DEF InitRefreshed

LEMMA AuthStepLinked ==
    ASSUME TypeOK, AppIInv, AuthStep
    PROVE  AppIInv'
<1>1. UNCHANGED <<page, confirming>>
  BY DEF AuthStep, pagesVars
<1>2. CASE \E r \in Requests :
              \/ Rejected(r) \/ Waits(r) \/ RequestFails(r)
              \/ request[r].kind # "me" /\ Succeeds(r)
  BY <1>1, <1>2, RequestGoesOn, GoesOnLinked
<1>3. CASE \E r \in Requests : Refreshes(r) \/ InterceptorRefreshed(r)
  BY <1>1, <1>3, RefreshGoesOn, GoesOnLinked
<1>4. CASE \E r \in Requests : Send(r) \/ (SendLogin(r) /\ ~Entering)
  BY <1>1, <1>4, SendLinked
<1>5. CASE (\E c \in Callers : Handled(c)) \/ LogoutHandled \/ ClickLogout \/ SessionDies
  BY <1>1, <1>5, CallGoesOn, GoesOnLinked
<1>6. CASE TokenExpiring \/ AccessExpires
  BY <1>1, <1>6, TimeGoesOn, GoesOnLinked
<1>7. CASE InitRefreshed
  BY <1>1, <1>7, InitLinked
<1> QED
  BY <1>2, <1>3, <1>4, <1>5, <1>6, <1>7 DEF AuthStep

-----------------------------------------------------------------------------
(* The steps that AuthContext and the pages make together.                 *)
LEMMA EnterShows ==
    ASSUME NEW admin \in BOOLEAN, NEW p \in PageNames, Enter(admin, p)
    PROVE  page = "login" /\ page' # "login" /\ confirming' = confirming
BY DEF Enter, Mounts, Routed

LEMMA EntryLinked ==
    ASSUME TypeOK, AppIInv, LogsIn
    PROVE  AppIInv'
<1> PICK r \in Requests, admin \in BOOLEAN :
        \/ \E token \in Tokens : LoginSucceeds(r, token) /\ Enter(admin, "todos")
        \/ /\ request[r].kind = "me" /\ Succeeds(r)
           /\ \E p \in PageNames : Enter(admin, p)
  BY DEF LogsIn
<1>1. request \in [Requests -> Request] /\ r \in Refreshers /\ r # "refresh"
  BY RefreshIsNoRequest DEF TypeOK, Refreshers
<1>2. page = "login" /\ page' # "login" /\ confirming' = confirming
  BY EnterShows DEF PageNames
<1>3. call' = call /\ modal' = modal /\ user' /\ request' = [request EXCEPT ![r] = IdleRequest]
  BY DEF LoginSucceeds, Succeeds
<1>4. Enters(r)
  BY <1>1 DEF LoginSucceeds, Succeeds, LoggingIn, Enters
<1>5. \A c \in Refreshers \ {r} : ~Enters(c)
  BY <1>1, <1>4 DEF AppIInv, EntersAlone
<1>6. ASSUME NEW c \in Refreshers PROVE ~Enters(c)'
  <2>1. CASE c = r
    BY <1>1, <1>3, <2>1, RecordsTyped DEF Enters
  <2>2. CASE c = "refresh"
    BY <1>1, <1>3, <1>5, <2>2 DEF Enters, InFlight
  <2>3. CASE c # r /\ c # "refresh"
    BY <1>1, <1>3, <1>5, <2>3 DEF Enters, Refreshers
  <2> QED
    BY <2>1, <2>2, <2>3
<1>7. Linked'
  BY <1>2, <1>3 DEF AppIInv, Linked, ModalAwaits, InFlight
<1> QED
  BY <1>6, <1>7 DEF AppIInv, EntersAlone

\* Whatever logs the user out closes the modal and ends or keeps its refresh.
LEMMA ExitLinked ==
    ASSUME TypeOK, AppIInv, LogsOut
    PROVE  AppIInv'
<1>1. /\ request \in [Requests -> Request] /\ call \in [Callers -> Call]
      /\ user \in BOOLEAN /\ user' \in BOOLEAN
      /\ "refresh" \in Callers /\ "refresh" \notin Requests
  BY RefreshIsNoRequest DEF TypeOK, LogsOut, InterceptorRefreshFailed, LogoutAnswered, ForceLogout,
     performLogout
<1>2. (user' = user /\ modal' = modal) \/ (~user' /\ ~modal')
  BY DEF LogsOut, InterceptorRefreshFailed, LogoutAnswered, ForceLogout, performLogout
<1>3. ASSUME NEW r \in Requests, InterceptorRefreshFailed(r)
      PROVE  (\A s \in Requests : OfItsKind(s)) /\ RefreshStays
  <2>1. call'["refresh"] = call["refresh"]
    BY <1>1, <1>3 DEF InterceptorRefreshFailed
  <2>2. request' = [Processed(FALSE) EXCEPT ![r] = IdleRequest]
    BY <1>3 DEF InterceptorRefreshFailed
  <2>3. Processed(FALSE) \in [Requests -> Request]
    BY <1>1, ProcessedTyped
  <2>4. ASSUME NEW s \in Requests PROVE OfItsKind(s)
    <3>1. CASE s = r
      BY <2>2, <2>3, <3>1, RecordsTyped DEF OfItsKind
    <3>2. CASE s # r /\ s \in Queued
      BY <1>1, <2>2, <3>2, RecordsTyped DEF OfItsKind, Processed
    <3>3. CASE s # r /\ s \notin Queued
      BY <1>1, <2>2, <3>3 DEF OfItsKind, Processed
    <3> QED
      BY <3>1, <3>2, <3>3
  <2> QED
    BY <2>1, <2>4 DEF RefreshStays, InFlight
<1>4. ASSUME LogoutAnswered \/ ForceLogout
      PROVE  (\A s \in Requests : OfItsKind(s)) /\ RefreshStays
  <2>1. request' = request /\ call'["refresh"] = call["refresh"]
    BY <1>1, <1>4 DEF LogoutAnswered, ForceLogout, Sends
  <2> QED
    BY <2>1 DEF OfItsKind, RefreshStays, InFlight
<1>5. (\A s \in Requests : OfItsKind(s)) /\ RefreshStays
  BY <1>3, <1>4 DEF LogsOut
<1>6. (page' = "login" <=> ~user') /\ confirming' = confirming
  <2>1. CASE user /\ ~user'
    <3>1. Logout
      BY <2>1 DEF LogsOut
    <3> QED
      BY <2>1, <3>1 DEF Logout, LoginShown
  <2>2. CASE ~(user /\ ~user')
    <3>1. UNCHANGED <<page, confirming>>
      BY <2>2 DEF LogsOut, pagesVars
    <3>2. user' = user
      BY <1>1, <1>2, <2>2
    <3> QED
      BY <3>1, <3>2 DEF AppIInv, Linked
  <2> QED
    BY <2>1, <2>2
<1>7. (ModalAwaits' <=> ModalAwaits) /\ (Enters("refresh")' => Enters("refresh"))
  BY <1>5, RefreshKept
<1>8. user' => user
  BY <1>1, <1>2
<1>9. EntersAlone'
  BY <1>5, <1>7, <1>8, NoneBegins DEF AppIInv
<1>10. Linked'
  BY <1>2, <1>6, <1>7 DEF AppIInv, Linked
<1> QED
  BY <1>9, <1>10 DEF AppIInv

\* The modal waits from its refresh's call to its answer.
LEMMA ModalLinked ==
    ASSUME TypeOK, AppIInv, ModalStep
    PROVE  AppIInv'
<1>1. /\ call \in [Callers -> Call] /\ user \in BOOLEAN
      /\ "refresh" \in Callers /\ "logout" # "refresh"
  BY RefreshIsNoRequest DEF TypeOK
<1>2. request' = request
  BY DEF ModalStep, ConfirmRefresh, ModalRefreshed, ModalRefreshFailed
<1>3. \A s \in Requests : OfItsKind(s)
  BY <1>2 DEF OfItsKind
<1>4. CASE ConfirmRefresh /\ ModalConfirms
  <2>1. call'["refresh"] = CallWith(jar, "modal") /\ user' = user /\ modal' = modal
    BY <1>1, <1>4 DEF ConfirmRefresh, Sends, client
  <2>2. ModalAwaits' /\ ~Enters("refresh")'
    BY <2>1 DEF CallWith, ModalAwaits, Enters, InFlight
  <2>3. page' = page /\ confirming'
    BY <1>4 DEF ModalConfirms
  <2>4. EntersAlone'
    BY <1>3, <2>1, <2>2, NoneBegins DEF AppIInv
  <2>5. Linked'
    BY <2>1, <2>2, <2>3 DEF AppIInv, Linked
  <2> QED
    BY <2>4, <2>5 DEF AppIInv
<1>5. ASSUME NEW refreshed \in BOOLEAN, ModalReturns(refreshed)
      PROVE  /\ ~confirming'
             /\ page' = IF refreshed THEN page ELSE "login"
  BY <1>5 DEF ModalReturns, LoginShown
<1>6. CASE ModalRefreshed /\ ModalReturns(TRUE)
  <2>1. call'["refresh"] = NoCall /\ user' = user /\ ~modal'
    BY <1>1, <1>6 DEF ModalRefreshed
  <2>2. ~ModalAwaits' /\ ~Enters("refresh")'
    BY <2>1, RecordsTyped DEF ModalAwaits, Enters, InFlight
  <2>3. page' = page /\ ~confirming'
    BY <1>5, <1>6
  <2>4. EntersAlone'
    BY <1>3, <2>1, <2>2, NoneBegins DEF AppIInv
  <2>5. Linked'
    BY <2>1, <2>2, <2>3 DEF AppIInv, Linked
  <2> QED
    BY <2>4, <2>5 DEF AppIInv
<1>7. CASE ModalRefreshFailed /\ ModalReturns(FALSE)
  <2>1. call'["refresh"] = NoCall /\ ~user' /\ ~modal'
    BY <1>1, <1>7 DEF ModalRefreshFailed, performLogout
  <2>2. ~ModalAwaits' /\ ~Enters("refresh")'
    BY <2>1, RecordsTyped DEF ModalAwaits, Enters, InFlight
  <2>3. page' = "login" /\ ~confirming'
    BY <1>5, <1>7
  <2>4. EntersAlone'
    BY <1>3, <2>1, <2>2, NoneBegins DEF AppIInv
  <2>5. Linked'
    BY <2>1, <2>2, <2>3 DEF Linked
  <2> QED
    BY <2>4, <2>5 DEF AppIInv
<1> QED
  BY <1>4, <1>6, <1>7 DEF ModalStep

\* A page that is loaded again has nobody logged in, and at most initAuth at work.
LEMMA ReloadLinked ==
    ASSUME Reload, PageReloaded
    PROVE  AppIInv'
<1>1. /\ "refresh" \in Callers /\ ~user' /\ ~modal' /\ ~confirming' /\ page' = "login"
  BY RefreshIsNoRequest DEF Reload, PageReloaded, LoginShown
<1>2. call'["refresh"] = CallWith(jar, "init") \/ call'["refresh"] = NoCall
  BY <1>1 DEF Reload
<1>3. ~ModalAwaits'
  BY <1>2 DEF CallWith, NoCall, ModalAwaits, InFlight
<1>4. ASSUME NEW c \in Refreshers, c # "refresh" PROVE ~Enters(c)'
  BY <1>4, RecordsTyped DEF Reload, Enters, Refreshers
<1>5. EntersAlone'
  BY <1>1, <1>4 DEF EntersAlone
<1> QED
  BY <1>1, <1>3, <1>5 DEF AppIInv, Linked

\* The other steps of the pages show a page if one was shown.
LEMMA PageStaysOpen ==
    ASSUME NEW changes \in SUBSET (Kinds \ Loads), PageStep(changes)
    PROVE  (page' = "login" <=> page = "login") /\ confirming' = confirming
<1>1. ASSUME NEW p \in PageNames, Navigate(p)
      PROVE  page # "login" /\ page' # "login" /\ confirming' = confirming
  BY <1>1 DEF Navigate, Mounts
<1>2. ASSUME NEW s \in Slots, Answered(s)
      PROVE  UNCHANGED <<page, confirming>>
  BY <1>2 DEF Answered, Served, TodoChanged, UserChanged, UserRestored, VideoChanged, ListRead,
         ListCached, ListShown, StatsLoaded, CallFails
<1> QED
  BY <1>1, <1>2 DEF PageStep, FilterTodos, SearchUsers, ShowDeleted, FilterUsers, Click,
     OthersChange, CacheExpires

\* What is not touched stays of one mind.
LEMMA UntouchedLinked ==
    ASSUME AppIInv, UNCHANGED vars, confirming' = confirming,
           page' = "login" <=> page = "login"
    PROVE  AppIInv'
<1>1. /\ user' = user /\ modal' = modal /\ call' = call /\ request' = request
  BY DEF vars
<1>2. RefreshStays /\ \A s \in Requests : OfItsKind(s)
  BY <1>1 DEF RefreshStays, OfItsKind, InFlight
<1>3. (ModalAwaits' <=> ModalAwaits) /\ (Enters("refresh")' => Enters("refresh"))
  BY <1>2, RefreshKept
<1>4. EntersAlone'
  BY <1>1, <1>2, <1>3, NoneBegins DEF AppIInv
<1> QED
  BY <1>1, <1>3, <1>4 DEF AppIInv, Linked

LEMMA LinkedStep == TypeOK /\ AppIInv /\ [AppNext]_appVars => AppIInv'
<1> SUFFICES ASSUME TypeOK, AppIInv, [AppNext]_appVars PROVE AppIInv'
  OBVIOUS
<1>1. CASE UNCHANGED appVars
  BY <1>1, UntouchedLinked DEF appVars, pagesVars
<1>2. CASE PageStep(Kinds \ Loads) /\ UNCHANGED vars
  BY <1>2, PageStaysOpen, UntouchedLinked
<1>3. CASE Reload /\ PageReloaded
  BY <1>3, ReloadLinked
<1> QED
  BY <1>1, <1>2, <1>3, AuthStepLinked, EntryLinked, ExitLinked, ModalLinked DEF AppNext, AppStep

LEMMA LinkedInit == AppInit => AppIInv
<1> SUFFICES ASSUME AppInit PROVE AppIInv
  OBVIOUS
<1>1. call["refresh"] = NoCall /\ ~user /\ ~modal /\ ~confirming /\ page = "login"
  BY RefreshIsNoRequest DEF AppInit, Init, PagesInit
<1>2. \A c \in Refreshers : ~Enters(c)
  BY <1>1, RecordsTyped DEF AppInit, Init, Enters, InFlight, Refreshers
<1> QED
  BY <1>1, <1>2, RecordsTyped DEF AppIInv, EntersAlone, Linked, ModalAwaits, InFlight

(* The state of the tab has its types, and its parts agree: the pages are  *)
(* shown exactly while AuthContext has a user, the modal is open only for  *)
(* one, and the spinner counts for the modal exactly while its refresh is  *)
(* under way, whatever login, logout and refresh cross; and the answer to  *)
(* a login finds nobody logged in (AuthContext.tsx:102-222,                *)
(* ProtectedRoute.tsx:12-22, TokenRefreshModal.tsx:16-26).                 *)
THEOREM AppTypeCorrect == AppSpec => []AppTypeOK
<1>1. AppTypeOK <=> TypeOK /\ PagesTypeOK /\ Linked /\ (Entering => ~user)
  BY DEF AppTypeOK
<1>2. AppIInv => Linked /\ (Entering => ~user)
  BY RefreshIsNoRequest DEF AppIInv, EntersAlone, Enters, Entering, Refreshers
<1>3. AppSpec => []TypeOK /\ []PagesTypeOK
  BY AppImplementsParts, AuthTypeCorrect, PagesTypeCorrect, PTL
<1>4. AppSpec => []AppIInv
  BY <1>3, LinkedInit, LinkedStep, PTL DEF AppSpec
<1> QED
  BY <1>1, <1>2, <1>3, <1>4, PTL
=============================================================================
