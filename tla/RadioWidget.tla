----------------------------- MODULE RadioWidget -----------------------------
(***************************************************************************)
(* The radio of client/src/components/NetRadioWidget/NetRadioWidget.tsx in *)
(* one tab, the browser's audio element it drives, and the connections     *)
(* that StreamController.proxyRadioStream (stream/stream.controller.ts)    *)
(* keeps for it.  Loading another source rejects a play() that is still    *)
(* unanswered; what its catch does is part of the step that loads.         *)
(*                                                                         *)
(* A title is known by the station it belongs to.  The volume is left out. *)
(***************************************************************************)
EXTENDS Naturals

CONSTANTS
    Stations,
    FirstStation,   \* response[0]
    AskLimit,       \* bound: unanswered questions for the title of one station
    Nowhere         \* no station

ASSUME StationsAssumption == FirstStation \in Stations /\ Nowhere \notin Stations
ASSUME AskAssumption == AskLimit \in Nat \ {0}

VARIABLES
    isLoading, failed,  \* the list of stations is awaited; it could not be loaded
    selected,           \* selectedStationId
    saved,              \* the station in localStorage
    isPlaying,
    audio,              \* the audio element
    streamTitle,
    asked,              \* getRadioMetadata calls under way for each station
    abandoned,          \* stations the server still reads for a client that left
    hasty,              \* ghost: the station was changed while a play() was unanswered
    crossedTitle        \* ghost: ... while a title was asked for

loading == <<isLoading, failed>>
radioVars == <<isLoading, failed, selected, saved, isPlaying, audio, streamTitle, asked,
               abandoned, hasty, crossedTitle>>

\* "by" tells whose promise is unanswered while the element is loading; "proxy" whether
\* the server has reached the station.
Audio == [src: Stations \cup {Nowhere}, state: {"idle", "loading", "playing"},
          by: {"playSelectedStation", "switchStation"}, proxy: BOOLEAN]
Silent == [src |-> Nowhere, state |-> "idle", by |-> "playSelectedStation", proxy |-> FALSE]

RadioTypeOK ==
    /\ {isLoading, failed, isPlaying, hasty, crossedTitle} \subseteq BOOLEAN
    /\ {selected, saved, streamTitle} \subseteq Stations \cup {Nowhere}
    /\ audio \in Audio
    /\ asked \in [Stations -> 0..AskLimit]
    /\ abandoned \subseteq Stations
    /\ selected # Nowhere => ~isLoading /\ saved = selected
    /\ audio.state = "playing" => audio.proxy

\* What was saved in an earlier visit may be a station no longer listed.
RadioInit ==
    /\ isLoading = TRUE /\ failed = FALSE
    /\ selected = Nowhere /\ saved \in Stations \cup {Nowhere}
    /\ isPlaying = FALSE /\ audio = Silent
    /\ streamTitle = Nowhere /\ asked = [s \in Stations |-> 0]
    /\ abandoned = {}
    /\ hasty = FALSE /\ crossedTitle = FALSE

-----------------------------------------------------------------------------
(* Building blocks.                                                        *)

\* The effects that follow a change of isPlaying or of the station: the title is asked
\* for, the station is saved.
Effects ==
    /\ saved' = IF selected' # Nowhere THEN selected' ELSE saved
    /\ asked' = IF isPlaying' /\ selected' # Nowhere
                   /\ <<isPlaying', selected'>> # <<isPlaying, selected>>
                THEN [asked EXCEPT ![selected'] = @ + 1] ELSE asked
    /\ \A s \in Stations : asked'[s] <= AskLimit

\* The element leaves its source: the server does not notice, and reads on unless the
\* station has ended.
Leaves == abandoned' \in {abandoned, abandoned \cup ({audio.src} \ {Nowhere})}

\* audio.pause(), a new src, load() and play().
Starts(s, by) ==
    /\ audio' = [src |-> s, state |-> "loading", by |-> by, proxy |-> FALSE]
    /\ Leaves

Stops == isPlaying' = FALSE /\ audio' = [audio EXCEPT !.state = "idle"]

-----------------------------------------------------------------------------
(* The list of stations.                                                   *)
loadStations ==
    /\ isLoading
    /\ isLoading' = FALSE
    /\ selected' = IF saved \in Stations THEN saved ELSE FirstStation
    /\ UNCHANGED <<failed, isPlaying, audio, streamTitle, abandoned, hasty, crossedTitle>>
    /\ Effects

loadStationsFails ==
    /\ isLoading
    /\ isLoading' = FALSE /\ failed' = TRUE
    /\ UNCHANGED <<selected, saved, isPlaying, audio, streamTitle, asked, abandoned, hasty,
                   crossedTitle>>

(* The tab is loaded again.                                                *)
ReloadTab ==
    /\ isLoading' = TRUE /\ failed' = FALSE
    /\ selected' = Nowhere /\ isPlaying' = FALSE
    /\ audio' = Silent /\ Leaves
    /\ streamTitle' = Nowhere /\ asked' = [s \in Stations |-> 0]
    /\ hasty' = FALSE /\ crossedTitle' = FALSE
    /\ UNCHANGED saved

-----------------------------------------------------------------------------
(* The buttons and the dropdown.                                           *)
playSelectedStation ==
    /\ ~isPlaying /\ selected # Nowhere
    /\ Starts(selected, "playSelectedStation")
    /\ hasty' = FALSE
    /\ UNCHANGED <<loading, selected, saved, isPlaying, streamTitle, asked, crossedTitle>>

pausePlayback ==
    /\ isPlaying
    /\ Stops
    /\ hasty' = FALSE
    /\ UNCHANGED <<loading, selected, streamTitle, abandoned, crossedTitle>>
    /\ Effects

\* Mutant: the element keeps the source of the station before.
ChangeKeepsSource(s) ==
    /\ selected \notin {s, Nowhere}
    /\ selected' = s
    /\ streamTitle' = Nowhere
    /\ hasty' = (hasty \/ audio.state = "loading")
    /\ crossedTitle' = (\E t \in Stations : asked[t] > 0)
    /\ UNCHANGED <<audio, abandoned, isPlaying>>
    /\ UNCHANGED loading
    /\ Effects

(* Only a station that plays is switched.  A switch that is unanswered is  *)
(* rejected by the next one and stops the display, not the element.        *)
onStationChange(s) ==
    /\ selected \notin {s, Nowhere}
    /\ selected' = s
    /\ streamTitle' = Nowhere
    /\ hasty' = (hasty \/ audio.state = "loading")
    /\ crossedTitle' = (\E t \in Stations : asked[t] > 0)
    /\ IF isPlaying
       THEN Starts(s, "switchStation") /\ isPlaying' = (audio.state # "loading")
       ELSE UNCHANGED <<audio, abandoned, isPlaying>>
    /\ UNCHANGED loading
    /\ Effects

-----------------------------------------------------------------------------
(* The server and the element.                                             *)

\* proxyRadioStream: the station answers, or the request ends with an error.
proxyRadioStream ==
    /\ audio.state = "loading" /\ ~audio.proxy
    /\ audio' = [audio EXCEPT !.proxy = TRUE]
    /\ UNCHANGED <<loading, selected, saved, isPlaying, streamTitle, asked, abandoned, hasty,
                   crossedTitle>>

\* play() is answered: only playSelectedStation sets isPlaying.
PlayResolves ==
    /\ audio.state = "loading" /\ audio.proxy
    /\ audio' = [audio EXCEPT !.state = "playing"]
    /\ isPlaying' = (isPlaying \/ audio.by = "playSelectedStation")
    /\ UNCHANGED <<loading, selected, streamTitle, abandoned, hasty, crossedTitle>>
    /\ Effects

\* The station refuses, breaks off or ends, or the browser cannot play it: play() is
\* rejected, or onError or onEnded is called.
PlaybackEnds ==
    /\ audio.state # "idle"
    /\ Stops /\ Leaves
    /\ UNCHANGED <<loading, selected, streamTitle, hasty, crossedTitle>>
    /\ Effects

\* A station that is read for nobody ends its stream.
AbandonedEnds(s) ==
    /\ s \in abandoned
    /\ abandoned' = abandoned \ {s}
    /\ UNCHANGED <<loading, selected, saved, isPlaying, audio, streamTitle, asked, hasty,
                   crossedTitle>>

-----------------------------------------------------------------------------
(* The title.                                                              *)
PollTitle ==
    /\ isPlaying /\ selected # Nowhere
    /\ asked[selected] < AskLimit
    /\ asked' = [asked EXCEPT ![selected] = @ + 1]
    /\ UNCHANGED <<loading, selected, saved, isPlaying, audio, streamTitle, abandoned, hasty,
                   crossedTitle>>

\* The answer, a station without a title, or a failure.
loadMetadata(s, title) ==
    /\ asked[s] > 0
    /\ title \in {s, Nowhere}
    /\ streamTitle' = title
    /\ asked' = [asked EXCEPT ![s] = @ - 1]
    /\ UNCHANGED <<loading, selected, saved, isPlaying, audio, abandoned, hasty, crossedTitle>>

RadioNext ==
    \/ loadStations \/ loadStationsFails \/ ReloadTab
    \/ playSelectedStation \/ pausePlayback
    \/ \E s \in Stations : onStationChange(s) \/ AbandonedEnds(s)
    \/ proxyRadioStream \/ PlayResolves \/ PlaybackEnds
    \/ PollTitle
    \/ \E s \in Stations : loadMetadata(s, s) \/ loadMetadata(s, Nowhere)

RadioSpec == RadioInit /\ [][RadioNext]_radioVars

-----------------------------------------------------------------------------
(* The button and the title tell what is heard: the pause button is shown  *)
(* exactly while the station selected plays, or is being loaded after a    *)
(* switch, unless the station was changed while the element had not yet    *)
(* answered; and the title is that of the station selected unless it was   *)
(* changed while a title was asked for (NetRadioWidget.tsx:96-174).        *)
ButtonTruthful ==
    ~hasty =>
        /\ audio.state = "playing" => isPlaying
        /\ isPlaying => audio.state # "idle" /\ audio.src = selected

TitleTruthful == streamTitle \notin {selected, Nowhere} => crossedTitle

PlayButtonTruthful == ButtonTruthful /\ TitleTruthful
=============================================================================
