-------------------------- MODULE StationPreference --------------------------
(***************************************************************************)
(* The metro preference on the profile page: a city, a station of it, and  *)
(* the device's location.  It is kept in the metadata of the account, which*)
(* other clients write too and of which nothing can be assumed.            *)
(***************************************************************************)
CONSTANTS
    MetroCities, HomeCity,      \* metroCities, and metroCities[1]
    MetroStops,
    StopsOf,                    \* the stations of a city
    FirstStop                   \* stations[0]

ASSUME CitiesHaveStops ==
    /\ HomeCity \in MetroCities
    /\ StopsOf \in [MetroCities -> SUBSET MetroStops]
    /\ \A c \in MetroCities : FirstStop[c] \in StopsOf[c]

VARIABLES metadata, choice, savedChoice, metaLoading, savingChoice, locationStatus

preferenceVars == <<metadata, choice, savedChoice, metaLoading, savingChoice, locationStatus>>

AnyChoice == [city : MetroCities, stop : MetroStops]
GoodChoices == {p \in AnyChoice : p.stop \in StopsOf[p.city]}
NoChoice == [city |-> "none", stop |-> "none"]
HomeChoice == [city |-> HomeCity, stop |-> FirstStop[HomeCity]]

PreferenceInit ==
    /\ metadata \in AnyChoice \cup {NoChoice}
    /\ choice = HomeChoice /\ savedChoice = HomeChoice
    /\ metaLoading = TRUE /\ savingChoice = NoChoice
    /\ locationStatus = "idle"

\* The metadata as they are read: an unknown city is the home city, and a
\* station that is not in the city its first.
AsRead(p) ==
    LET c == IF p.city \in MetroCities THEN p.city ELSE HomeCity IN
    [city |-> c, stop |-> IF p.stop \in StopsOf[c] THEN p.stop ELSE FirstStop[c]]

MetadataRead ==
    /\ metaLoading /\ metaLoading' = FALSE
    /\ \/ choice' = AsRead(metadata) /\ savedChoice' = choice'
       \/ UNCHANGED <<choice, savedChoice>>     \* no answer, or nobody signed in
    /\ UNCHANGED <<metadata, savingChoice, locationStatus>>

\* Both fields can be changed while a choice is being saved.
FieldsAreOpen == ~metaLoading

handleCityChange(c) ==
    /\ FieldsAreOpen
    /\ choice' = [city |-> c, stop |-> FirstStop[c]]
    /\ UNCHANGED <<metadata, savedChoice, metaLoading, savingChoice, locationStatus>>

handleStationChange(s) ==
    /\ FieldsAreOpen /\ s \in StopsOf[choice.city]
    /\ choice' = [choice EXCEPT !.stop = s]
    /\ UNCHANGED <<metadata, savedChoice, metaLoading, savingChoice, locationStatus>>

saveLocationPreference ==
    /\ FieldsAreOpen /\ savingChoice = NoChoice
    /\ savingChoice' = choice
    /\ UNCHANGED <<metadata, choice, savedChoice, metaLoading, locationStatus>>

\* The answer; it may also be an error after the service stored the choice.
PreferenceSaved ==
    /\ savingChoice # NoChoice
    /\ \/ metadata' = savingChoice /\ savedChoice' = savingChoice
       \/ metadata' \in {metadata, savingChoice} /\ UNCHANGED savedChoice
    /\ savingChoice' = NoChoice
    /\ UNCHANGED <<choice, metaLoading, locationStatus>>

\* Another client writes what it likes.
OthersWrite ==
    /\ metadata' \in AnyChoice
    /\ UNCHANGED <<choice, savedChoice, metaLoading, savingChoice, locationStatus>>

requestLocationAccess ==
    /\ locationStatus # "requesting" /\ locationStatus' \in {"requesting", "unsupported"}
    /\ UNCHANGED <<metadata, choice, savedChoice, metaLoading, savingChoice>>

LocationAnswered ==
    /\ locationStatus = "requesting" /\ locationStatus' \in {"granted", "denied"}
    /\ UNCHANGED <<metadata, choice, savedChoice, metaLoading, savingChoice>>

PreferenceNext ==
    \/ MetadataRead \/ saveLocationPreference \/ PreferenceSaved \/ OthersWrite
    \/ \E c \in MetroCities : handleCityChange(c)
    \/ \E s \in MetroStops : handleStationChange(s)
    \/ requestLocationAccess \/ LocationAnswered

PreferenceSpec == PreferenceInit /\ [][PreferenceNext]_preferenceVars

-----------------------------------------------------------------------------
PreferenceTypeOK ==
    /\ metadata \in AnyChoice \cup {NoChoice}
    /\ choice \in AnyChoice /\ savedChoice \in AnyChoice
    /\ savingChoice \in AnyChoice \cup {NoChoice}
    /\ metaLoading \in BOOLEAN
    /\ locationStatus \in {"idle", "requesting", "granted", "denied", "unsupported"}

\* The station is one of its city in the form, in what is saved and in what is
\* remembered as saved, whatever the account held and whenever it is changed.
StationIsInCity == choice \in GoodChoices /\ savedChoice \in GoodChoices /\ savingChoice \in GoodChoices \cup {NoChoice}
=============================================================================
