----------------------------- MODULE MCServices -----------------------------
(* The services beside transcoding, each by itself in one part of the states: *)
(* they share no state of these models, and the others do not begin.          *)
EXTENDS SpriteQueue, Transcription, Settings, Reencode, CustomFields, VideoListing,
        Dispatch, ChapterDetection, Playback

VARIABLE part

serviceVars ==
  <<part, spriteVars, transcriptVars, settingsVars, reencodeVars, fieldVars, listingVars,
    dispatchVars, chapterVars, playbackVars>>

\* One start of each time that markers can have, beside an entry that is refused.
MCMarkerStarts == {-1, 0, 6, 14}

\* One of the two ties that the durations have.
MCRoundedDown == {<<1, 3, 30>>}

\* A chapter of five that is found too near to the one before it, a last one of two that is
\* found too near to the end, and two markers.
MCShort == {<<20, 28>>, <<12, 20>>, <<6, 14>>}

Init ==
  /\ part \in {"sprites", "transcript", "settings", "reencode", "fields", "listing", "dispatch",
              "chapters", "playback"}
  /\ PlaybackInit
  /\ SpriteInit
  /\ IF part = "sprites"
     THEN (drops = MaxDrops /\ sprites = [r \in SpriteRows |-> "none"])
          \/ (drops = 0 /\ sprites = [r \in SpriteRows |-> IF r \in UrgentRows THEN "cancelled" ELSE "none"])
     ELSE drops = MaxDrops /\ sprites = [r \in SpriteRows |-> "cancelled"]
  /\ TranscriptInit
  /\ part # "transcript" => scribe.step = "disabled"
  /\ SettingsInit
  /\ IF part = "settings"
     THEN (edits = 0 /\ readFailures = MaxReadFailures) \/ (edits = 1 /\ readFailures = 0 /\ stored = Absent)
     ELSE edits = MaxEdits /\ readFailures = 0 /\ stored = Absent
  /\ ReencodeInit
  /\ part # "reencode" => sameDisk
  /\ FieldInit
  /\ part # "fields" => fieldValue = [f \in Fields |-> Unset]
                        /\ \A q \in FieldRequests : setter[q].order = CHOOSE o \in Orders : TRUE
  /\ ListingInit
  /\ IF part = "listing" THEN publishedAt[1] = 1 /\ publishedAt[2] = 1
     ELSE ~ascending /\ publishedAt = [v \in ListedVideos |-> 0]
  /\ DispatchInit
  /\ IF part = "dispatch"
     THEN IF \A w \in Loops : streams[w] THEN faults = 0 ELSE faults = 1 /\ streams[CHOOSE w \in Loops : TRUE]
     ELSE faults = 0 /\ \A w \in Loops : streams[w]
  /\ IF part = "chapters"
     THEN /\ ChapterInit
          /\ recording.markers # <<>> => recording.sentences = 3
          /\ recording.chapters \/ inquiry.replace => recording.markers = <<>>
     ELSE /\ inquiry = [source |-> "both", replace |-> FALSE] /\ detection = Nothing
          /\ recording = [duration |-> 0, markers |-> <<>>, sentences |-> 0, chapters |-> FALSE]

Next ==
  \/ /\ part = "sprites" /\ SpriteNext
     /\ UNCHANGED <<part, transcriptVars, settingsVars, reencodeVars, fieldVars, listingVars,
                    dispatchVars, chapterVars, playbackVars>>
  \/ /\ part = "transcript" /\ TranscriptNext
     /\ UNCHANGED <<part, spriteVars, settingsVars, reencodeVars, fieldVars, listingVars,
                    dispatchVars, chapterVars, playbackVars>>
  \/ /\ part = "settings" /\ SettingsNext
     /\ UNCHANGED <<part, spriteVars, transcriptVars, reencodeVars, fieldVars, listingVars,
                    dispatchVars, chapterVars, playbackVars>>
  \/ /\ part = "reencode" /\ ReencodeNext
     /\ UNCHANGED <<part, spriteVars, transcriptVars, settingsVars, fieldVars, listingVars,
                    dispatchVars, chapterVars, playbackVars>>
  \/ /\ part = "fields" /\ FieldNext
     /\ UNCHANGED <<part, spriteVars, transcriptVars, settingsVars, reencodeVars, listingVars,
                    dispatchVars, chapterVars, playbackVars>>
  \/ /\ part = "listing" /\ ListingNext
     /\ UNCHANGED <<part, spriteVars, transcriptVars, settingsVars, reencodeVars, fieldVars,
                    dispatchVars, chapterVars, playbackVars>>
  \/ /\ part = "dispatch" /\ DispatchNext
     /\ UNCHANGED <<part, spriteVars, transcriptVars, settingsVars, reencodeVars, fieldVars,
                    listingVars, chapterVars, playbackVars>>
  \/ /\ part = "chapters" /\ ChapterNext
     /\ UNCHANGED <<part, spriteVars, transcriptVars, settingsVars, reencodeVars, fieldVars,
                    listingVars, dispatchVars, playbackVars>>
  \/ /\ part = "playback" /\ PlaybackNext
     /\ UNCHANGED <<part, spriteVars, transcriptVars, settingsVars, reencodeVars, fieldVars,
                    listingVars, dispatchVars, chapterVars>>

\* SettingsFairness and DispatchFairness, of their own parts; in the other ones their
\* loops would begin. Of the other services that do not begin no fair action is ever enabled.
SettingsFairnessHere ==
  /\ \A p \in Processes : /\ WF_settingsVars(part = "settings" /\ CacheExpires(p))
                          /\ WF_settingsVars(part = "settings" /\ Reading(p))
                          /\ WF_settingsVars(part = "settings" /\ CopyExpires(p))
                          /\ SF_settingsVars(part = "settings" /\ TakeCopy(p))
  /\ \A e \in Edits : WF_settingsVars(part = "settings" /\ Editing(e))
DispatchFairnessHere ==
  /\ \A w \in Loops : WF_dispatchVars(part = "dispatch" /\ Looping(w))
  /\ SF_dispatchVars(part = "dispatch" /\ \E w \in Loops : RecoverMessage(w))
  /\ \A j \in DispatchJobs : WF_dispatchVars(part = "dispatch" /\ ClaimLapses(j))

Spec ==
  /\ Init /\ [][Next]_serviceVars
  /\ SpriteFairness /\ TranscriptFairness /\ SettingsFairnessHere /\ FieldFairness
  /\ DispatchFairnessHere

\* Types, of all services.
ServicesTypeOK ==
  /\ SpriteTypeOK /\ TranscriptTypeOK /\ SettingsTypeOK /\ ReencodeTypeOK /\ FieldTypeOK
  /\ ListingTypeOK /\ DispatchTypeOK /\ ChapterTypeOK /\ PlaybackTypeOK
=============================================================================
