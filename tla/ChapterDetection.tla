-------------------------- MODULE ChapterDetection --------------------------
(***************************************************************************)
(* One request to detect the chapters of a video: auto_detect_chapters of  *)
(* api/admin.py with the algorithms of api/chapter_detection.py, from the  *)
(* markers that ffprobe finds in the file and from the transcript. Times   *)
(* are counted in ticks; what is computed from a transcript is rounded to  *)
(* hundredths of a second. The code computes with binary fractions, which  *)
(* at this scale decides two things otherwise than decimals do: which way  *)
(* a tie is rounded, and whether two times that are the minimum apart are  *)
(* found to be it. Both are constants. Titles are left out, except for the *)
(* sentence that one is made of. The transaction that stores the chapters  *)
(* is left out.                                                            *)
(***************************************************************************)
EXTENDS Integers, FiniteSets, SequencesExt

CONSTANTS Durations,     \* of the video, in ticks; 0 if it is not known
          MarkerStarts,  \* where markers of the file start; below 0: an entry that is refused
          MaxMarkers,    \* bound: markers in the file
          MaxSentences,  \* bound: sentences in the transcript
          Second,        \* ticks in a second
          Hundredth,     \* ticks in a hundredth of a second
          MinLength,     \* min_chapter_length of the request, which has whole seconds
          RoundedDown,   \* <<i, num, duration>>: ties between hundredths that are rounded down
          Short,         \* times MinLength apart whose difference comes out as less than it
          MaxGenerated,  \* MAX_AUTO_GENERATED_CHAPTERS
          MaxChapters    \* MAX_CHAPTERS_PER_VIDEO

ASSUME ChapterAssumption ==
  /\ Durations \subseteq Nat /\ MarkerStarts \subseteq Int
  /\ Hundredth \in Nat \ {0} /\ MinLength \in Nat \ {0} /\ MinLength % Hundredth = 0
  /\ Second \in Nat \ {0} /\ MinLength % Second = 0
  \* Whole seconds are numbers that the code has exactly.
  /\ Short \subseteq {p \in Nat \X Nat : p[2] - p[1] = MinLength /\ p[2] % Second # 0}
  /\ MaxGenerated \in Nat \ {0} /\ MaxChapters \in Nat \ {0}
  /\ MaxMarkers \in Nat /\ MaxSentences \in Nat

VARIABLES inquiry,    \* the request: its source, and whether it replaces chapters
          recording,  \* the video: its duration, markers, sentences, and whether it has chapters
          detection   \* the step reached, the chapters that were found, and those that are kept

chapterVars == <<inquiry, recording, detection>>

NotCompleted == -1
Nothing == [step |-> "idle", used |-> "none", found |-> <<>>, kept |-> <<>>]

ChapterInit ==
  /\ inquiry \in [source : {"metadata", "transcription", "both"}, replace : BOOLEAN]
  /\ recording \in [duration : Durations, markers : BoundedSeq(MarkerStarts, MaxMarkers),
                    sentences : NotCompleted .. MaxSentences, chapters : BOOLEAN]
  /\ detection = Nothing

Goto(step) == detection' = [detection EXCEPT !.step = step]
Found(source, chapters) ==
  detection' = [detection EXCEPT !.step = "found", !.used = source, !.found = chapters]

-----------------------------------------------------------------------------
(* The algorithms. *)

\* extract_chapters_from_metadata: entries with impossible times are left out.
FromMetadata ==
  LET chapters[n \in 0 .. Len(recording.markers)] ==
        IF n = 0 THEN <<>>
        ELSE IF recording.markers[n] < 0 THEN chapters[n - 1]
        ELSE Append(chapters[n - 1], [start |-> recording.markers[n], sentence |-> 0])
  IN chapters[Len(recording.markers)]

\* i-th of num equal parts of the video, rounded; the 1 only makes a difference to a tie.
PartStart(i, num) ==
  LET down == IF <<i, num, recording.duration>> \in RoundedDown THEN 1 ELSE 0
  IN Hundredth * ((2 * i * recording.duration + Hundredth * num - down) \div (2 * Hundredth * num))

\* _analyze_transcript_for_chapters. A part for which no sentence is left is called
\* "Section" with its number.
Parts(num) ==
  LET each == IF recording.sentences \div num > 0 THEN recording.sentences \div num ELSE 1
  IN [i \in 1 .. num |->
       [start |-> PartStart(i - 1, num),
        sentence |-> IF (i - 1) * each < recording.sentences THEN (i - 1) * each + 1 ELSE 0]]

\* Mutant: one part more than there is time for.
FromTranscriptRoundedUp ==
  LET fitting == recording.duration \div MinLength + 1
      num == IF fitting < MaxGenerated THEN fitting ELSE MaxGenerated
  IN IF recording.sentences <= 0 \/ fitting < 2 THEN <<>> ELSE Parts(num)

FromTranscript ==
  LET fitting == recording.duration \div MinLength
      num == IF fitting < MaxGenerated THEN fitting ELSE MaxGenerated
  IN IF recording.sentences <= 0 \/ fitting < 2 THEN <<>> ELSE Parts(num)

\* sorted(), which leaves equal ones in their order.
InOrder(chapters) ==
  LET Before(i, j) == \/ chapters[i].start < chapters[j].start
                      \/ chapters[i].start = chapters[j].start /\ i < j
      place(i) == Cardinality({j \in DOMAIN chapters : Before(j, i)}) + 1
  IN [n \in DOMAIN chapters |-> chapters[CHOOSE i \in DOMAIN chapters : place(i) = n]]

\* What the comparison of a difference with the minimum finds.
Apart(s, t) == t - s >= MinLength /\ <<s, t>> \notin Short

\* The first one in any case; others if far enough from the last one that is kept, and
\* from the end.
Keeps(kept, chapter) ==
  \/ kept = <<>>
  \/ Apart(Last(kept).start, chapter.start) /\ Apart(chapter.start, recording.duration)

InOnePass(chapters) ==
  LET kept[n \in 0 .. Len(chapters)] ==
        IF n = 0 THEN <<>>
        ELSE IF Keeps(kept[n - 1], chapters[n]) THEN Append(kept[n - 1], chapters[n]) ELSE kept[n - 1]
  IN kept[Len(chapters)]

\* Mutant: in the order of the file.
FilterUnsorted(chapters) == InOnePass(chapters)

FilterByLength(chapters) == InOnePass(InOrder(chapters))

-----------------------------------------------------------------------------
(* The request. *)

BeginDetection ==
  /\ detection.step = "idle"
  /\ Goto(IF recording.chapters /\ ~inquiry.replace THEN "refused"
          ELSE IF inquiry.source = "transcription" THEN "transcript" ELSE "file")
  /\ UNCHANGED <<inquiry, recording>>

\* ffprobe answers, or fails, which is logged.
ProbeFile ==
  /\ detection.step = "file"
  /\ \E chapters \in {FromMetadata, <<>>} :
       IF chapters # <<>> THEN Found("metadata", chapters)
       ELSE Goto(IF inquiry.source = "both" THEN "transcript" ELSE "nothing")
  /\ UNCHANGED <<inquiry, recording>>

\* A transcript that is not completed is an error of its own, if only it was asked for.
ReadTranscript ==
  /\ detection.step = "transcript"
  /\ IF FromTranscript # <<>> THEN Found("transcription", FromTranscript)
     ELSE Goto(IF recording.sentences = NotCompleted /\ inquiry.source = "transcription"
               THEN "refused" ELSE "nothing")
  /\ UNCHANGED <<inquiry, recording>>

DetectionTimesOut ==
  /\ detection.step \in {"file", "transcript"} /\ Goto("refused")
  /\ UNCHANGED <<inquiry, recording>>

FilterChapters ==
  /\ detection.step = "found"
  /\ LET kept == FilterByLength(detection.found) IN
       detection' = [detection EXCEPT !.step = IF kept = <<>> THEN "nothing" ELSE "store",
         !.kept = SubSeq(kept, 1, IF Len(kept) < MaxChapters THEN Len(kept) ELSE MaxChapters)]
  /\ UNCHANGED <<inquiry, recording>>

ChapterNext == BeginDetection \/ ProbeFile \/ ReadTranscript \/ DetectionTimesOut \/ FilterChapters
ChapterSpec == ChapterInit /\ [][ChapterNext]_chapterVars

-----------------------------------------------------------------------------
ChapterTypeOK ==
  /\ inquiry \in [source : {"metadata", "transcription", "both"}, replace : BOOLEAN]
  /\ detection.step \in {"idle", "refused", "file", "transcript", "found", "nothing", "store"}
  /\ detection.used \in {"none", "metadata", "transcription"}
  /\ \A c \in ToSet(detection.found) : c.start \in Nat /\ c.sentence \in 0 .. MaxSentences

Starts(chapters) == {chapters[i].start : i \in DOMAIN chapters}

\* What is made of a transcript divides the whole video: it begins with the video, no two
\* of its chapters are nearer than the requested minimum in spite of the rounding, and no
\* sentence names two of them. Each of them is kept up to the limit of a video, but for
\* one that is found too near to the kept one before it though it is not, and for a last
\* one that the rounding has brought too near to the end, or that is found to be.
TranscriptDividesVideo ==
  detection.step = "store" /\ detection.used = "transcription" =>
    LET all == detection.found
        start(i) == all[i].start
        end == recording.duration
        kept == Starts(detection.kept)
        missing == {i \in DOMAIN all : start(i) \notin kept}
    IN
      /\ start(1) = 0 /\ kept \subseteq Starts(all)
      /\ \A i \in 1 .. Len(all) - 1 :
           /\ start(i + 1) - start(i) >= MinLength
           /\ all[i + 1].sentence > all[i].sentence \/ all[i + 1].sentence = 0
      /\ \A i \in missing :
           \/ Len(detection.kept) = MaxChapters /\ start(i) > Last(detection.kept).start
           \/ i > 1 /\ start(i - 1) \in kept /\ <<start(i - 1), start(i)>> \in Short
           \/ /\ i = Len(all)
              /\ \/ MinLength - Hundredth < end - start(i) /\ end - start(i) < MinLength
                 \/ <<start(i), end>> \in Short

\* Chapters that the filter would all keep.
Allowed(starts) ==
  \A s, t \in starts : s < t => Apart(s, t) /\ Apart(t, recording.duration)

\* The chapters that are kept, in one pass, are as many as any choice can have that keeps
\* the first one and the distances, up to the limit of a video; and they are in order.
\* So a request is told that there is nothing only if none of its sources gave a chapter,
\* though the filter runs after the choice of the source and does not go back to the other.
FilterKeepsMost ==
  /\ detection.step = "nothing" => detection.found = <<>>
  /\ detection.step = "store" =>
    LET starts == Starts(detection.found)
        first == CHOOSE s \in starts : \A t \in starts : s <= t
        choices == {c \in SUBSET starts : first \in c /\ Allowed(c)}
        most == CHOOSE n \in 0 .. Cardinality(starts) :
                  /\ \E c \in choices : Cardinality(c) = n
                  /\ \A c \in choices : Cardinality(c) <= n
    IN /\ Len(detection.kept) = IF most < MaxChapters THEN most ELSE MaxChapters
       /\ \A i \in 1 .. Len(detection.kept) - 1 : detection.kept[i].start < detection.kept[i + 1].start
       /\ Allowed(Starts(detection.kept)) /\ detection.kept[1].start = first
=============================================================================
