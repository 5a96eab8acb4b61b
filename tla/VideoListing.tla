---------------------------- MODULE VideoListing ----------------------------
(***************************************************************************)
(* Reading the list of videos page by page: list_videos of api/public.py,  *)
(* with the cursors of api/pagination.py and the cache of the pages, while *)
(* the administrator publishes and unpublishes videos. The sort is by      *)
(* date: the cursor has the date and the id whatever the sort, and with    *)
(* another sort it passes over videos and repeats them.                    *)
(***************************************************************************)
EXTENDS Naturals, FiniteSets

CONSTANTS ListedVideos,  \* by their ids
          PageLimit,     \* limit
          MaxDate,       \* bound: dates of publication
          MaxChanges     \* bound: how often a video changes

ASSUME ListingAssumption ==
  /\ ListedVideos \subseteq Nat \ {0} /\ IsFiniteSet(ListedVideos)
  /\ PageLimit \in Nat \ {0} /\ MaxDate \in Nat \ {0} /\ MaxChanges \in Nat

VARIABLES publishedAt,  \* of each video: its date, or 0 when it is not published
          changes,      \* how often a video changed
          ascending,    \* the order the reader asks for
          cached,       \* _video_list_cache: the pages that are in time, by their cursor
          reader        \* the cursor, how often it saw each video, what did not change meanwhile

listingVars == <<publishedAt, changes, ascending, cached, reader>>

Dates == 0 .. MaxDate
Cursors == Dates \X (ListedVideos \cup {0})
NoCursor == <<0, 0>>
Seen == [ListedVideos -> 0 .. 2]
NothingSeen == [v \in ListedVideos |-> 0]
NoReader == [step |-> "idle", cursor |-> NoCursor, seen |-> NothingSeen, steady |-> {}]
\* For each page the cache also says, as a history, which videos did not change since it was read.
Pages == [rows : SUBSET ListedVideos, next : Cursors, more : BOOLEAN, steady : SUBSET ListedVideos]

ListingInit ==
  /\ publishedAt \in [ListedVideos -> {0, 1}]
  /\ ascending \in BOOLEAN /\ changes = 0
  /\ cached = [c \in {} |-> {}] /\ reader = NoReader

Key(v) == <<publishedAt[v], v>>
Precedes(k, l) == k[1] < l[1] \/ (k[1] = l[1] /\ k[2] < l[2])
After(k, l) == IF ascending THEN Precedes(l, k) ELSE Precedes(k, l)

\* READY and published; those behind the cursor when there is one.
Behind(cursor) == {v \in ListedVideos : publishedAt[v] # 0 /\ (cursor # NoCursor => After(Key(v), cursor))}
\* The first n of them in the order of the sort, and the last of these.
First(videos, n) == {v \in videos : Cardinality({u \in videos : After(Key(v), Key(u))}) < n}
LastKey(videos) ==
  IF videos = {} THEN NoCursor
  ELSE Key(CHOOSE v \in videos : \A u \in videos \ {v} : After(Key(v), Key(u)))

\* Mutant: the extra row that was read to see whether there are more makes the cursor.
NextFromExtra(cursor) ==
  LET found == Behind(cursor)
      more == Cardinality(found) > PageLimit
  IN [rows |-> First(found, PageLimit), more |-> more, steady |-> ListedVideos,
      next |-> IF more THEN LastKey(First(found, PageLimit + 1)) ELSE NoCursor]

PageAt(cursor) ==
  LET found == Behind(cursor)
      page == First(found, PageLimit)
      more == Cardinality(found) > PageLimit
  IN [rows |-> page, next |-> IF more THEN LastKey(page) ELSE NoCursor, more |-> more,
      steady |-> ListedVideos]

-----------------------------------------------------------------------------
\* A video changes: it is no longer steady for any page or reader.
Changes(v) ==
  /\ changes < MaxChanges /\ changes' = changes + 1
  /\ cached' = [c \in DOMAIN cached |-> [cached[c] EXCEPT !.steady = @ \ {v}]]
  /\ reader' = [reader EXCEPT !.steady = @ \ {v}]
  /\ UNCHANGED ascending

\* publish_video with the present date; update_video and bulk_update with any, of videos
\* that are published already too.
PublishVideo(v, date) ==
  /\ publishedAt[v] # date
  /\ publishedAt' = [publishedAt EXCEPT ![v] = date]
  /\ Changes(v)

UnpublishVideo(v) ==
  /\ publishedAt[v] # 0
  /\ publishedAt' = [publishedAt EXCEPT ![v] = 0]
  /\ Changes(v)

PageExpires(c) ==
  /\ cached' = [d \in DOMAIN cached \ {c} |-> cached[d]]
  /\ UNCHANGED <<publishedAt, changes, ascending, reader>>

BeginReading ==
  /\ reader.step # "reading"
  /\ reader' = [NoReader EXCEPT !.step = "reading", !.steady = ListedVideos]
  /\ UNCHANGED <<publishedAt, changes, ascending, cached>>

\* One request: the page of the cache, or the one that is read and cached. The reader
\* goes on with next_cursor.
ReadPage ==
  /\ reader.step = "reading"
  /\ LET page == IF reader.cursor \in DOMAIN cached THEN cached[reader.cursor] ELSE PageAt(reader.cursor)
     IN /\ cached' = [c \in DOMAIN cached \cup {reader.cursor} |->
                        IF c = reader.cursor THEN page ELSE cached[c]]
        /\ reader' = [step |-> IF page.more THEN "reading" ELSE "done",
                      cursor |-> page.next,
                      seen |-> [v \in ListedVideos |-> IF v \in page.rows /\ reader.seen[v] < 2
                                                       THEN reader.seen[v] + 1 ELSE reader.seen[v]],
                      steady |-> reader.steady \cap page.steady]
  /\ UNCHANGED <<publishedAt, changes, ascending>>

-----------------------------------------------------------------------------
ListingNext ==
  \/ \E v \in ListedVideos, date \in Dates \ {0} : PublishVideo(v, date)
  \/ \E v \in ListedVideos : UnpublishVideo(v)
  \/ \E c \in DOMAIN cached : PageExpires(c)
  \/ BeginReading \/ ReadPage
ListingSpec == ListingInit /\ [][ListingNext]_listingVars

-----------------------------------------------------------------------------
ListingTypeOK ==
  /\ publishedAt \in [ListedVideos -> Dates] /\ ascending \in BOOLEAN /\ changes \in 0 .. MaxChanges
  /\ DOMAIN cached \subseteq Cursors /\ \A c \in DOMAIN cached : cached[c] \in Pages
  /\ reader \in [step : {"idle", "reading", "done"}, cursor : Cursors, seen : Seen,
                 steady : SUBSET ListedVideos]

\* Who reads to the end sees each video that did not change meanwhile exactly once when
\* it is published and never when it is not, however others were published or
\* unpublished between two pages, and though some pages are from the cache and others
\* are not ("meanwhile" begins when the oldest of the pages was read).
ListedOnce ==
  reader.step = "done" =>
    \A v \in reader.steady : reader.seen[v] = IF publishedAt[v] = 0 THEN 0 ELSE 1
=============================================================================
