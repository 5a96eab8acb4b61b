------------------------------- MODULE Playback -------------------------------
(***************************************************************************)
(* What the viewers of a video do in api/public.py: one playback session   *)
(* with its heartbeats and its end, whose updates are tried again by       *)
(* api/db_retry.py.                                                        *)
(***************************************************************************)
EXTENDS Naturals, FiniteSets

CONSTANTS PlayerCalls,     \* heartbeats and ends, of the player's timer and of its leaving
          Positions,       \* of the player
          MaxDbRetries,    \* DEFAULT_MAX_RETRIES
          MaxDbFailures    \* bound: errors of the database that are worth a retry

ASSUME PlaybackAssumption ==
  /\ IsFiniteSet(PlayerCalls) /\ Positions \subseteq Nat
  /\ MaxDbRetries \in Nat /\ MaxDbFailures \in Nat

VARIABLES playback,   \* the row of playback_sessions
          playerCall, \* the requests
          dbFailures,
          counted     \* history: the calls that had an effect, and whether two were open at once

playbackVars == <<playback, playerCall, dbFailures, counted>>

NoCall == [step |-> "idle", ends |-> FALSE, playing |-> FALSE, position |-> 0, watched |-> 0,
           furthest |-> 0, retries |-> 0]
Furthest(a, b) == IF a > b THEN a ELSE b

PlaybackInit ==
  /\ playback = [watched |-> 0, furthest |-> 0]
  /\ playerCall = [c \in PlayerCalls |-> NoCall] /\ dbFailures = 0
  /\ counted = [played |-> 0, reached |-> 0, overlapped |-> FALSE]

-----------------------------------------------------------------------------
(* The session. Watched time is counted in heartbeats. *)

Open(c) == playerCall[c].step \in {"read", "write", "repeat"}

\* A heartbeat, of a player that plays or pauses, or the end.
BeginCall(c, ends, playing, position) ==
  /\ playerCall[c].step = "idle" /\ ~(ends /\ playing)
  /\ playerCall' = [playerCall EXCEPT ![c] =
       [NoCall EXCEPT !.step = "read", !.ends = ends, !.playing = playing, !.position = position]]
  /\ counted' = [counted EXCEPT !.overlapped = @ \/ \E d \in PlayerCalls : Open(d)]
  /\ UNCHANGED <<playback, dbFailures>>

\* Both compute their values from the row that they have read.
ReadSession(c) ==
  /\ playerCall[c].step = "read"
  /\ playerCall' = [playerCall EXCEPT ![c].step = "write",
       ![c].watched = playback.watched + (IF playerCall[c].playing THEN 1 ELSE 0),
       ![c].furthest = Furthest(playback.furthest, playerCall[c].position)]
  /\ UNCHANGED <<playback, dbFailures, counted>>

\* Mutant: the statement itself adds to the column.
UpdateSessionRelative(c) ==
  playback' = [watched |-> playback.watched + (IF playerCall[c].playing THEN 1 ELSE 0),
               furthest |-> Furthest(playback.furthest, playerCall[c].position)]

\* end_analytics_session does not write the watched time.
UpdateSession(c) ==
  playback' = [watched |-> IF playerCall[c].ends THEN playback.watched ELSE playerCall[c].watched,
               furthest |-> playerCall[c].furthest]

\* execute_with_retry: after the last attempt the request fails.
TryAgain(c, step) ==
  /\ dbFailures < MaxDbFailures /\ dbFailures' = dbFailures + 1
  /\ playerCall' = [playerCall EXCEPT ![c].retries = @ + 1,
       ![c].step = IF playerCall[c].retries < MaxDbRetries THEN step ELSE "failed"]

Counted(c) ==
  counted' = IF playerCall[c].step = "repeat" THEN counted
             ELSE [counted EXCEPT !.played = @ + (IF playerCall[c].playing THEN 1 ELSE 0),
                                  !.reached = Furthest(@, playerCall[c].position)]

WriteSession(c) ==
  /\ playerCall[c].step \in {"write", "repeat"}
  /\ UpdateSession(c) /\ Counted(c)
  /\ playerCall' = [playerCall EXCEPT ![c].step = "done"]
  /\ UNCHANGED dbFailures

\* The statement was carried out, but the connection ended before the answer: among the
\* errors that are tried again.
AnswerLost(c) ==
  /\ playerCall[c].step \in {"write", "repeat"}
  /\ UpdateSession(c) /\ Counted(c)
  /\ TryAgain(c, "repeat")

\* It was not: no connection, or no lock in time.
WriteRefused(c) ==
  /\ playerCall[c].step \in {"write", "repeat"}
  /\ TryAgain(c, playerCall[c].step)
  /\ UNCHANGED <<playback, counted>>

-----------------------------------------------------------------------------
PlaybackNext ==
  \E c \in PlayerCalls :
    \/ \E ends, playing \in BOOLEAN, position \in Positions : BeginCall(c, ends, playing, position)
    \/ ReadSession(c) \/ WriteSession(c) \/ AnswerLost(c) \/ WriteRefused(c)

PlaybackSpec == PlaybackInit /\ [][PlaybackNext]_playbackVars

-----------------------------------------------------------------------------
PlaybackTypeOK ==
  /\ playback.watched \in 0 .. Cardinality(PlayerCalls) /\ playback.furthest \in Positions \cup {0}
  /\ \A c \in PlayerCalls :
       /\ playerCall[c].step \in {"idle", "read", "write", "repeat", "done", "failed"}
       /\ playerCall[c].retries \in 0 .. MaxDbRetries + 1
  /\ dbFailures \in 0 .. MaxDbFailures

\* A heartbeat counts once, also when its update is carried out again because the answer
\* to the first one was lost, and the furthest position is never lost, as long as a
\* player's calls do not overlap. Overlapping ones can lose time, but never add any.
WatchIsCountedOnce ==
  /\ playback.watched <= counted.played /\ playback.furthest <= counted.reached
  /\ ~counted.overlapped =>
       playback.watched = counted.played /\ playback.furthest = counted.reached
=============================================================================
