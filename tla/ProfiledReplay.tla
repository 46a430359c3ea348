---------------------------- MODULE ProfiledReplay ----------------------------
(***************************************************************************)
(* ascep agent-profile and the replay run it feeds: transcripts are         *)
(* measured, cut into shapes, loaded and replayed by the session users.     *)
(***************************************************************************)
EXTENDS AgentProfile, SessionReplay

CONSTANTS Campaigns,       \* the exported sessions: sequences of transcripts
          SharedPrefixes   \* --shared-prefix-tokens

VARIABLE campaign

\* Whatever agent-profile writes of a campaign the replay may load.
ASSUME ProfiledAssumption ==
  /\ \A c \in Campaigns : c \in Seq({t \in Range(c) : IsTranscript(t)})
  /\ {[shapes |-> to_replay_shapes(c), shared |-> p] :
        c \in {c \in Campaigns : /\ \A i \in DOMAIN c : ~ShapesRaise(c[i])
                                /\ to_replay_shapes(c) # <<>>},
        p \in SharedPrefixes} \subseteq Plans

profiledVars == <<campaign, replayVars>>

\* load_shapes refuses a file without sessions.
ProfiledInit ==
  /\ campaign \in Campaigns
  /\ \A i \in DOMAIN campaign : ~ShapesRaise(campaign[i])
  /\ ReplayStart
  /\ \E shapes \in {to_replay_shapes(campaign)} \ {<<>>}, shared \in SharedPrefixes :
       plan = [shapes |-> shapes, shared |-> shared]

ProfiledNext == ReplayNext /\ UNCHANGED campaign

ProfiledSpec == ProfiledInit /\ [][ProfiledNext]_profiledVars

-----------------------------------------------------------------------------
\* Messages were generated one after the other: one that ended had begun, no later one
\* began before, and nothing began after the last recorded end.
OneAtATime(t) ==
  /\ \A i \in DOMAIN t.turns : t.turns[i].completed # Missing =>
       t.turns[i].created # Missing /\ t.turns[i].created <= t.turns[i].completed
  /\ \A i, j \in MessageWindows(t) :
       Earlier(t, i, j) => t.turns[i].completed <= t.turns[j].created
  /\ \A begun \in AllCreated(t) : \E ended \in EndTimes(t) : begun <= ended

\* Calls that ran inside the message that made them.
ToolsInside(t) ==
  \A turn \in Range(t.turns) : \A i \in Intervals(turn) :
    /\ turn.created # Missing /\ turn.completed # Missing
    /\ turn.created <= i[1] /\ i[2] <= turn.completed

\* The gaps of a transcript's shape, turn by turn, in parts of a millisecond.
IdleTime(t, scale) ==
  SumTo(Len(t.turns), [i \in DOMAIN t.turns |->
    SumTo(Len(t.turns[i].prompts), [k \in DOMAIN t.turns[i].prompts |->
      (scale * Gap(t, <<i, k>>)[1]) \div Gap(t, <<i, k>>)[2]])])

IdleFits(t, scale) ==
  OneAtATime(t) /\ ToolsInside(t) =>
    /\ IdleTime(t, scale) + scale * GeneratingMs(t) <= scale * SessionMs(t)
    /\ ToolBlockedMs(t) + GeneratingMs(t) <= SessionMs(t)

\* A replay never idles longer than the session did: the gaps of a session's shape and its
\* generating time fit in its measured length, and so do tool time and generating time, so
\* that kv_residency is a share of it and needs no clamp.
IdleFitsSession == \A n \in DOMAIN campaign : IdleFits(campaign[n], 6)

\* The aggregate and the shapes read one transcript alike: a prompt whose growth enters
\* context_growth_tokens_per_turn is replayed as an append, and one counted as resuming
\* from a compaction is replayed cold.  (Messages created at the same moment
\* are excepted: parse_session then counts a compaction after every step, the shapes in
\* export order.)
ReadAlike(t) ==
  (\A i, j \in DOMAIN t.turns : CreatedMs(t.turns[i]) = CreatedMs(t.turns[j]) => i = j) =>
    /\ \A step \in GrowthSteps(t) : ~ResetsPrefix(t, step)
    /\ \A step \in ResumeSteps(t) : ResetsPrefix(t, step)

ProfileAgreesWithReplay == \A n \in DOMAIN campaign : ReadAlike(campaign[n])

\* A profiled campaign replays to the end: _text raises only when a declared shared prefix
\* is longer than a prompt that starts a segment.
ProfiledNeverRefused ==
  refused => \E s \in Range(plan.shapes) : \E k \in DOMAIN s :
               (k = 1 \/ s[k].resets) /\ s[k].prompt < plan.shared
=============================================================================
