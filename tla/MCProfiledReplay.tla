--------------------------- MODULE MCProfiledReplay ---------------------------
EXTENDS ProfiledReplay, TLC

Turn(created, completed, summary, prompts, tools) ==
  [created |-> created, completed |-> completed, summary |-> summary,
   prompts |-> prompts, tools |-> tools]
Call(start, end) == [start |-> start, end |-> end]

\* Two messages and their tool calls: nested, overlapping, adjacent, unfinished, backwards.
CallTimes == {<<>>, <<Call(1, 4), Call(2, 3)>>, <<Call(1, 2), Call(2, 4)>>,
              <<Call(3, 5), Call(1, 7)>>, <<Call(2, Missing), Call(3, 1)>>,
              <<Call(Missing, 3), Call(2, 2)>>}
Timed ==
  {[asked |-> {asked}, turns |-> <<Turn(1, first, FALSE, prompts, calls),
                                   Turn(second, 9, FALSE, <<3, 4>>, <<Call(6, 8)>>)>>] :
     asked \in {0, 2}, first \in {4, 6}, second \in {5, 6, Missing},
     prompts \in {<<1, 2, 2>>}, calls \in CallTimes}

\* Three messages, exported in either order, some of them compactions.
Grown ==
  {[asked |-> {0}, turns |-> <<Turn(c[1], c[1] + 1, s[1], p, <<>>),
                               Turn(c[2], c[2] + 1, s[2], q, <<>>),
                               Turn(c[3], c[3] + 1, s[3], r, <<>>)>>] :
     c \in {<<1, 3, 5>>, <<5, 1, 3>>}, s \in [1..3 -> BOOLEAN],
     p \in {<<1>>, <<2, 3>>}, q \in {<<>>, <<3, 3>>}, r \in {<<2>>, <<4>>}}

\* Messages that never ended, ended without a beginning or before it, or lasted no time;
\* two of them created at once.
Clocked ==
  {[asked |-> {0}, turns |-> <<Turn(a, b, FALSE, <<1>>, <<>>),
                               Turn(4, d, FALSE, <<2>>, <<>>),
                               Turn(4, 6, FALSE, <<3>>, <<>>)>>] :
     a \in {1, 5, Missing}, b \in {1, 3, Missing}, d \in {3, 4, 6, Missing}}

\* A long session beside short ones.
Long == [asked |-> {0}, turns |-> <<Turn(1, 4, FALSE, <<1, 2, 3>>, <<Call(2, 3)>>),
                                    Turn(5, 6, TRUE, <<4>>, <<>>),
                                    Turn(7, 9, FALSE, <<2, 3>>, <<>>)>>]
Short == [asked |-> {0}, turns |-> <<Turn(1, 2, FALSE, <<2>>, <<>>)>>]

MCCampaigns == {<<t>> : t \in Timed \cup Grown \cup Clocked} \cup {<<Long, Short>>, <<Short, Long>>}
FleetSymmetry == Permutations(Users)
MCBases == <<0, 5>>
MCPlans == {[shapes |-> to_replay_shapes(c), shared |-> p] :
              c \in {c \in MCCampaigns : to_replay_shapes(c) # <<>>}, p \in SharedPrefixes}
=============================================================================
