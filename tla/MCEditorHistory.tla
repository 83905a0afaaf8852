--------------------------- MODULE MCEditorHistory ---------------------------
EXTENDS EditorHistory

MCMedia == {"film", "tune"}

MCTarget == [film |-> "both", tune |-> "audio"]

C(id, media, link, start, dur, src) ==
    [id |-> id, media |-> media, link |-> link, start |-> start, dur |-> dur, src |-> src,
     fin |-> 0, fout |-> 0]

Project(video, audio, cuts) ==
    [tracks |-> <<[id |-> 1, kind |-> "video", muted |-> FALSE, clips |-> video],
                  [id |-> 2, kind |-> "audio", muted |-> FALSE, clips |-> audio]>>,
     titles |-> <<>>, cuts |-> cuts]

NoCuts == [video |-> <<>>, audio |-> <<>>]

\* A project just created, to which a title was added.
Blank == Project(<<>>, <<>>, NoCuts)

Titled == [content |-> [Blank EXCEPT !.titles = <<[id |-> 1, start |-> 1, dur |-> 2]>>], owned |-> {},
           known |-> [film |-> 0, tune |-> 2], past |-> <<[content |-> Blank, owned |-> {}]>>]

\* Two linked pairs of a probed film side by side with a transition at their cut.
Finished ==
    [content |-> Project(<<C(1, "film", 1, 0, 3, 0), C(3, "film", 2, 3, 3, 1)>>,
                         <<C(2, "film", 1, 0, 3, 0), C(4, "film", 2, 3, 3, 1)>>,
                         [video |-> <<[id |-> 1, track |-> 1, left |-> 1, right |-> 3, dur |-> 2]>>,
                          audio |-> <<>>]),
     owned |-> {}, known |-> [film |-> 4, tune |-> 4], past |-> <<>>]

\* The sound of a film placed before it was probed, its picture deleted, with a
\* probed tune after it.
Unprobed ==
    [content |-> Project(<<>>, <<C(2, "film", 1, 0, 3, 0), C(3, "tune", 0, 4, 3, 0)>>, NoCuts),
     owned |-> {2}, known |-> [film |-> 0, tune |-> 4], past |-> <<>>]

\* Two placeholders side by side, their sound deleted.
Abutting ==
    [content |-> Project(<<C(1, "film", 1, 0, 3, 0), C(3, "film", 2, 3, 3, 0)>>, <<>>, NoCuts),
     owned |-> {1, 3}, known |-> [film |-> 0, tune |-> 4], past |-> <<>>]

MCSessions == {Titled, Finished, Unprobed, Abutting}

MCTicks == {2}

MCMoves == {7}

MCNudges == {-1, 1}

MCLengths == {2, 4}
=============================================================================
