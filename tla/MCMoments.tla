----------------------------- MODULE MCMoments -----------------------------
EXTENDS Moments

\* Audio only; a video with a cut either side of a sample; two cuts close to the
\* first sample, and sound that goes on after the last picture.  Some of the pictures
\* show text.
MCSources == {
  [duration |-> 0,     stream |-> 0,    cuts |-> {}, texts |-> {}],
  [duration |-> 8100,  stream |-> 8100, cuts |-> {250, 7900}, texts |-> {0, 7900}],
  [duration |-> 16500, stream |-> 8050, cuts |-> {200, 400}, texts |-> {400, 8000}]}

Line(id, video, ts) == [modality |-> "transcript", id |-> id, video |-> video, ts |-> ts]

\* Two lines in one bucket, the second on its edge, with a cut between them, and
\* one of another video.
L1 == Line(1, 1, 300)
L2 == Line(2, 1, 4000)
L3 == Line(3, 2, 300)

MCTranscript == {L1, L2, L3}

MCAudioAnswers == {<<>>, <<L2, L1>>, <<L3, L2>>}

MCClips == {<<"speech", "speech">>, <<"speech", "filler", "speech">>,
            <<"filler", "blank">>, <<"blank">>}

MCCases == <<[expected |-> 400, tolerance |-> 100], [expected |-> 8000, tolerance |-> 4000]>>
=============================================================================
