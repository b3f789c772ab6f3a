---- MODULE MCStompParser ----
(* StompParser for TLC: the streams it is fed.                             *)
EXTENDS StompParserProps

\* Everything up to five bytes, without a content-length.
ShortStreams == BoundedSeq({LF, CR, NUL, COLON, "x"}, 5)

Lengths == { <<>>, <<"0">>, <<"1">>, <<"2">>, <<"1", "x">> }
Bodies == { <<>>, <<"x">>, <<NUL>>, <<CR, LF>>, <<"x", NUL>>, <<NUL, "x">> }
WithLength == { <<"x", LF, CL, COLON>> \o n \o <<LF, LF>> \o b : n \in Lengths, b \in Bodies }
WithCr == { <<"x", CR, LF, CL, COLON, "1", CR, LF, CR, LF>> \o b : b \in Bodies }
TwoLengths == { <<"x", LF, CL, COLON>> \o n \o <<LF, CL, COLON, "1", LF, LF>> \o b :
                  n \in Lengths, b \in {<<"x">>, <<"x", NUL>>} }
Followers == { <<NUL>>, <<NUL, LF, "x", CR, LF>>, <<"x", LF, LF, NUL>>,
               <<NUL, "x", LF, CL, COLON, "1", LF, LF, NUL, NUL, LF>> }
FrameStreams == { s \o f : s \in WithLength \cup WithCr \cup TwoLengths, f \in Followers }

\* The largest number size_t holds, as a content-length.
LargestStreams == { <<"x", LF, CL, COLON, "1", "5", LF, LF, "x", "x", NUL>> }
UnendedStreams == { <<"x", LF, CL, COLON, "1", LF, LF, "x", "x", LF, LF, NUL>> }

SentBodies == BoundedSeq({LF, CR, NUL, COLON, "x"}, 2)
Extras == { <<>>, <<<< <<"x">>, <<COLON>> >>>>, <<<< <<"x">>, <<>> >>, << <<"x">>, <<"2">> >>>> }
SentFrames == { sendFrame(b, e) : b \in SentBodies, e \in Extras }
NextFrames == { sendFrame(<<NUL>>, <<>>), NewFrame(<<"x">>) }
MCSent == { <<f, g>> : f \in SentFrames, g \in NextFrames }

AllStreams == ShortStreams \cup FrameStreams \cup WrittenBytes
====
