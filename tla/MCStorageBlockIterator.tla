----------------------- MODULE MCStorageBlockIterator -----------------------
(* Model values and bounds for StorageBlockIterator.                       *)
EXTENDS StorageBlockIterator

\* at most MaxMsgs ReadResponse messages of at most MaxMsgFrames frames,
\* at most MaxFrames frames in all
MaxMsgs == 3
MaxMsgFrames == 2
MaxFrames == 4

MCMessages == SeqOf(FrameKinds, MaxMsgFrames) \ {<<>>}

MCAllStreams ==
  {s \in SeqOf(MCMessages, MaxMsgs) : Len(FlattenSeq(s)) <= MaxFrames}

\* streams as the storage service sends them: a series frame first
MCWellFormedStreams ==
  {s \in MCAllStreams : Len(s) = 0 \/ Head(Head(s)) = Series}

\* streams that may open with point frames before any series frame
MCMalformedStreams == MCAllStreams
=============================================================================
