-------------------------- MODULE MCTranscription --------------------------
(***************************************************************************)
(* Small instances of Transcription: a run with one audio, with two, runs  *)
(* with the same audio, and one with an audio another run has only when    *)
(* its first is gone.                                                      *)
(***************************************************************************)
EXTENDS Transcription

MCRuns == 1 .. 3
MCChunks == 1 .. 2

Twice == <<2, 1, 1>>
Base == [audios |-> <<<<1>>, <<>>, <<>>>>, provider |-> Cloud, fallback |-> FALSE,
         mode |-> "auto", transport |-> TRUE, realtime |-> TRUE,
         executions |-> <<1, 1, 1>>, trouble |-> 1, kills |-> 1]
MCScenarios ==
    {[Base EXCEPT !.audios = <<<<1, 2>>, <<>>, <<>>>>],
     [Base EXCEPT !.transport = FALSE, !.realtime = FALSE, !.fallback = TRUE, !.trouble = 2],
     [Base EXCEPT !.mode = "file", !.transport = FALSE],
     [Base EXCEPT !.mode = "realtime", !.executions = Twice],
     [Base EXCEPT !.mode = "realtime", !.executions = Twice, !.trouble = 2, !.kills = 0],
     [Base EXCEPT !.mode = "realtime", !.audios = <<<<1>>, <<1>>, <<>>>>, !.trouble = 0],
     [Base EXCEPT !.audios = <<<<1, 2>>, <<>>, <<>>>>, !.provider = Local, !.executions = Twice],
     [Base EXCEPT !.audios = <<<<1>>, <<2>>, <<>>>>, !.provider = Local, !.trouble = 0],
     [Base EXCEPT !.audios = <<<<1, 2>>, <<2>>, <<>>>>, !.provider = Local, !.executions = Twice,
                  !.kills = 0],
     [Base EXCEPT !.audios = <<<<1>>, <<1>>, <<1>>>>, !.provider = Local, !.trouble = 0,
                  !.kills = 0]}

(* One run, the local service, and one chunk that fails.                   *)
LocalScenarios == {[Base EXCEPT !.provider = Local, !.executions = Twice]}
=============================================================================
