----------------------------- MODULE TokenBridge ----------------------------
(***************************************************************************)
(* The path of a synthesis through the inference server: the vLLM token    *)
(* generator (inference/backends/vllm.py), the decoder thread              *)
(* (tokens_decoder_sync of inference/pipeline/speechpipe.py) and the gRPC  *)
(* handler that reads the audio (inference/server.py).                     *)
(*                                                                         *)
(* The coroutines of all streams share one event loop, and each puts its   *)
(* tokens into a bounded queue with a put that blocks the loop while the   *)
(* queue is full.  A decoder thread takes them and puts audio chunks into  *)
(* a second bounded queue, which the handler empties.  Which tokens it     *)
(* skips, which windows give no audio and what the chunks hold is the      *)
(* subject of FrameDecoder; here any token may be skipped, a window is due *)
(* after FirstChunk accepted tokens and after every TokensPerChunk more,   *)
(* and any window may give nothing.                                        *)
(***************************************************************************)
EXTENDS Integers, Sequences

CONSTANTS
    Stream,
    Tokens,          \* how many tokens the model makes of each stream's text
    FirstChunk,      \* 28: the window of the decoder
    TokensPerChunk,  \* 7: a frame
    QueueCap,        \* maxsize of the token queue, 512
    AudioCap,        \* maxsize of the audio queue
    MayFail,         \* streams whose generation may fail
    MayBreak,        \* streams whose decoding may fail
    MayLeave,        \* streams whose reader may go away
    MaxLost,         \* bound on a stream's skipped tokens and windows without audio
    Free             \* no coroutine is inside a put

ASSUME TokenBridgeAssumption ==
    /\ Tokens \in [Stream -> Nat]
    /\ TokensPerChunk \in Nat \ {0} /\ FirstChunk \in Nat \ {0}
    /\ FirstChunk % TokensPerChunk = 0
    /\ QueueCap \in Nat \ {0} /\ AudioCap \in Nat \ {0} /\ MaxLost \in [Stream -> Nat]
    /\ MayFail \subseteq Stream /\ MayBreak \subseteq Stream /\ MayLeave \subseteq Stream
    /\ Free \notin Stream

VARIABLES
    loop,      \* the coroutine the event loop is running, if it is in a put
    coro,      \* where the coroutine stands: the next item it puts
    made,      \* tokens made so far
    queue,     \* the token queue
    decoder,   \* where the decoder thread stands
    taken,     \* tokens it has taken
    count,     \* tokens it has accepted
    silent,    \* history: due windows that gave no audio
    audio,     \* the audio queue
    reader,    \* where the gRPC handler stands
    sent,      \* chunks it has sent
    closed,    \* the generator was closed: fut.cancel is scheduled
    failed     \* history: generation or decoding failed

vars == <<loop, coro, made, queue, decoder, taken, count, silent, audio, reader, sent, closed, failed>>
loopVars == <<loop, coro, made>>
counts == <<taken, count, silent>>
decoderVars == <<decoder, counts>>
readerVars == <<reader, sent>>

Init ==
    /\ loop = Free
    /\ coro = [s \in Stream |-> "generate"]
    /\ made = [s \in Stream |-> 0]
    /\ queue = [s \in Stream |-> <<>>]
    /\ decoder = [s \in Stream |-> "get"]
    /\ taken = [s \in Stream |-> 0]
    /\ count = [s \in Stream |-> 0]
    /\ silent = [s \in Stream |-> 0]
    /\ audio = [s \in Stream |-> <<>>]
    /\ reader = [s \in Stream |-> "get"]
    /\ sent = [s \in Stream |-> 0]
    /\ closed = [s \in Stream |-> FALSE]
    /\ failed = [s \in Stream |-> FALSE]

---------------------------------------------------------------------------
(* _produce, on the event loop.                                             *)

(* The loop resumes a coroutine with what the engine has for it -- a token, *)
(* an error, the end -- or with its cancellation; it goes into q.put.       *)
Resume(s) ==
    /\ loop = Free
    /\ coro[s] = "generate"
    /\ loop' = s
    /\ \/ made[s] < Tokens[s] /\ coro' = [coro EXCEPT ![s] = "token"] /\ UNCHANGED failed
       \/ (made[s] = Tokens[s] \/ closed[s]) /\ coro' = [coro EXCEPT ![s] = "sentinel"] /\ UNCHANGED failed
       \/ /\ s \in MayFail
          /\ coro' = [coro EXCEPT ![s] = "error"]
          /\ failed' = [failed EXCEPT ![s] = TRUE]
    /\ UNCHANGED <<made, queue, decoderVars, audio, readerVars, closed>>

(* Where a coroutine is when its put returns: the finally clause follows an *)
(* error, and nothing follows the sentinel.                                 *)
After(item) == CASE item = "token" -> "generate" [] item = "error" -> "sentinel" [] OTHER -> "done"

(* Mutant of Put: the queue has no maxsize.                                 *)
PutUnbounded(s) ==
    /\ loop = s
    /\ queue' = [queue EXCEPT ![s] = Append(@, coro[s])]
    /\ made' = [made EXCEPT ![s] = IF coro[s] = "token" THEN @ + 1 ELSE @]
    /\ coro' = [coro EXCEPT ![s] = After(coro[s])]
    /\ loop' = IF coro[s] = "error" THEN s ELSE Free
    /\ UNCHANGED <<decoderVars, audio, readerVars, closed, failed>>

(* q.put: while the queue is full the loop, and every stream, waits.        *)
Put(s) ==
    /\ loop = s
    /\ Len(queue[s]) < QueueCap
    /\ queue' = [queue EXCEPT ![s] = Append(@, coro[s])]
    /\ made' = [made EXCEPT ![s] = IF coro[s] = "token" THEN @ + 1 ELSE @]
    /\ coro' = [coro EXCEPT ![s] = After(coro[s])]
    /\ loop' = IF coro[s] = "error" THEN s ELSE Free
    /\ UNCHANGED <<decoderVars, audio, readerVars, closed, failed>>

---------------------------------------------------------------------------
(* The decoder thread: _gen, tokens_decoder and async_producer.  Tokens are *)
(* handed over in batches, which delays them and nothing else.              *)

Goes(s, label) == decoder' = [decoder EXCEPT ![s] = label]

MayLose(s) == taken[s] - count[s] + silent[s] < MaxLost[s]

(* convert_to_audio gives samples, which are to be put, or None (or none),  *)
(* which is passed over.                                                    *)
Decode(s, some, none) ==
    \/ Goes(s, some) /\ UNCHANGED silent
    \/ MayLose(s) /\ Goes(s, none) /\ silent' = [silent EXCEPT ![s] = @ + 1]

Due(n) == n >= FirstChunk /\ n % TokensPerChunk = 0

TokenTaken(s) ==
    /\ decoder[s] = "get"
    /\ queue[s] # <<>> /\ Head(queue[s]) = "token"
    /\ queue' = [queue EXCEPT ![s] = Tail(@)]
    /\ taken' = [taken EXCEPT ![s] = @ + 1]

(* A token with an id above zero.                                           *)
TakeToken(s) ==
    /\ TokenTaken(s)
    /\ count' = [count EXCEPT ![s] = @ + 1]
    /\ IF Due(count[s] + 1) THEN Decode(s, "chunk", "get") ELSE UNCHANGED <<decoder, silent>>
    /\ UNCHANGED <<loopVars, audio, readerVars, closed, failed>>

(* A token without an id, or with one that is not above zero.               *)
SkipToken(s) ==
    /\ MayLose(s)
    /\ TokenTaken(s)
    /\ UNCHANGED <<loopVars, decoder, count, silent, audio, readerVars, closed, failed>>

(* The sentinel ends the generator; a frame that is not complete is decoded *)
(* as well.  An error is raised out of it, and async_producer logs it.      *)
TakeEnd(s) ==
    /\ decoder[s] = "get"
    /\ queue[s] # <<>> /\ Head(queue[s]) # "token"
    /\ queue' = [queue EXCEPT ![s] = Tail(@)]
    /\ closed' = [closed EXCEPT ![s] = TRUE]
    /\ IF Head(queue[s]) = "sentinel" /\ count[s] >= FirstChunk /\ count[s] % TokensPerChunk # 0
       THEN Decode(s, "last", "finish")
       ELSE Goes(s, "finish") /\ UNCHANGED silent
    /\ UNCHANGED <<loopVars, taken, count, audio, readerVars, failed>>

DecodeError(s) ==
    /\ s \in MayBreak
    /\ decoder[s] \in {"chunk", "last"}
    /\ failed' = [failed EXCEPT ![s] = TRUE]
    /\ Goes(s, "finish")
    /\ UNCHANGED <<loopVars, queue, counts, audio, readerVars, closed>>

(* Mutant of PutAudio: a chunk that finds the queue full is dropped.        *)
PutAudioDrops(s) ==
    /\ decoder[s] \in {"chunk", "last"}
    /\ audio' = [audio EXCEPT ![s] = IF Len(@) < AudioCap THEN Append(@, "pcm") ELSE @]
    /\ Goes(s, IF decoder[s] = "chunk" THEN "get" ELSE "finish")
    /\ UNCHANGED <<loopVars, queue, counts, readerVars, closed, failed>>

PutAudio(s) ==
    /\ decoder[s] \in {"chunk", "last"}
    /\ Len(audio[s]) < AudioCap
    /\ audio' = [audio EXCEPT ![s] = Append(@, "pcm")]
    /\ Goes(s, IF decoder[s] = "chunk" THEN "get" ELSE "finish")
    /\ UNCHANGED <<loopVars, queue, counts, readerVars, closed, failed>>

(* Mutant of Finish: None is not put in a finally clause.                   *)
FinishUnlessFailed(s) ==
    /\ decoder[s] = "finish"
    /\ Len(audio[s]) < AudioCap
    /\ audio' = [audio EXCEPT ![s] = IF failed[s] THEN @ ELSE Append(@, "none")]
    /\ Goes(s, "done")
    /\ UNCHANGED <<loopVars, queue, counts, readerVars, closed, failed>>

Finish(s) ==
    /\ decoder[s] = "finish"
    /\ Len(audio[s]) < AudioCap
    /\ audio' = [audio EXCEPT ![s] = Append(@, "none")]
    /\ Goes(s, "done")
    /\ UNCHANGED <<loopVars, queue, counts, readerVars, closed, failed>>

---------------------------------------------------------------------------
(* The gRPC handler.                                                        *)

Read(s) ==
    /\ reader[s] = "get"
    /\ audio[s] # <<>>
    /\ audio' = [audio EXCEPT ![s] = Tail(@)]
    /\ IF Head(audio[s]) = "pcm"
       THEN sent' = [sent EXCEPT ![s] = @ + 1] /\ UNCHANGED reader
       ELSE reader' = [reader EXCEPT ![s] = "ended"] /\ UNCHANGED sent
    /\ UNCHANGED <<loopVars, queue, decoderVars, closed, failed>>

(* The call is cancelled; nobody empties the audio queue any more.          *)
Leave(s) ==
    /\ s \in MayLeave
    /\ reader[s] = "get"
    /\ reader' = [reader EXCEPT ![s] = "left"]
    /\ UNCHANGED <<loopVars, queue, decoderVars, audio, sent, closed, failed>>

(* When neither the handler nor the thread refers to it any more, the       *)
(* generator is closed, and its finally clause cancels the coroutine.       *)
Collect(s) ==
    /\ ~closed[s]
    /\ decoder[s] = "done" /\ reader[s] # "get"
    /\ closed' = [closed EXCEPT ![s] = TRUE]
    /\ UNCHANGED <<loopVars, queue, decoderVars, audio, readerVars, failed>>

Idle == (\A s \in Stream : reader[s] # "get") /\ UNCHANGED vars

Next ==
    \/ \E s \in Stream :
          \/ Resume(s) \/ Put(s)
          \/ TakeToken(s) \/ SkipToken(s) \/ TakeEnd(s) \/ DecodeError(s) \/ PutAudio(s) \/ Finish(s)
          \/ Read(s) \/ Leave(s) \/ Collect(s)
    \/ Idle

Spec == Init /\ [][Next]_vars

(* Threads run.  The loop serves its ready coroutines in turn, and the      *)
(* engine makes progress on every request while the loop runs.  A reader    *)
(* that has not gone away reads.                                            *)
Fairness ==
    \A s \in Stream :
        /\ SF_vars(Resume(s))
        /\ WF_vars(Put(s))
        /\ WF_vars(TakeToken(s) \/ SkipToken(s) \/ TakeEnd(s) \/ PutAudio(s) \/ Finish(s))
        /\ WF_vars(Read(s))
        /\ WF_vars(Collect(s))

FairSpec == Spec /\ Fairness

---------------------------------------------------------------------------
(* Properties.                                                              *)

(* The queues keep to their sizes, and only the coroutine on the loop is    *)
(* inside a put.                                                            *)
TypeOK ==
    /\ loop \in Stream \cup {Free}
    /\ coro \in [Stream -> {"generate", "token", "error", "sentinel", "done"}]
    /\ \A s \in Stream : coro[s] \in {"token", "error", "sentinel"} <=> loop = s
    /\ made \in [Stream -> Nat] /\ taken \in [Stream -> Nat]
    /\ count \in [Stream -> Nat] /\ silent \in [Stream -> Nat]
    /\ \A s \in Stream : count[s] <= taken[s] /\ taken[s] <= made[s] /\ made[s] <= Tokens[s]
    /\ queue \in [Stream -> Seq({"token", "error", "sentinel"})]
    /\ audio \in [Stream -> Seq({"pcm", "none"})]
    /\ \A s \in Stream : Len(queue[s]) <= QueueCap /\ Len(audio[s]) <= AudioCap
    /\ decoder \in [Stream -> {"get", "chunk", "last", "finish", "done"}]
    /\ reader \in [Stream -> {"get", "ended", "left"}]
    /\ sent \in [Stream -> Nat]
    /\ closed \in [Stream -> BOOLEAN] /\ failed \in [Stream -> BOOLEAN]

(* The windows due for n accepted tokens, the last one included.            *)
Chunks(n) == IF n < FirstChunk THEN 0 ELSE 1 + (n - FirstChunk + TokensPerChunk - 1) \div TokensPerChunk

(* A stream that ends and whose generation and decoding did not fail has    *)
(* had every token of the model decoded or skipped, and has sent every due  *)
(* window but those that gave no audio, whatever the queues held when and   *)
(* however the coroutine was cancelled.  (How much the skipped tokens and   *)
(* the silent windows cost is FrameDecoder's; a stream that failed, or lost *)
(* some this way, ends for its reader like any other, only shorter.)        *)
WholeUnlessFailed ==
    \A s \in Stream : reader[s] = "ended" /\ ~failed[s] =>
        taken[s] = Tokens[s] /\ sent[s] + silent[s] = Chunks(count[s])

(* Every stream ends for its reader, although all of them share the loop    *)
(* and its puts block, and although others fail or are abandoned.           *)
StreamsEnd == \A s \in Stream : reader[s] = "get" ~> reader[s] # "get"
=============================================================================
