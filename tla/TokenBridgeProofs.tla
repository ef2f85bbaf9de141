-------------------------- MODULE TokenBridgeProofs -------------------------
(***************************************************************************)
(* Proofs about TokenBridge for any streams, lengths and queue sizes: type *)
(* correctness, with the sizes of the queues, and that a stream that ended *)
(* and did not fail has had all its tokens taken and has sent every due    *)
(* window that gave audio.                                                 *)
(***************************************************************************)
EXTENDS TokenBridge, TLAPS

(* The tokens of a stream that wait in its queue.                           *)
Waiting(s) == made[s] - taken[s]

(* Tokens come first in the queue, and as many as were made and not taken;  *)
(* nothing follows them before the coroutine is in its finally clause.      *)
QueueShape(s) ==
    /\ Waiting(s) \in 0 .. Len(queue[s])
    /\ \A i \in 1 .. Len(queue[s]) : queue[s][i] = "token" <=> i <= Waiting(s)
    /\ coro[s] \in {"generate", "token", "error"} => Len(queue[s]) = Waiting(s)
    /\ coro[s] = "token" => made[s] < Tokens[s]

(* None is put last, and read last.                                         *)
AudioShape(s) ==
    /\ \A i \in 1 .. Len(audio[s]) :
          audio[s][i] = "none" <=> /\ i = Len(audio[s])
                                   /\ decoder[s] = "done" /\ reader[s] # "ended"
    /\ decoder[s] = "done" /\ reader[s] # "ended" => audio[s] # <<>>
    /\ reader[s] = "ended" => decoder[s] = "done" /\ audio[s] = <<>>

(* The coroutine ends, and the decoder stops, only after the last token:    *)
(* this is so while neither generation nor decoding has failed.             *)
EndsWhole(s) ==
    /\ coro[s] # "error"
    /\ \A i \in 1 .. Len(queue[s]) : queue[s][i] # "error"
    /\ coro[s] \in {"sentinel", "done"} => made[s] = Tokens[s]
    /\ closed[s] => coro[s] \in {"sentinel", "done"}
    /\ decoder[s] \in {"last", "finish", "done"} =>
          taken[s] = Tokens[s] /\ coro[s] \in {"sentinel", "done"}

(* The chunks due after n tokens, but for a last one.                       *)
DueChunks(n) == IF n < FirstChunk THEN 0 ELSE 1 + (n - FirstChunk) \div TokensPerChunk

(* The due windows the decoder thread is through with, by where it stands.  *)
Passed(s) ==
    CASE decoder[s] = "get"   -> DueChunks(count[s])
      [] decoder[s] = "chunk" -> DueChunks(count[s]) - 1
      [] decoder[s] = "last"  -> Chunks(count[s]) - 1
      [] OTHER                -> Chunks(count[s])

(* The chunks it has put.                                                   *)
Emitted(s) == Passed(s) - silent[s]

(* The chunks in the audio queue.                                           *)
Queued(s) ==
    IF decoder[s] = "done" /\ reader[s] # "ended" THEN Len(audio[s]) - 1 ELSE Len(audio[s])

(* Of a stream that has not failed, the chunks the decoder has put were     *)
(* sent or wait to be.                                                      *)
NothingLost(s) == ~failed[s] => EndsWhole(s) /\ sent[s] + Queued(s) = Emitted(s)

StreamInv(s) == QueueShape(s) /\ AudioShape(s) /\ NothingLost(s)

Inv == TypeOK /\ \A s \in Stream : StreamInv(s)

---------------------------------------------------------------------------
(* Quotients and remainders.                                                *)

(* A positive multiple of t is at least t.                                  *)
LEMMA MultipleAtLeast ==
    ASSUME NEW t \in Nat \ {0}, NEW q \in Int, q >= 1
    PROVE  t * q >= t
OBVIOUS

(* Division with remainder.                                                 *)
LEMMA Division ==
    ASSUME NEW t \in Nat \ {0}, NEW m \in Int
    PROVE  /\ m \div t \in Int /\ m % t \in 0 .. t - 1
           /\ m = t * (m \div t) + (m % t)
OBVIOUS

(* Quotient and remainder are unique.                                       *)
LEMMA DivisionUnique ==
    ASSUME NEW t \in Nat \ {0}, NEW q \in Int, NEW r \in 0 .. t - 1
    PROVE  (t * q + r) \div t = q /\ (t * q + r) % t = r
<1>1. PICK m \in Int : m = t * q + r
  OBVIOUS
<1>2. PICK p \in Int, u \in 0 .. t - 1 : p = m \div t /\ u = m % t /\ m = t * p + u
  BY <1>1, Division
<1>3. t * (q - p) = u - r
  BY <1>1, <1>2
<1>4. ~(q - p >= 1)
  <2>1. SUFFICES ASSUME q - p >= 1 PROVE FALSE
    OBVIOUS
  <2>2. t * (q - p) >= t
    BY <2>1, MultipleAtLeast
  <2> QED
    BY <1>3, <2>2
<1>5. ~(p - q >= 1)
  <2>1. SUFFICES ASSUME p - q >= 1 PROVE FALSE
    OBVIOUS
  <2>2. t * (p - q) >= t
    BY <2>1, MultipleAtLeast
  <2>3. t * (p - q) = r - u
    BY <1>1, <1>2
  <2> QED
    BY <2>2, <2>3
<1>6. p = q
  BY <1>4, <1>5
<1>7. u = r
  BY <1>3, <1>6
<1> QED
  BY <1>1, <1>2, <1>6, <1>7

(* Whole frames taken off a count leave its remainder.                      *)
LEMMA ModShift ==
    ASSUME NEW n \in Int
    PROVE  (n - FirstChunk) % TokensPerChunk = n % TokensPerChunk
<1>0. FirstChunk \in Nat /\ TokensPerChunk \in Nat \ {0} /\ FirstChunk % TokensPerChunk = 0
  BY TokenBridgeAssumption
<1>1. PICK p \in Int, u \in 0 .. TokensPerChunk - 1 :
          n = TokensPerChunk * p + u /\ n % TokensPerChunk = u
  BY <1>0, Division
<1>2. PICK f \in Int : FirstChunk = TokensPerChunk * f
  <2>1. FirstChunk \in Int
    BY <1>0
  <2>2. /\ FirstChunk \div TokensPerChunk \in Int
        /\ FirstChunk = TokensPerChunk * (FirstChunk \div TokensPerChunk) + (FirstChunk % TokensPerChunk)
    BY <1>0, <2>1, Division
  <2>3. PICK f \in Int : f = FirstChunk \div TokensPerChunk
    BY <2>2
  <2>4. FirstChunk = TokensPerChunk * f + 0
    BY <1>0, <2>2, <2>3
  <2>5. TokensPerChunk * f + 0 = TokensPerChunk * f
    BY <1>0
  <2> QED
    BY <2>4, <2>5
<1>3. n - FirstChunk = TokensPerChunk * (p - f) + u
  BY <1>0, <1>1, <1>2
<1>4. (TokensPerChunk * (p - f) + u) % TokensPerChunk = u
  BY <1>0, DivisionUnique
<1> QED
  BY <1>1, <1>3, <1>4

(* The quotient and the remainder of the next number, and of the number     *)
(* rounded up.                                                              *)
LEMMA DivNext ==
    ASSUME NEW t \in Nat \ {0}, NEW m \in Nat
    PROVE  /\ m \div t \in Nat
           /\ (m + 1) \div t = (m \div t) + (IF (m + 1) % t = 0 THEN 1 ELSE 0)
           /\ (m + t - 1) \div t = (m \div t) + (IF m % t = 0 THEN 0 ELSE 1)
<1>1. PICK q \in Int, r \in 0 .. t - 1 : q = m \div t /\ r = m % t /\ m = t * q + r
  BY Division
<1>0. m \div t \in Nat
  OBVIOUS
<1>2. (m + 1) \div t = q + (IF (m + 1) % t = 0 THEN 1 ELSE 0)
  <2>1. CASE r = t - 1
    <3>1. m + 1 = t * (q + 1) + 0
      BY <1>1, <2>1
    <3>2. (t * (q + 1) + 0) \div t = q + 1 /\ (t * (q + 1) + 0) % t = 0
      BY DivisionUnique
    <3> QED
      BY <3>1, <3>2
  <2>2. CASE r # t - 1
    <3>1. m + 1 = t * q + (r + 1) /\ r + 1 \in 0 .. t - 1
      BY <1>1, <2>2
    <3>2. (t * q + (r + 1)) \div t = q /\ (t * q + (r + 1)) % t = r + 1
      BY <3>1, DivisionUnique
    <3> QED
      BY <3>1, <3>2
  <2> QED
    BY <2>1, <2>2
<1>3. (m + t - 1) \div t = q + (IF r = 0 THEN 0 ELSE 1)
  <2>1. CASE r = 0
    <3>1. m + t - 1 = t * q + (t - 1) /\ t - 1 \in 0 .. t - 1
      BY <1>1, <2>1
    <3>2. (t * q + (t - 1)) \div t = q
      BY <3>1, DivisionUnique
    <3> QED
      BY <2>1, <3>1, <3>2
  <2>2. CASE r # 0
    <3>1. m + t - 1 = t * (q + 1) + (r - 1) /\ r - 1 \in 0 .. t - 1
      BY <1>1, <2>2
    <3>2. (t * (q + 1) + (r - 1)) \div t = q + 1
      BY <3>1, DivisionUnique
    <3> QED
      BY <2>2, <3>1, <3>2
  <2> QED
    BY <2>1, <2>2
<1> QED
  BY <1>0, <1>1, <1>2, <1>3

(* A token makes a chunk due when it completes a frame, from the first      *)
(* window on.                                                               *)
LEMMA DueStep ==
    ASSUME NEW n \in Nat
    PROVE  /\ DueChunks(n) \in Nat
           /\ DueChunks(n + 1) = DueChunks(n)
                + (IF n + 1 >= FirstChunk /\ (n + 1) % TokensPerChunk = 0 THEN 1 ELSE 0)
<1>0. FirstChunk \in Nat \ {0} /\ TokensPerChunk \in Nat \ {0} /\ FirstChunk % TokensPerChunk = 0
  BY TokenBridgeAssumption
<1>1. CASE n + 1 < FirstChunk
  BY <1>0, <1>1 DEF DueChunks
<1>2. CASE n + 1 = FirstChunk
  <2>1. (TokensPerChunk * 0 + 0) \div TokensPerChunk = 0
    BY <1>0, DivisionUnique
  <2>2. TokensPerChunk * 0 + 0 = n + 1 - FirstChunk
    BY <1>0, <1>2
  <2> QED
    BY <1>0, <1>2, <2>1, <2>2 DEF DueChunks
<1>3. CASE n >= FirstChunk
  <2>1. PICK m \in Nat : m = n - FirstChunk
    BY <1>0, <1>3
  <2>2. n + 1 - FirstChunk = m + 1
    BY <1>0, <2>1
  <2>3. (m + 1) % TokensPerChunk = (n + 1) % TokensPerChunk
    <3>1. PICK k \in Int : k = n + 1
      OBVIOUS
    <3>2. (k - FirstChunk) % TokensPerChunk = k % TokensPerChunk
      BY ModShift
    <3>3. k - FirstChunk = m + 1
      BY <1>0, <2>1, <3>1
    <3> QED
      BY <3>1, <3>2, <3>3
  <2>4. DueChunks(n) = 1 + m \div TokensPerChunk /\ DueChunks(n + 1) = 1 + (m + 1) \div TokensPerChunk
    BY <1>0, <1>3, <2>1, <2>2 DEF DueChunks
  <2>5. /\ m \div TokensPerChunk \in Nat
        /\ (m + 1) \div TokensPerChunk
             = (m \div TokensPerChunk) + (IF (m + 1) % TokensPerChunk = 0 THEN 1 ELSE 0)
    BY <1>0, DivNext
  <2> QED
    BY <1>0, <1>3, <2>3, <2>4, <2>5
<1> QED
  BY <1>0, <1>1, <1>2, <1>3

(* After the last token one more chunk is due if a frame is incomplete.     *)
LEMMA ChunksDue ==
    ASSUME NEW n \in Nat
    PROVE  Chunks(n) = DueChunks(n)
             + (IF n >= FirstChunk /\ n % TokensPerChunk # 0 THEN 1 ELSE 0)
<1>0. FirstChunk \in Nat \ {0} /\ TokensPerChunk \in Nat \ {0}
  BY TokenBridgeAssumption
<1>1. CASE n < FirstChunk
  BY <1>0, <1>1 DEF DueChunks, Chunks
<1>2. CASE n >= FirstChunk
  <2>1. PICK m \in Nat : m = n - FirstChunk
    BY <1>0, <1>2
  <2>2. n - FirstChunk + TokensPerChunk - 1 = m + TokensPerChunk - 1
    BY <1>0, <2>1
  <2>3. m % TokensPerChunk = n % TokensPerChunk
    BY <2>1, ModShift
  <2>4. /\ DueChunks(n) = 1 + m \div TokensPerChunk
        /\ Chunks(n) = 1 + (m + TokensPerChunk - 1) \div TokensPerChunk
    BY <1>0, <1>2, <2>1, <2>2 DEF DueChunks, Chunks
  <2>5. /\ m \div TokensPerChunk \in Nat
        /\ (m + TokensPerChunk - 1) \div TokensPerChunk
             = (m \div TokensPerChunk) + (IF m % TokensPerChunk = 0 THEN 0 ELSE 1)
    BY <1>0, DivNext
  <2> QED
    BY <1>0, <1>2, <2>3, <2>4, <2>5
<1> QED
  BY <1>0, <1>1, <1>2

---------------------------------------------------------------------------
(* The queues.                                                              *)

Item == {"token", "error", "sentinel"}
Chunk == {"pcm", "none"}

(* What Append does to a queue.                                             *)
LEMMA Appended ==
    ASSUME NEW S, NEW q \in Seq(S), NEW e \in S
    PROVE  /\ Append(q, e) \in Seq(S)
           /\ Len(Append(q, e)) = Len(q) + 1 /\ Len(q) \in Nat
           /\ \A i \in 1 .. Len(q) : Append(q, e)[i] = q[i]
           /\ Append(q, e)[Len(q) + 1] = e
           /\ Append(q, e) # <<>>
OBVIOUS

(* What Tail and Head do to a queue that is not empty.                      *)
LEMMA Removed ==
    ASSUME NEW S, NEW q \in Seq(S), q # <<>>
    PROVE  /\ Tail(q) \in Seq(S)
           /\ Len(Tail(q)) = Len(q) - 1 /\ Len(q) \in Nat \ {0}
           /\ \A i \in 1 .. Len(q) - 1 : Tail(q)[i] = q[i + 1]
           /\ Head(q) = q[1] /\ q[1] \in S
OBVIOUS

---------------------------------------------------------------------------
(* The steps.                                                               *)

(* A step that leaves a stream alone leaves what holds of it.               *)
LEMMA OtherStream ==
    ASSUME NEW x \in Stream, StreamInv(x),
           coro'[x] = coro[x], made'[x] = made[x], queue'[x] = queue[x],
           decoder'[x] = decoder[x], taken'[x] = taken[x], count'[x] = count[x],
           silent'[x] = silent[x], audio'[x] = audio[x],
           reader'[x] = reader[x], sent'[x] = sent[x], closed'[x] = closed[x],
           failed'[x] = failed[x]
    PROVE  StreamInv(x)'
BY DEF StreamInv, QueueShape, Waiting, AudioShape, NothingLost, EndsWhole, Queued, Emitted,
       Passed, DueChunks, Chunks

(* Resume keeps the invariant.                                              *)
LEMMA ResumeStep ==
    ASSUME Inv, NEW s \in Stream, Resume(s)
    PROVE  Inv'
<1>1. TypeOK'
  BY TokenBridgeAssumption DEF Inv, TypeOK, Resume, decoderVars, counts, readerVars
<1>2. StreamInv(s)'
  <2>1. StreamInv(s)
    BY DEF Inv
  <2>2. /\ made'[s] = made[s] /\ queue'[s] = queue[s] /\ decoder'[s] = decoder[s]
        /\ taken'[s] = taken[s] /\ audio'[s] = audio[s] /\ reader'[s] = reader[s]
        /\ count'[s] = count[s] /\ silent'[s] = silent[s]
        /\ sent'[s] = sent[s] /\ closed'[s] = closed[s] /\ coro[s] = "generate"
    BY DEF Resume, decoderVars, counts, readerVars
  <2>3. \/ made[s] < Tokens[s] /\ coro'[s] = "token" /\ failed'[s] = failed[s]
        \/ /\ made[s] = Tokens[s] \/ closed[s]
           /\ coro'[s] = "sentinel" /\ failed'[s] = failed[s]
        \/ coro'[s] = "error" /\ failed'[s]
    BY DEF Inv, TypeOK, Resume
  <2>4. QueueShape(s)'
    BY <2>1, <2>2, <2>3 DEF StreamInv, QueueShape, Waiting
  <2>5. AudioShape(s)'
    BY <2>1, <2>2 DEF StreamInv, AudioShape
  <2>6. NothingLost(s)'
    BY <2>1, <2>2, <2>3 DEF StreamInv, NothingLost, EndsWhole, Queued, Emitted, Passed, DueChunks, Chunks
  <2> QED
    BY <2>4, <2>5, <2>6 DEF StreamInv
<1>3. ASSUME NEW x \in Stream, x # s PROVE StreamInv(x)'
  BY <1>3, OtherStream DEF Inv, TypeOK, Resume, decoderVars, counts, readerVars
<1> QED
  BY <1>1, <1>2, <1>3 DEF Inv

(* Put keeps the invariant.                                                 *)
LEMMA PutStep ==
    ASSUME Inv, NEW s \in Stream, Put(s)
    PROVE  Inv'
<1>0. /\ coro[s] \in Item /\ queue[s] \in Seq(Item) /\ Tokens[s] \in Nat
      /\ made[s] \in Nat /\ taken[s] \in Nat
  BY TokenBridgeAssumption DEF Inv, TypeOK, Put, Item
<1>1. PICK q : q = Append(queue[s], coro[s])
  OBVIOUS
<1>2. /\ q \in Seq(Item) /\ Len(q) = Len(queue[s]) + 1 /\ Len(queue[s]) \in Nat
      /\ \A i \in 1 .. Len(queue[s]) : q[i] = queue[s][i]
      /\ q[Len(queue[s]) + 1] = coro[s]
  BY <1>0, <1>1, Appended
<1>3. queue' = [queue EXCEPT ![s] = q]
  BY <1>1 DEF Put
<1>4. StreamInv(s)
  BY DEF Inv
<1>5. TypeOK'
  <2>1. /\ loop' \in Stream \cup {Free}
        /\ coro' \in [Stream -> {"generate", "token", "error", "sentinel", "done"}]
        /\ \A x \in Stream : coro'[x] \in {"token", "error", "sentinel"} <=> loop' = x
    BY <1>0, TokenBridgeAssumption DEF Inv, TypeOK, Put, After, Item
  <2>2. made' \in [Stream -> Nat] /\ \A x \in Stream : taken[x] <= made'[x] /\ made'[x] <= Tokens[x]
    <3>1. made' = [made EXCEPT ![s] = IF coro[s] = "token" THEN @ + 1 ELSE @]
      BY DEF Put
    <3>2. coro[s] = "token" => made[s] < Tokens[s]
      BY <1>4 DEF StreamInv, QueueShape
    <3>3. /\ made \in [Stream -> Nat] /\ taken \in [Stream -> Nat] /\ Tokens \in [Stream -> Nat]
          /\ \A x \in Stream : taken[x] <= made[x] /\ made[x] <= Tokens[x]
      BY TokenBridgeAssumption DEF Inv, TypeOK
    <3>4. made' \in [Stream -> Nat]
      BY <1>0, <3>1, <3>3
    <3>5. ASSUME NEW x \in Stream PROVE taken[x] <= made'[x] /\ made'[x] <= Tokens[x]
      <4>1. made'[x] = IF x = s /\ coro[s] = "token" THEN made[s] + 1 ELSE made[x]
        BY <3>1, <3>3
      <4>2. /\ made[x] \in Nat /\ taken[x] \in Nat /\ Tokens[x] \in Nat
            /\ taken[x] <= made[x] /\ made[x] <= Tokens[x]
        BY <3>3
      <4> QED BY <1>0, <3>2, <4>1, <4>2
    <3> QED
      BY <3>4, <3>5
  <2>3. queue' \in [Stream -> Seq(Item)] /\ \A x \in Stream : Len(queue'[x]) <= QueueCap
    BY <1>2, <1>3, TokenBridgeAssumption DEF Inv, TypeOK, Put, Item
  <2> QED
    BY <2>1, <2>2, <2>3 DEF Inv, TypeOK, Put, decoderVars, counts, readerVars, Item
<1>6. StreamInv(s)'
  <2>1. /\ queue'[s] = q /\ decoder'[s] = decoder[s]
        /\ taken'[s] = taken[s] /\ audio'[s] = audio[s] /\ reader'[s] = reader[s]
        /\ count'[s] = count[s] /\ silent'[s] = silent[s]
        /\ sent'[s] = sent[s] /\ closed'[s] = closed[s] /\ failed'[s] = failed[s]
    BY <1>3 DEF Inv, TypeOK, Put, decoderVars, counts, readerVars
  <2>2. \/ coro[s] = "token" /\ coro'[s] = "generate" /\ made'[s] = made[s] + 1
        \/ coro[s] = "error" /\ coro'[s] = "sentinel" /\ made'[s] = made[s]
        \/ coro[s] = "sentinel" /\ coro'[s] = "done" /\ made'[s] = made[s]
    BY <1>0 DEF Inv, TypeOK, Put, After, Item
  <2>3. QueueShape(s)'
    <3>1. /\ made[s] - taken[s] \in 0 .. Len(queue[s])
          /\ \A i \in 1 .. Len(queue[s]) : queue[s][i] = "token" <=> i <= made[s] - taken[s]
          /\ coro[s] \in {"generate", "token", "error"} => Len(queue[s]) = made[s] - taken[s]
      BY <1>4 DEF StreamInv, QueueShape, Waiting
    <3>2. \A i \in 1 .. Len(q) : q[i] = IF i = Len(queue[s]) + 1 THEN coro[s] ELSE queue[s][i]
      BY <1>2
    <3>3. made'[s] - taken[s] \in 0 .. Len(q)
      BY <1>0, <1>2, <2>2, <3>1
    <3>4. ASSUME NEW i \in 1 .. Len(q) PROVE q[i] = "token" <=> i <= made'[s] - taken[s]
      <4>1. CASE i = Len(queue[s]) + 1
        BY <1>0, <1>2, <2>2, <3>1, <4>1
      <4>2. CASE i \in 1 .. Len(queue[s])
        <5>1. q[i] = "token" <=> i <= made[s] - taken[s]
          BY <1>2, <3>1, <4>2
        <5> QED
          BY <1>0, <1>2, <2>2, <3>1, <4>2, <5>1
      <4> QED
        BY <1>2, <4>1, <4>2
    <3>5. coro'[s] \in {"generate", "token", "error"} => Len(q) = made'[s] - taken[s]
      BY <1>0, <1>2, <2>2, <3>1
    <3> QED
      BY <2>1, <2>2, <3>3, <3>4, <3>5 DEF QueueShape, Waiting
  <2>4. AudioShape(s)'
    BY <1>4, <2>1 DEF StreamInv, AudioShape
  <2>5. NothingLost(s)'
    <3>1. SUFFICES ASSUME ~failed[s] PROVE EndsWhole(s)' /\ sent'[s] + Queued(s)' = Emitted(s)'
      BY <2>1 DEF NothingLost
    <3>2. EndsWhole(s) /\ sent[s] + Queued(s) = Emitted(s)
      BY <1>4, <3>1 DEF StreamInv, NothingLost
    <3>3. EndsWhole(s)'
      <4>1. \A i \in 1 .. Len(q) : q[i] = IF i = Len(queue[s]) + 1 THEN coro[s] ELSE queue[s][i]
        BY <1>2
      <4>2. \A i \in 1 .. Len(q) : q[i] # "error"
        BY <1>2, <3>2, <4>1 DEF EndsWhole
      <4> QED
        BY <2>1, <2>2, <3>2, <4>2 DEF EndsWhole
    <3>4. Queued(s)' = Queued(s) /\ Emitted(s)' = Emitted(s)
      BY <2>1 DEF Queued, Emitted, Passed, DueChunks, Chunks
    <3> QED
      BY <2>1, <3>2, <3>3, <3>4
  <2> QED
    BY <2>3, <2>4, <2>5 DEF StreamInv
<1>7. ASSUME NEW x \in Stream, x # s PROVE StreamInv(x)'
  BY <1>3, <1>7, OtherStream DEF Inv, TypeOK, Put, decoderVars, counts, readerVars
<1> QED
  BY <1>5, <1>6, <1>7 DEF Inv

(* A token taken keeps the invariant, whether it is accepted or skipped and *)
(* whatever its window gives.                                               *)
LEMMA TakeTokenStep ==
    ASSUME Inv, NEW s \in Stream, TakeToken(s) \/ SkipToken(s)
    PROVE  Inv'
<1>0. /\ queue[s] \in Seq(Item) /\ Tokens[s] \in Nat
      /\ made[s] \in Nat /\ taken[s] \in Nat /\ sent[s] \in Nat
      /\ count[s] \in Nat /\ silent[s] \in Nat /\ count[s] <= taken[s]
      /\ decoder[s] = "get" /\ queue[s] # <<>> /\ Head(queue[s]) = "token"
      /\ queue' = [queue EXCEPT ![s] = Tail(@)] /\ taken' = [taken EXCEPT ![s] = @ + 1]
      /\ UNCHANGED <<loop, coro, made, audio, reader, sent, closed, failed>>
  BY TokenBridgeAssumption
     DEF Inv, TypeOK, TakeToken, SkipToken, TokenTaken, loopVars, readerVars, Item
<1>9. \/ count' = count /\ decoder' = decoder /\ silent' = silent
      \/ /\ count' = [count EXCEPT ![s] = @ + 1]
         /\ \/ ~Due(count[s] + 1) /\ decoder' = decoder /\ silent' = silent
            \/ /\ Due(count[s] + 1)
               /\ decoder' = [decoder EXCEPT ![s] = "chunk"] /\ silent' = silent
            \/ /\ Due(count[s] + 1)
               /\ decoder' = [decoder EXCEPT ![s] = "get"]
               /\ silent' = [silent EXCEPT ![s] = @ + 1]
  BY DEF TakeToken, SkipToken, Decode, Goes
<1>1. PICK q : q = Tail(queue[s])
  OBVIOUS
<1>2. /\ q \in Seq(Item) /\ Len(q) = Len(queue[s]) - 1 /\ Len(queue[s]) \in Nat \ {0}
      /\ \A i \in 1 .. Len(queue[s]) - 1 : q[i] = queue[s][i + 1]
      /\ queue[s][1] = "token"
  BY <1>0, <1>1, Removed
<1>3. queue' = [queue EXCEPT ![s] = q]
  BY <1>0, <1>1
<1>4. StreamInv(s)
  BY DEF Inv
<1>5. /\ made[s] - taken[s] \in 1 .. Len(queue[s])
      /\ \A i \in 1 .. Len(queue[s]) : queue[s][i] = "token" <=> i <= made[s] - taken[s]
      /\ coro[s] \in {"generate", "token", "error"} => Len(queue[s]) = made[s] - taken[s]
      /\ coro[s] = "token" => made[s] < Tokens[s]
  BY <1>0, <1>2, <1>4 DEF StreamInv, QueueShape, Waiting
<1>6. TypeOK'
  <2>1. taken' \in [Stream -> Nat] /\ \A x \in Stream : taken'[x] <= made[x]
    <3>1. /\ made \in [Stream -> Nat] /\ taken \in [Stream -> Nat]
          /\ \A x \in Stream : taken[x] <= made[x]
      BY DEF Inv, TypeOK
    <3>2. taken' = [taken EXCEPT ![s] = @ + 1] /\ made[s] - taken[s] >= 1
      BY <1>0, <1>2, <1>5
    <3> QED
      BY <3>1, <3>2
  <2>4. count' \in [Stream -> Nat] /\ \A x \in Stream : count'[x] <= taken'[x]
    <3>1. /\ count \in [Stream -> Nat] /\ taken \in [Stream -> Nat]
          /\ \A x \in Stream : count[x] <= taken[x]
      BY DEF Inv, TypeOK
    <3>2. count' = count \/ count' = [count EXCEPT ![s] = @ + 1]
      BY <1>9
    <3>3. taken' = [taken EXCEPT ![s] = @ + 1]
      BY <1>0
    <3> QED
      BY <3>1, <3>2, <3>3
  <2>2. queue' \in [Stream -> Seq(Item)] /\ \A x \in Stream : Len(queue'[x]) <= QueueCap
    <3>1. /\ queue \in [Stream -> Seq(Item)] /\ \A x \in Stream : Len(queue[x]) <= QueueCap
          /\ QueueCap \in Nat
      BY TokenBridgeAssumption DEF Inv, TypeOK, Item
    <3> QED
      BY <1>2, <1>3, <3>1
  <2>3. decoder' \in [Stream -> {"get", "chunk", "last", "finish", "done"}]
    BY <1>9 DEF Inv, TypeOK
  <2>5. silent' \in [Stream -> Nat]
    <3>1. silent \in [Stream -> Nat]
      BY DEF Inv, TypeOK
    <3>2. silent' = silent \/ silent' = [silent EXCEPT ![s] = @ + 1]
      BY <1>9
    <3> QED
      BY <3>1, <3>2
  <2> QED
    BY <1>0, <2>1, <2>2, <2>3, <2>4, <2>5 DEF Inv, TypeOK, Item
<1>7. StreamInv(s)'
  <2>1. /\ queue'[s] = q /\ taken'[s] = taken[s] + 1
        /\ made'[s] = made[s] /\ coro'[s] = coro[s] /\ audio'[s] = audio[s]
        /\ reader'[s] = reader[s] /\ sent'[s] = sent[s] /\ closed'[s] = closed[s]
        /\ failed'[s] = failed[s]
    BY <1>0, <1>3 DEF Inv, TypeOK
  <2>2. \/ count'[s] = count[s] /\ decoder'[s] = "get" /\ silent'[s] = silent[s]
        \/ /\ count'[s] = count[s] + 1 /\ ~Due(count[s] + 1)
           /\ decoder'[s] = "get" /\ silent'[s] = silent[s]
        \/ /\ count'[s] = count[s] + 1 /\ Due(count[s] + 1)
           /\ decoder'[s] = "chunk" /\ silent'[s] = silent[s]
        \/ /\ count'[s] = count[s] + 1 /\ Due(count[s] + 1)
           /\ decoder'[s] = "get" /\ silent'[s] = silent[s] + 1
    <3>1. count \in [Stream -> Nat] /\ silent \in [Stream -> Nat] /\ s \in DOMAIN decoder
      BY DEF Inv, TypeOK
    <3>2. CASE UNCHANGED <<count, decoder, silent>>
      BY <1>0, <3>2
    <3>3. CASE ~Due(count[s] + 1) /\ count' = [count EXCEPT ![s] = @ + 1] /\ UNCHANGED <<decoder, silent>>
      BY <1>0, <3>1, <3>3
    <3>4. CASE /\ Due(count[s] + 1) /\ count' = [count EXCEPT ![s] = @ + 1] /\ silent' = silent
               /\ decoder' = [decoder EXCEPT ![s] = "chunk"]
      BY <3>1, <3>4
    <3>5. CASE /\ Due(count[s] + 1) /\ count' = [count EXCEPT ![s] = @ + 1]
               /\ silent' = [silent EXCEPT ![s] = @ + 1]
               /\ decoder' = [decoder EXCEPT ![s] = "get"]
      BY <3>1, <3>5
    <3> QED
      BY <1>9, <3>2, <3>3, <3>4, <3>5
  <2>3. QueueShape(s)'
    <3>1. made[s] - (taken[s] + 1) \in 0 .. Len(q)
      <4>1. made[s] - taken[s] \in 1 .. Len(queue[s])
        BY <1>5
      <4>2. Len(q) = Len(queue[s]) - 1 /\ Len(queue[s]) \in Nat
        BY <1>2
      <4>3. made[s] \in Nat /\ taken[s] \in Nat
        BY <1>0
      <4> QED BY ONLY <4>1, <4>2, <4>3
    <3>2. ASSUME NEW i \in 1 .. Len(q) PROVE q[i] = "token" <=> i <= made[s] - (taken[s] + 1)
      <4>1. i + 1 \in 1 .. Len(queue[s]) /\ q[i] = queue[s][i + 1]
        BY <1>2
      <4>2. q[i] = "token" <=> i + 1 <= made[s] - taken[s]
        BY <1>5, <4>1
      <4> QED
        BY <1>0, <4>2
    <3>3. coro[s] \in {"generate", "token", "error"} => Len(q) = made[s] - (taken[s] + 1)
      <4>1. Len(queue[s]) = made[s] - taken[s] => Len(q) = made[s] - (taken[s] + 1)
        <5>1. made[s] \in Nat /\ taken[s] \in Nat
          BY <1>0
        <5>2. Len(q) = Len(queue[s]) - 1 /\ Len(queue[s]) \in Nat
          BY <1>2
        <5> QED
          BY ONLY <5>1, <5>2
      <4> QED
        BY <1>5, <4>1
    <3> QED
      BY <1>5, <2>1, <3>1, <3>2, <3>3 DEF QueueShape, Waiting
  <2>4. AudioShape(s)'
    BY <1>0, <1>4, <2>1, <2>2 DEF StreamInv, AudioShape
  <2>5. NothingLost(s)'
    <3>1. SUFFICES ASSUME ~failed[s] PROVE EndsWhole(s)' /\ sent'[s] + Queued(s)' = Emitted(s)'
      BY <2>1 DEF NothingLost
    <3>2. EndsWhole(s) /\ sent[s] + Queued(s) = Emitted(s)
      BY <1>4, <3>1 DEF StreamInv, NothingLost
    <3>3. EndsWhole(s)'
      <4>1. \A i \in 1 .. Len(q) : q[i] # "error"
        BY <1>2, <3>2 DEF EndsWhole
      <4> QED
        BY <1>0, <2>1, <2>2, <3>2, <4>1 DEF EndsWhole
    <3>4. Queued(s)' = Queued(s)
      BY <1>0, <2>1, <2>2 DEF Queued
    <3>5. Emitted(s) = DueChunks(count[s]) - silent[s]
      BY <1>0 DEF Emitted, Passed
    <3>6. Emitted(s)' = DueChunks(count[s]) - silent[s]
      <4>0. silent[s] \in Nat
        BY <1>0
      <4>1. /\ DueChunks(count[s]) \in Nat
            /\ DueChunks(count[s] + 1) = DueChunks(count[s]) + (IF Due(count[s] + 1) THEN 1 ELSE 0)
        BY <1>0, DueStep DEF Due
      <4>2. Emitted(s)' = (IF decoder'[s] = "chunk" THEN DueChunks(count'[s]) - 1
                                                    ELSE DueChunks(count'[s])) - silent'[s]
        BY <2>2 DEF Emitted, Passed, DueChunks
      <4>3. CASE count'[s] = count[s] /\ decoder'[s] = "get" /\ silent'[s] = silent[s]
        BY <4>2, <4>3
      <4>4. CASE /\ count'[s] = count[s] + 1 /\ ~Due(count[s] + 1)
                 /\ decoder'[s] = "get" /\ silent'[s] = silent[s]
        BY <4>0, <4>1, <4>2, <4>4
      <4>5. CASE /\ count'[s] = count[s] + 1 /\ Due(count[s] + 1)
                 /\ decoder'[s] = "chunk" /\ silent'[s] = silent[s]
        BY <4>0, <4>1, <4>2, <4>5
      <4>6. CASE /\ count'[s] = count[s] + 1 /\ Due(count[s] + 1)
                 /\ decoder'[s] = "get" /\ silent'[s] = silent[s] + 1
        BY <4>0, <4>1, <4>2, <4>6
      <4> QED
        BY <2>2, <4>3, <4>4, <4>5, <4>6
    <3> QED
      BY <2>1, <3>2, <3>3, <3>4, <3>5, <3>6
  <2> QED
    BY <2>3, <2>4, <2>5 DEF StreamInv
<1>8. ASSUME NEW x \in Stream, x # s PROVE StreamInv(x)'
  <2>1. /\ decoder'[x] = decoder[x] /\ count'[x] = count[x] /\ silent'[x] = silent[x]
        /\ taken'[x] = taken[x] /\ queue'[x] = queue[x]
    BY <1>0, <1>8, <1>9 DEF Inv, TypeOK
  <2> QED
    BY <1>0, <1>8, <2>1, OtherStream DEF Inv
<1> QED
  BY <1>6, <1>7, <1>8 DEF Inv

(* The sentinel is next and a frame is not complete.                        *)
Unfinished(s) ==
    Head(queue[s]) = "sentinel" /\ count[s] >= FirstChunk /\ count[s] % TokensPerChunk # 0

(* TakeEnd keeps the invariant.                                             *)
LEMMA TakeEndStep ==
    ASSUME Inv, NEW s \in Stream, TakeEnd(s)
    PROVE  Inv'
<1>0. /\ queue[s] \in Seq(Item) /\ Tokens[s] \in Nat
      /\ made[s] \in Nat /\ taken[s] \in Nat /\ sent[s] \in Nat
      /\ count[s] \in Nat /\ silent[s] \in Nat
      /\ decoder[s] = "get" /\ queue[s] # <<>> /\ Head(queue[s]) # "token"
      /\ coro[s] \in {"generate", "token", "error", "sentinel", "done"}
  BY TokenBridgeAssumption DEF Inv, TypeOK, TakeEnd, Item
<1>1. PICK q : q = Tail(queue[s])
  OBVIOUS
<1>2. /\ q \in Seq(Item) /\ Len(q) = Len(queue[s]) - 1 /\ Len(queue[s]) \in Nat \ {0}
      /\ \A i \in 1 .. Len(queue[s]) - 1 : q[i] = queue[s][i + 1]
      /\ queue[s][1] = Head(queue[s]) /\ queue[s][1] \in Item
  BY <1>0, <1>1, Removed
<1>3. queue' = [queue EXCEPT ![s] = q]
  BY <1>1 DEF TakeEnd
<1>4. StreamInv(s)
  BY DEF Inv
<1>5. /\ made[s] - taken[s] = 0
      /\ \A i \in 1 .. Len(queue[s]) : queue[s][i] # "token"
      /\ coro[s] \in {"sentinel", "done"}
  <2>1. /\ made[s] - taken[s] \in 0 .. Len(queue[s])
        /\ \A i \in 1 .. Len(queue[s]) : queue[s][i] = "token" <=> i <= made[s] - taken[s]
        /\ coro[s] \in {"generate", "token", "error"} => Len(queue[s]) = made[s] - taken[s]
    BY <1>4 DEF StreamInv, QueueShape, Waiting
  <2>2. 1 \in 1 .. Len(queue[s]) /\ queue[s][1] # "token"
    BY <1>0, <1>2
  <2>3. made[s] - taken[s] = 0
    BY <1>0, <2>1, <2>2
  <2> QED
    BY <1>0, <1>2, <2>1, <2>3
<1>9. \/ /\ Unfinished(s)
         /\ decoder' = [decoder EXCEPT ![s] = "last"] /\ silent' = silent
      \/ /\ Unfinished(s)
         /\ decoder' = [decoder EXCEPT ![s] = "finish"]
         /\ silent' = [silent EXCEPT ![s] = @ + 1]
      \/ /\ ~Unfinished(s)
         /\ decoder' = [decoder EXCEPT ![s] = "finish"] /\ silent' = silent
  BY DEF TakeEnd, Decode, Goes, Unfinished
<1>6. TypeOK'
  <2>1. queue' \in [Stream -> Seq(Item)] /\ \A x \in Stream : Len(queue'[x]) <= QueueCap
    <3>1. /\ queue \in [Stream -> Seq(Item)] /\ \A x \in Stream : Len(queue[x]) <= QueueCap
          /\ QueueCap \in Nat
      BY TokenBridgeAssumption DEF Inv, TypeOK, Item
    <3> QED
      BY <1>2, <1>3, <3>1
  <2>2. decoder' \in [Stream -> {"get", "chunk", "last", "finish", "done"}]
    BY <1>9 DEF Inv, TypeOK
  <2>3. silent' \in [Stream -> Nat]
    <3>1. silent \in [Stream -> Nat]
      BY DEF Inv, TypeOK
    <3>2. silent' = silent \/ silent' = [silent EXCEPT ![s] = @ + 1]
      BY <1>9
    <3> QED
      BY <3>1, <3>2
  <2> QED
    BY <2>1, <2>2, <2>3 DEF Inv, TypeOK, TakeEnd, loopVars, readerVars, Item
<1>7. StreamInv(s)'
  <2>1. /\ queue'[s] = q /\ taken'[s] = taken[s] /\ count'[s] = count[s]
        /\ made'[s] = made[s] /\ coro'[s] = coro[s] /\ audio'[s] = audio[s]
        /\ reader'[s] = reader[s] /\ sent'[s] = sent[s] /\ closed'[s]
        /\ failed'[s] = failed[s]
    BY <1>3 DEF Inv, TypeOK, TakeEnd, loopVars, readerVars
  <2>2. \/ Unfinished(s) /\ decoder'[s] = "last" /\ silent'[s] = silent[s]
        \/ Unfinished(s) /\ decoder'[s] = "finish" /\ silent'[s] = silent[s] + 1
        \/ ~Unfinished(s) /\ decoder'[s] = "finish" /\ silent'[s] = silent[s]
    BY <1>9 DEF Inv, TypeOK
  <2>3. QueueShape(s)'
    <3>1. ASSUME NEW i \in 1 .. Len(q) PROVE q[i] # "token"
      BY <1>2, <1>5
    <3> QED
      BY <1>0, <1>2, <1>5, <2>1, <3>1 DEF QueueShape, Waiting
  <2>4. AudioShape(s)'
    BY <1>0, <1>4, <2>1, <2>2 DEF StreamInv, AudioShape
  <2>5. NothingLost(s)'
    <3>1. SUFFICES ASSUME ~failed[s] PROVE EndsWhole(s)' /\ sent'[s] + Queued(s)' = Emitted(s)'
      BY <2>1 DEF NothingLost
    <3>2. EndsWhole(s) /\ sent[s] + Queued(s) = Emitted(s)
      BY <1>4, <3>1 DEF StreamInv, NothingLost
    <3>3. EndsWhole(s)'
      <4>1. \A i \in 1 .. Len(q) : q[i] # "error"
        BY <1>2, <3>2 DEF EndsWhole
      <4>2. taken[s] = Tokens[s]
        BY <1>0, <1>5, <3>2 DEF EndsWhole
      <4> QED
        BY <1>0, <1>5, <2>1, <2>2, <3>2, <4>1, <4>2 DEF EndsWhole
    <3>4. Queued(s)' = Queued(s)
      BY <1>0, <2>1, <2>2 DEF Queued
    <3>5. Emitted(s) = DueChunks(count[s]) - silent[s]
      BY <1>0 DEF Emitted, Passed
    <3>6. Emitted(s)' = DueChunks(count[s]) - silent[s]
      <4>1. queue[s][1] = "sentinel"
        BY <1>2, <1>5, <3>2 DEF EndsWhole, Item
      <4>2. /\ DueChunks(count[s]) \in Nat
            /\ Chunks(count[s]) = DueChunks(count[s]) + (IF Unfinished(s) THEN 1 ELSE 0)
        BY <1>0, <1>2, <4>1, DueStep, ChunksDue DEF Unfinished
      <4>3. Emitted(s)' = (IF decoder'[s] = "last" THEN Chunks(count[s]) - 1
                                                   ELSE Chunks(count[s])) - silent'[s]
        BY <2>1, <2>2 DEF Emitted, Passed, Chunks
      <4>4. CASE Unfinished(s) /\ decoder'[s] = "last" /\ silent'[s] = silent[s]
        BY <1>0, <4>2, <4>3, <4>4
      <4>5. CASE Unfinished(s) /\ decoder'[s] = "finish" /\ silent'[s] = silent[s] + 1
        BY <1>0, <4>2, <4>3, <4>5
      <4>6. CASE ~Unfinished(s) /\ decoder'[s] = "finish" /\ silent'[s] = silent[s]
        BY <1>0, <4>2, <4>3, <4>6
      <4> QED
        BY <2>2, <4>4, <4>5, <4>6
    <3> QED
      BY <2>1, <3>2, <3>3, <3>4, <3>5, <3>6
  <2> QED
    BY <2>3, <2>4, <2>5 DEF StreamInv
<1>8. ASSUME NEW x \in Stream, x # s PROVE StreamInv(x)'
  <2>1. decoder'[x] = decoder[x] /\ silent'[x] = silent[x]
    BY <1>8, <1>9 DEF Inv, TypeOK
  <2> QED
    BY <1>3, <1>8, <2>1, OtherStream DEF Inv, TypeOK, TakeEnd, loopVars, readerVars
<1> QED
  BY <1>6, <1>7, <1>8 DEF Inv

(* DecodeError keeps the invariant.                                         *)
LEMMA DecodeErrorStep ==
    ASSUME Inv, NEW s \in Stream, DecodeError(s)
    PROVE  Inv'
<1>1. TypeOK'
  BY DEF Inv, TypeOK, DecodeError, Goes, counts, loopVars, readerVars
<1>2. StreamInv(s)'
  <2>1. StreamInv(s)
    BY DEF Inv
  <2>2. /\ queue'[s] = queue[s] /\ taken'[s] = taken[s] /\ made'[s] = made[s]
        /\ count'[s] = count[s] /\ silent'[s] = silent[s]
        /\ coro'[s] = coro[s] /\ audio'[s] = audio[s] /\ reader'[s] = reader[s]
        /\ failed'[s] /\ decoder[s] # "done" /\ decoder'[s] = "finish"
    BY DEF Inv, TypeOK, DecodeError, Goes, counts, loopVars, readerVars
  <2>3. QueueShape(s)'
    BY <2>1, <2>2 DEF StreamInv, QueueShape, Waiting
  <2>4. AudioShape(s)'
    BY <2>1, <2>2 DEF StreamInv, AudioShape
  <2> QED
    BY <2>2, <2>3, <2>4 DEF StreamInv, NothingLost
<1>3. ASSUME NEW x \in Stream, x # s PROVE StreamInv(x)'
  BY <1>3, OtherStream DEF Inv, TypeOK, DecodeError, Goes, counts, loopVars, readerVars
<1> QED
  BY <1>1, <1>2, <1>3 DEF Inv

(* PutAudio keeps the invariant.                                            *)
LEMMA PutAudioStep ==
    ASSUME Inv, NEW s \in Stream, PutAudio(s)
    PROVE  Inv'
<1>0. /\ audio[s] \in Seq(Chunk) /\ count[s] \in Nat /\ silent[s] \in Nat /\ sent[s] \in Nat
      /\ decoder[s] \in {"chunk", "last"}
  BY DEF Inv, TypeOK, PutAudio, Chunk
<1>1. PICK a : a = Append(audio[s], "pcm")
  OBVIOUS
<1>2. /\ a \in Seq(Chunk) /\ Len(a) = Len(audio[s]) + 1 /\ Len(audio[s]) \in Nat
      /\ \A i \in 1 .. Len(audio[s]) : a[i] = audio[s][i]
      /\ a[Len(audio[s]) + 1] = "pcm"
  <2>1. "pcm" \in Chunk
    BY DEF Chunk
  <2> QED
    BY <1>0, <1>1, <2>1, Appended
<1>3. audio' = [audio EXCEPT ![s] = a]
  BY <1>1 DEF PutAudio
<1>4. StreamInv(s)
  BY DEF Inv
<1>5. TypeOK'
  <2>1. audio' \in [Stream -> Seq(Chunk)] /\ \A x \in Stream : Len(audio'[x]) <= AudioCap
    BY <1>2, <1>3, TokenBridgeAssumption DEF Inv, TypeOK, PutAudio, Chunk
  <2>2. decoder' \in [Stream -> {"get", "chunk", "last", "finish", "done"}]
    BY DEF Inv, TypeOK, PutAudio, Goes
  <2> QED
    BY <2>1, <2>2 DEF Inv, TypeOK, PutAudio, counts, loopVars, readerVars, Chunk
<1>6. StreamInv(s)'
  <2>1. /\ queue'[s] = queue[s] /\ taken'[s] = taken[s] /\ made'[s] = made[s]
        /\ count'[s] = count[s] /\ silent'[s] = silent[s]
        /\ coro'[s] = coro[s] /\ audio'[s] = a /\ reader'[s] = reader[s]
        /\ sent'[s] = sent[s] /\ closed'[s] = closed[s] /\ failed'[s] = failed[s]
    BY <1>3 DEF Inv, TypeOK, PutAudio, counts, loopVars, readerVars
  <2>2. decoder'[s] = IF decoder[s] = "chunk" THEN "get" ELSE "finish"
    BY DEF Inv, TypeOK, PutAudio, Goes
  <2>3. QueueShape(s)'
    BY <1>4, <2>1 DEF StreamInv, QueueShape, Waiting
  <2>4. AudioShape(s)'
    <3>1. reader[s] # "ended" /\ \A i \in 1 .. Len(audio[s]) : audio[s][i] # "none"
      BY <1>0, <1>4 DEF StreamInv, AudioShape
    <3>2. \A i \in 1 .. Len(a) : a[i] # "none"
      BY <1>2, <3>1
    <3> QED
      BY <1>0, <2>1, <2>2, <3>1, <3>2 DEF AudioShape
  <2>5. NothingLost(s)'
    <3>1. SUFFICES ASSUME ~failed[s] PROVE EndsWhole(s)' /\ sent'[s] + Queued(s)' = Emitted(s)'
      BY <2>1 DEF NothingLost
    <3>2. EndsWhole(s) /\ sent[s] + Queued(s) = Emitted(s)
      BY <1>4, <3>1 DEF StreamInv, NothingLost
    <3>3. EndsWhole(s)'
      BY <1>0, <2>1, <2>2, <3>2 DEF EndsWhole
    <3>4. Queued(s) = Len(audio[s]) /\ Queued(s)' = Len(audio[s]) + 1
      BY <1>0, <1>2, <2>1, <2>2 DEF Queued
    <3>5. Emitted(s)' = Emitted(s) + 1
      <4>1. DueChunks(count[s]) \in Nat /\ Chunks(count[s]) \in Nat
        <5>1. DueChunks(count[s]) \in Nat
          BY <1>0, DueStep
        <5>2. \/ Chunks(count[s]) = DueChunks(count[s]) + 0
              \/ Chunks(count[s]) = DueChunks(count[s]) + 1
          BY <1>0, ChunksDue
        <5> QED
          BY <5>1, <5>2
      <4>2. CASE decoder[s] = "chunk"
        <5>1. /\ Emitted(s) = DueChunks(count[s]) - 1 - silent[s]
              /\ Emitted(s)' = DueChunks(count[s]) - silent[s]
          BY <2>1, <2>2, <4>2 DEF Emitted, Passed, DueChunks
        <5> QED
          BY <1>0, <4>1, <5>1
      <4>3. CASE decoder[s] = "last"
        <5>1. /\ Emitted(s) = Chunks(count[s]) - 1 - silent[s]
              /\ Emitted(s)' = Chunks(count[s]) - silent[s]
          BY <2>1, <2>2, <4>3 DEF Emitted, Passed, Chunks
        <5> QED
          BY <1>0, <4>1, <5>1
      <4> QED
        BY <1>0, <4>2, <4>3
    <3>6. sent[s] \in Nat /\ Len(audio[s]) \in Nat /\ sent'[s] = sent[s]
      BY <1>0, <1>2, <2>1
    <3>7. sent'[s] + Queued(s)' = Emitted(s)'
      BY ONLY <3>2, <3>4, <3>5, <3>6
    <3> QED
      BY <3>3, <3>7
  <2> QED
    BY <2>3, <2>4, <2>5 DEF StreamInv
<1>7. ASSUME NEW x \in Stream, x # s PROVE StreamInv(x)'
  BY <1>3, <1>7, OtherStream DEF Inv, TypeOK, PutAudio, Goes, counts, loopVars, readerVars
<1> QED
  BY <1>5, <1>6, <1>7 DEF Inv

(* Finish keeps the invariant.                                              *)
LEMMA FinishStep ==
    ASSUME Inv, NEW s \in Stream, Finish(s)
    PROVE  Inv'
<1>0. audio[s] \in Seq(Chunk) /\ sent[s] \in Nat /\ decoder[s] = "finish"
  BY DEF Inv, TypeOK, Finish, Chunk
<1>1. PICK a : a = Append(audio[s], "none")
  OBVIOUS
<1>2. /\ a \in Seq(Chunk) /\ Len(a) = Len(audio[s]) + 1 /\ Len(audio[s]) \in Nat
      /\ \A i \in 1 .. Len(audio[s]) : a[i] = audio[s][i]
      /\ a[Len(audio[s]) + 1] = "none" /\ a # <<>>
  <2>1. "none" \in Chunk
    BY DEF Chunk
  <2> QED
    BY <1>0, <1>1, <2>1, Appended
<1>3. audio' = [audio EXCEPT ![s] = a]
  BY <1>1 DEF Finish
<1>4. StreamInv(s)
  BY DEF Inv
<1>5. TypeOK'
  <2>1. audio' \in [Stream -> Seq(Chunk)] /\ \A x \in Stream : Len(audio'[x]) <= AudioCap
    BY <1>2, <1>3, TokenBridgeAssumption DEF Inv, TypeOK, Finish, Chunk
  <2>2. decoder' \in [Stream -> {"get", "chunk", "last", "finish", "done"}]
    BY DEF Inv, TypeOK, Finish, Goes
  <2> QED
    BY <2>1, <2>2 DEF Inv, TypeOK, Finish, counts, loopVars, readerVars, Chunk
<1>6. StreamInv(s)'
  <2>1. /\ queue'[s] = queue[s] /\ taken'[s] = taken[s] /\ made'[s] = made[s]
        /\ count'[s] = count[s] /\ silent'[s] = silent[s]
        /\ coro'[s] = coro[s] /\ audio'[s] = a /\ reader'[s] = reader[s]
        /\ sent'[s] = sent[s] /\ closed'[s] = closed[s] /\ failed'[s] = failed[s]
        /\ decoder'[s] = "done"
    BY <1>3 DEF Inv, TypeOK, Finish, Goes, counts, loopVars, readerVars
  <2>2. reader[s] # "ended" /\ \A i \in 1 .. Len(audio[s]) : audio[s][i] # "none"
    BY <1>0, <1>4 DEF StreamInv, AudioShape
  <2>3. QueueShape(s)'
    BY <1>4, <2>1 DEF StreamInv, QueueShape, Waiting
  <2>4. AudioShape(s)'
    <3>1. \A i \in 1 .. Len(a) : a[i] = "none" <=> i = Len(a)
      BY <1>2, <2>2
    <3> QED
      BY <1>2, <2>1, <2>2, <3>1 DEF AudioShape
  <2>5. NothingLost(s)'
    <3>1. SUFFICES ASSUME ~failed[s] PROVE EndsWhole(s)' /\ sent'[s] + Queued(s)' = Emitted(s)'
      BY <2>1 DEF NothingLost
    <3>2. EndsWhole(s) /\ sent[s] + Queued(s) = Emitted(s)
      BY <1>4, <3>1 DEF StreamInv, NothingLost
    <3>3. EndsWhole(s)'
      BY <1>0, <2>1, <3>2 DEF EndsWhole
    <3>4. Queued(s) = Len(audio[s]) /\ Queued(s)' = Len(audio[s])
      BY <1>0, <1>2, <2>1, <2>2 DEF Queued
    <3>5. Emitted(s)' = Emitted(s)
      BY <1>0, <2>1 DEF Emitted, Passed, Chunks
    <3> QED
      BY <2>1, <3>2, <3>3, <3>4, <3>5
  <2> QED
    BY <2>3, <2>4, <2>5 DEF StreamInv
<1>7. ASSUME NEW x \in Stream, x # s PROVE StreamInv(x)'
  BY <1>3, <1>7, OtherStream DEF Inv, TypeOK, Finish, Goes, counts, loopVars, readerVars
<1> QED
  BY <1>5, <1>6, <1>7 DEF Inv

(* Read keeps the invariant.                                                *)
LEMMA ReadStep ==
    ASSUME Inv, NEW s \in Stream, Read(s)
    PROVE  Inv'
<1>0. /\ audio[s] \in Seq(Chunk) /\ sent[s] \in Nat
      /\ reader[s] = "get" /\ audio[s] # <<>>
      /\ decoder[s] \in {"get", "chunk", "last", "finish", "done"}
  BY DEF Inv, TypeOK, Read, Chunk
<1>1. PICK a : a = Tail(audio[s])
  OBVIOUS
<1>2. /\ a \in Seq(Chunk) /\ Len(a) = Len(audio[s]) - 1 /\ Len(audio[s]) \in Nat \ {0}
      /\ \A i \in 1 .. Len(audio[s]) - 1 : a[i] = audio[s][i + 1]
      /\ audio[s][1] = Head(audio[s]) /\ audio[s][1] \in Chunk
  BY <1>0, <1>1, Removed
<1>3. audio' = [audio EXCEPT ![s] = a]
  BY <1>1 DEF Read
<1>4. StreamInv(s)
  BY DEF Inv
<1>5. TypeOK'
  <2>1. audio' \in [Stream -> Seq(Chunk)] /\ \A x \in Stream : Len(audio'[x]) <= AudioCap
    <3>1. /\ audio \in [Stream -> Seq(Chunk)] /\ \A x \in Stream : Len(audio[x]) <= AudioCap
          /\ AudioCap \in Nat
      BY TokenBridgeAssumption DEF Inv, TypeOK, Chunk
    <3> QED
      BY <1>2, <1>3, <3>1
  <2>2. sent' \in [Stream -> Nat] /\ reader' \in [Stream -> {"get", "ended", "left"}]
    <3>1. sent \in [Stream -> Nat] /\ reader \in [Stream -> {"get", "ended", "left"}]
      BY DEF Inv, TypeOK
    <3>2. \/ sent' = [sent EXCEPT ![s] = @ + 1] /\ reader' = reader
          \/ sent' = sent /\ reader' = [reader EXCEPT ![s] = "ended"]
      BY DEF Read
    <3> QED
      BY <3>1, <3>2
  <2> QED
    BY <2>1, <2>2 DEF Inv, TypeOK, Read, loopVars, decoderVars, counts, Chunk
<1>6. \A i \in 1 .. Len(audio[s]) :
          audio[s][i] = "none" <=> i = Len(audio[s]) /\ decoder[s] = "done"
  BY <1>0, <1>4 DEF StreamInv, AudioShape
<1>7. /\ queue'[s] = queue[s] /\ taken'[s] = taken[s] /\ made'[s] = made[s]
      /\ count'[s] = count[s] /\ silent'[s] = silent[s]
      /\ coro'[s] = coro[s] /\ audio'[s] = a /\ decoder'[s] = decoder[s]
      /\ closed'[s] = closed[s] /\ failed'[s] = failed[s]
  BY <1>3 DEF Inv, TypeOK, Read, loopVars, decoderVars, counts
<1>8. QueueShape(s)'
  BY <1>4, <1>7 DEF StreamInv, QueueShape, Waiting
<1>9. Emitted(s)' = Emitted(s)
  BY <1>7 DEF Emitted, Passed, DueChunks, Chunks
<1>10. EndsWhole(s) => EndsWhole(s)'
  BY <1>7 DEF EndsWhole
<1>11. StreamInv(s)'
  <2>1. CASE audio[s][1] = "pcm"
    <3>1. sent'[s] = sent[s] + 1 /\ reader'[s] = reader[s]
      BY <1>2, <2>1 DEF Inv, TypeOK, Read
    <3>2. decoder[s] = "done" => Len(a) > 0
      BY <1>2, <1>6, <2>1
    <3>3. decoder[s] = "done" => a # <<>>
      BY <3>2
    <3>4. ASSUME NEW i \in 1 .. Len(a) PROVE a[i] = "none" <=> i = Len(a) /\ decoder[s] = "done"
      <4>1. i + 1 \in 1 .. Len(audio[s]) /\ a[i] = audio[s][i + 1]
        BY <1>2
      <4>2. a[i] = "none" <=> i + 1 = Len(audio[s]) /\ decoder[s] = "done"
        BY <1>6, <4>1
      <4> QED
        BY <1>2, <4>2
    <3>5. AudioShape(s)'
      BY <1>0, <1>7, <3>1, <3>3, <3>4 DEF AudioShape
    <3>6. Queued(s) = Queued(s)' + 1 /\ Queued(s)' \in Int
      BY <1>0, <1>2, <1>7, <3>1 DEF Queued
    <3>7. NothingLost(s)'
      <4>1. SUFFICES ASSUME ~failed[s] PROVE EndsWhole(s)' /\ sent'[s] + Queued(s)' = Emitted(s)'
        BY <1>7 DEF NothingLost
      <4>2. EndsWhole(s) /\ sent[s] + Queued(s) = Emitted(s)
        BY <1>4, <4>1 DEF StreamInv, NothingLost
      <4>3. sent[s] + 1 + Queued(s)' = sent[s] + Queued(s)
        BY <1>0, <3>6
      <4> QED
        BY <1>9, <1>10, <3>1, <4>2, <4>3
    <3> QED
      BY <1>8, <3>5, <3>7 DEF StreamInv
  <2>2. CASE audio[s][1] = "none"
    <3>1. sent'[s] = sent[s] /\ reader'[s] = "ended"
      BY <1>2, <2>2 DEF Inv, TypeOK, Read
    <3>2. Len(audio[s]) = 1 /\ decoder[s] = "done"
      <4>1. 1 \in 1 .. Len(audio[s])
        BY <1>2
      <4> QED
        BY <1>6, <2>2, <4>1
    <3>3. Len(a) = 0 /\ a = <<>>
      BY <1>2, <3>2
    <3>4. AudioShape(s)'
      BY <1>7, <3>1, <3>2, <3>3 DEF AudioShape
    <3>5. Queued(s) = 0 /\ Queued(s)' = 0
      BY <1>0, <1>7, <3>1, <3>2, <3>3 DEF Queued
    <3>6. NothingLost(s)'
      BY <1>4, <1>7, <1>9, <1>10, <3>1, <3>5 DEF StreamInv, NothingLost
    <3> QED
      BY <1>8, <3>4, <3>6 DEF StreamInv
  <2> QED
    BY <1>2, <2>1, <2>2 DEF Chunk
<1>12. ASSUME NEW x \in Stream, x # s PROVE StreamInv(x)'
  BY <1>3, <1>12, OtherStream DEF Inv, TypeOK, Read, loopVars, decoderVars, counts
<1> QED
  BY <1>5, <1>11, <1>12 DEF Inv

(* Leave keeps the invariant: nobody empties the audio queue any more, and  *)
(* nothing is taken out of it either.                                       *)
LEMMA LeaveStep ==
    ASSUME Inv, NEW s \in Stream, Leave(s)
    PROVE  Inv'
<1>1. TypeOK'
  BY DEF Inv, TypeOK, Leave, loopVars, decoderVars, counts
<1>2. StreamInv(s)'
  <2>1. StreamInv(s)
    BY DEF Inv
  <2>2. /\ queue'[s] = queue[s] /\ taken'[s] = taken[s] /\ made'[s] = made[s]
        /\ count'[s] = count[s] /\ silent'[s] = silent[s]
        /\ coro'[s] = coro[s] /\ audio'[s] = audio[s] /\ decoder'[s] = decoder[s]
        /\ sent'[s] = sent[s] /\ closed'[s] = closed[s] /\ failed'[s] = failed[s]
        /\ reader[s] = "get" /\ reader'[s] = "left"
    BY DEF Inv, TypeOK, Leave, loopVars, decoderVars, counts
  <2>3. QueueShape(s)'
    BY <2>1, <2>2 DEF StreamInv, QueueShape, Waiting
  <2>4. AudioShape(s)'
    BY <2>1, <2>2 DEF StreamInv, AudioShape
  <2>5. NothingLost(s)'
    <3>1. Queued(s)' = Queued(s) /\ Emitted(s)' = Emitted(s)
      BY <2>2 DEF Queued, Emitted, Passed, DueChunks, Chunks
    <3>2. EndsWhole(s) => EndsWhole(s)'
      BY <2>2 DEF EndsWhole
    <3> QED
      BY <2>1, <2>2, <3>1, <3>2 DEF StreamInv, NothingLost
  <2> QED
    BY <2>3, <2>4, <2>5 DEF StreamInv
<1>3. ASSUME NEW x \in Stream, x # s PROVE StreamInv(x)'
  BY <1>3, OtherStream DEF Inv, TypeOK, Leave, loopVars, decoderVars, counts
<1> QED
  BY <1>1, <1>2, <1>3 DEF Inv

(* Collect keeps the invariant: when the thread is done and has not failed, *)
(* the coroutine has made its last token.                                   *)
LEMMA CollectStep ==
    ASSUME Inv, NEW s \in Stream, Collect(s)
    PROVE  Inv'
<1>1. TypeOK'
  BY DEF Inv, TypeOK, Collect, loopVars, decoderVars, counts, readerVars
<1>2. StreamInv(s)'
  <2>1. StreamInv(s)
    BY DEF Inv
  <2>2. /\ queue'[s] = queue[s] /\ taken'[s] = taken[s] /\ made'[s] = made[s]
        /\ count'[s] = count[s] /\ silent'[s] = silent[s]
        /\ coro'[s] = coro[s] /\ audio'[s] = audio[s] /\ decoder'[s] = decoder[s]
        /\ sent'[s] = sent[s] /\ reader'[s] = reader[s] /\ failed'[s] = failed[s]
        /\ decoder[s] = "done"
    BY DEF Inv, TypeOK, Collect, loopVars, decoderVars, counts, readerVars
  <2>3. QueueShape(s)'
    BY <2>1, <2>2 DEF StreamInv, QueueShape, Waiting
  <2>4. AudioShape(s)'
    BY <2>1, <2>2 DEF StreamInv, AudioShape
  <2>5. NothingLost(s)'
    <3>1. Queued(s)' = Queued(s) /\ Emitted(s)' = Emitted(s)
      BY <2>2 DEF Queued, Emitted, Passed, DueChunks, Chunks
    <3>2. EndsWhole(s) => EndsWhole(s)'
      BY <2>2 DEF EndsWhole
    <3> QED
      BY <2>1, <2>2, <3>1, <3>2 DEF StreamInv, NothingLost
  <2> QED
    BY <2>3, <2>4, <2>5 DEF StreamInv
<1>3. ASSUME NEW x \in Stream, x # s PROVE StreamInv(x)'
  BY <1>3, OtherStream DEF Inv, TypeOK, Collect, loopVars, decoderVars, counts, readerVars
<1> QED
  BY <1>1, <1>2, <1>3 DEF Inv

---------------------------------------------------------------------------
(* The theorems.                                                            *)

(* The invariant holds initially.                                           *)
LEMMA InitInv == Init => Inv
<1> SUFFICES ASSUME Init PROVE Inv
  OBVIOUS
<1>1. TypeOK
  BY TokenBridgeAssumption DEF Init, TypeOK
<1>2. ASSUME NEW s \in Stream PROVE StreamInv(s)
  <2>1. /\ coro[s] = "generate" /\ made[s] = 0 /\ queue[s] = <<>> /\ decoder[s] = "get"
        /\ taken[s] = 0 /\ count[s] = 0 /\ silent[s] = 0 /\ audio[s] = <<>> /\ reader[s] = "get" /\ sent[s] = 0
        /\ closed[s] = FALSE
    BY DEF Init
  <2>2. QueueShape(s) /\ AudioShape(s) /\ EndsWhole(s)
    BY <2>1 DEF QueueShape, Waiting, AudioShape, EndsWhole
  <2>3. Queued(s) = 0 /\ Emitted(s) = 0
    BY <2>1, TokenBridgeAssumption DEF Queued, Emitted, Passed, DueChunks
  <2> QED
    BY <2>1, <2>2, <2>3 DEF StreamInv, NothingLost
<1> QED
  BY <1>1, <1>2 DEF Inv

(* Every step keeps the invariant.                                          *)
LEMMA NextInv == Inv /\ [Next]_vars => Inv'
<1> SUFFICES ASSUME Inv, [Next]_vars PROVE Inv'
  OBVIOUS
<1>1. CASE \E s \in Stream :
              \/ Resume(s) \/ Put(s)
              \/ TakeToken(s) \/ SkipToken(s) \/ TakeEnd(s) \/ DecodeError(s) \/ PutAudio(s) \/ Finish(s)
              \/ Read(s) \/ Leave(s) \/ Collect(s)
  BY <1>1, ResumeStep, PutStep, TakeTokenStep, TakeEndStep, DecodeErrorStep, PutAudioStep,
     FinishStep, ReadStep, LeaveStep, CollectStep
<1>2. CASE UNCHANGED vars
  <2>1. TypeOK'
    BY <1>2 DEF Inv, TypeOK, vars
  <2>2. ASSUME NEW x \in Stream PROVE StreamInv(x)'
    BY <1>2, OtherStream DEF Inv, vars
  <2> QED
    BY <2>1, <2>2 DEF Inv
<1> QED
  BY <1>1, <1>2 DEF Next, Idle

(* The invariant holds in every state.                                      *)
THEOREM InvTheorem == Spec => []Inv
BY InitInv, NextInv, PTL DEF Spec

(* Type correctness: both queues keep to their sizes, the decoder is never  *)
(* ahead of the coroutine, and only the coroutine on the event loop is      *)
(* inside a put.                                                            *)
THEOREM TypeCorrect == Spec => []TypeOK
<1>1. Inv => TypeOK
  BY DEF Inv
<1> QED
  BY <1>1, InvTheorem, PTL

(* A stream that ended for its reader, and whose generation and decoding    *)
(* did not fail, has had every token taken and has sent all the windows due *)
(* for the tokens the decoder accepted but those that gave no audio:        *)
(* neither the blocking puts nor the cancellation of the coroutine loses    *)
(* one, for any number of skipped tokens and silent windows.                *)
THEOREM WholeTheorem == Spec => []WholeUnlessFailed
<1>1. Inv => WholeUnlessFailed
  <2>1. SUFFICES ASSUME Inv, NEW s \in Stream, reader[s] = "ended", ~failed[s]
                 PROVE  taken[s] = Tokens[s] /\ sent[s] + silent[s] = Chunks(count[s])
    BY DEF WholeUnlessFailed
  <2>2. decoder[s] = "done" /\ audio[s] = <<>>
    BY <2>1 DEF Inv, StreamInv, AudioShape
  <2>3. /\ EndsWhole(s) /\ sent[s] + Queued(s) = Emitted(s)
        /\ sent[s] \in Nat /\ silent[s] \in Nat /\ count[s] \in Nat
    BY <2>1 DEF Inv, StreamInv, NothingLost, TypeOK
  <2>4. Queued(s) = 0 /\ Emitted(s) = Chunks(count[s]) - silent[s] /\ taken[s] = Tokens[s]
    BY <2>1, <2>2, <2>3 DEF Queued, Emitted, Passed, EndsWhole
  <2>5. Chunks(count[s]) \in Int
    BY <2>3, TokenBridgeAssumption DEF Chunks
  <2> QED
    BY <2>3, <2>4, <2>5
<1> QED
  BY <1>1, InvTheorem, PTL
=============================================================================
